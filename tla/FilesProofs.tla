---------------------------- MODULE FilesProofs -----------------------------
(***************************************************************************)
(* Proofs of the tools that work on files: the sandbox, the skill scripts, *)
(* what changes the agents' own skills - the review, the improvement loop, *)
(* the measurements and the governed memory - the images and their         *)
(* settings, and the documents.  The theorems are about the run that       *)
(* combines these components (MCFiles).                                    *)
(***************************************************************************)
EXTENDS MCFiles, FiniteSetTheorems, WellFoundedInduction, TLAPS

(***************************************************************************)
(* The sandbox                                                             *)
(***************************************************************************)

SandboxStages ==
  {"idle", "discovered", "executing", "collected", "executed", "published", "not_published",
   "uncertain", "server_error", "unreachable", "rejected", "refused", "listed"}

SandboxTypes ==
  /\ step \in [Steps -> SandboxStages]
  /\ carried \in [Steps -> 0..(1 + MaxReleases)]
  /\ DOMAIN collected = Steps /\ DOMAIN tries = Steps
  /\ release \in 1..(1 + MaxReleases) /\ known \in 0..(1 + MaxReleases)
  /\ workspace \in [SandboxScopes -> Seq(Steps)]
  /\ \A c \in Steps : asked[c] \in SandboxAsked[c] /\ collected[c].content \in Seq(Steps)

(* Nothing has been executed for the call yet.                              *)
Unposted == {"idle", "discovered", "executing", "unreachable", "rejected", "refused", "listed"}

(* A call past its discovery works with capabilities of a release, and was  *)
(* allowed by them before anything was sent.                                *)
Prepared ==
  \A c \in Steps :
    /\ step[c] \in {"discovered", "executing", "collected"} => carried[c] \in 1..(1 + MaxReleases)
    /\ step[c] \in {"executing", "collected"} => Allowed(asked[c], Capability[carried[c]])

(* One execution of a call, after which it never sends another.             *)
OnePost ==
  /\ \A p \in posted :
       /\ p.call \in Steps /\ step[p.call] \notin Unposted
       /\ carried[p.call] \in 1..(1 + MaxReleases)
       /\ Allowed(asked[p.call], Capability[carried[p.call]])
       /\ p.timeout = Selected(asked[p.call], Capability[carried[p.call]])
  /\ \A p, q \in posted : p.call = q.call => p = q
  /\ \A c \in Steps : step[c] = "collected" => \E p \in posted : p.call = c

(* One publication of a call, of what its execution returned.               *)
OneSend ==
  /\ \A f \in sent : f.call \in Steps /\ \E p \in posted : p.call = f.call
  /\ \A f \in sent : step[f.call] # "collected"
  /\ \A f, g \in sent : f.call = g.call => f = g
  /\ \A c \in Steps : step[c] = "published" => Complete(c) /\ \E f \in sent : f.call = c

(* A file holds a piece of a call once, and only after it ran, in its own   *)
(* conversation.                                                            *)
PiecesKept ==
  \A s \in SandboxScopes : \A i \in 1..Len(workspace[s]) :
    /\ \A j \in 1..Len(workspace[s]) : workspace[s][i] = workspace[s][j] => i = j
    /\ \E p \in posted : p.call = workspace[s][i]
    /\ Scope(workspace[s][i]) = s

(* What an execution returned, or was published, is of one conversation.    *)
CopiesKept ==
  /\ \A c \in Steps : \A i \in 1..Len(collected[c].content) :
       Scope(collected[c].content[i]) = Scope(c)
  /\ \A f \in sent : \A i \in 1..Len(f.content) : Scope(f.content[i]) = f.scope
  /\ \A f \in sent : f.content \in Seq(Steps)

SandboxInv ==
  SandboxTypes /\ Prepared /\ OnePost /\ OneSend /\ PiecesKept /\ CopiesKept

(* No call has begun.                                                       *)
LEMMA SandboxStarts == SandboxInit => SandboxInv
<1> SUFFICES ASSUME SandboxInit
             PROVE  SandboxInv
  OBVIOUS
<1>1. SandboxTypes
  <2>1. release \in 1..(1 + MaxReleases) /\ known \in 0..(1 + MaxReleases)
    BY SandboxAssumption DEF SandboxInit
  <2>2. workspace \in [SandboxScopes -> Seq(Steps)]
    BY DEF SandboxInit
  <2>3. \A c \in Steps : asked[c] \in SandboxAsked[c] /\ collected[c].content \in Seq(Steps)
    <3>1. \A c \in Steps : collected[c] = NoFile
      BY DEF SandboxInit
    <3>2. NoFile.content = <<>>
      BY DEF NoFile
    <3>3. \A c \in Steps : collected[c].content = <<>>
      BY <3>1, <3>2
    <3>4. <<>> \in Seq(Steps)
      OBVIOUS
    <3>5. \A c \in Steps : asked[c] \in SandboxAsked[c]
      BY DEF SandboxInit
    <3> QED BY <3>3, <3>4, <3>5
  <2> QED BY <2>1, <2>2, <2>3 DEF SandboxInit, SandboxTypes, SandboxStages
<1>2. Prepared
  BY DEF SandboxInit, Prepared
<1>3. OnePost /\ OneSend
  BY DEF SandboxInit, OnePost, OneSend
<1>4. PiecesKept /\ CopiesKept
  BY DEF SandboxInit, PiecesKept, CopiesKept, NoFile
<1> QED BY <1>1, <1>2, <1>3, <1>4 DEF SandboxInv

(* The scope of an allowed file operation is that of some conversation.     *)
LEMMA TrustedScopes ==
  ASSUME NEW c \in Steps, SandboxTypes, NEW cap, Allowed(asked[c], cap),
         asked[c].operation \in FileOperations
  PROVE  Workspace(c) \in SandboxScopes /\ Workspace(c) = Scope(c)
BY DEF SandboxTypes, Allowed, FileAllowed, SandboxScopes, Workspace, Scope

CarriesOn(c, caps) == carried' = [carried EXCEPT ![c] = caps]
NothingDone == UNCHANGED <<asked, release, posted, workspace, collected, sent>>

(* A step that only moves a call from one stage before its execution to     *)
(* another leaves what was done alone.                                      *)
LEMMA MovingBeforePosting ==
  ASSUME SandboxInv, NEW c \in Steps, step[c] \in {"idle", "discovered", "executing"},
         NEW stage, SandboxTo(c, stage), stage \in {"idle", "discovered", "executing", "unreachable", "rejected",
                                                "refused", "listed", "uncertain"},
         NothingDone, DOMAIN tries' = Steps, known' \in 0..(1 + MaxReleases),
         NEW caps, CarriesOn(c, caps),
         caps \in 0..(1 + MaxReleases),
         stage \in {"discovered", "executing"} => caps \in 1..(1 + MaxReleases),
         stage = "executing" => Allowed(asked[c], Capability[caps])
  PROVE  SandboxInv'
<1> USE DEF SandboxInv, CarriesOn, NothingDone
<1>1. SandboxTypes'
  BY DEF SandboxTypes, SandboxStages, SandboxTo
<1>2. /\ \A d \in Steps : d # c => step'[d] = step[d] /\ carried'[d] = carried[d]
      /\ step'[c] = stage /\ carried'[c] = caps
  BY DEF SandboxTypes, SandboxTo
<1>3. Prepared'
  BY <1>2 DEF Prepared
<1>4. \A p \in posted : p.call # c
  BY DEF OnePost, Unposted
<1>5. OnePost'
  BY <1>2, <1>4 DEF OnePost, Unposted
<1>6. OneSend'
  BY <1>2, <1>4 DEF OneSend, Complete
<1>7. PiecesKept' /\ CopiesKept'
  BY DEF PiecesKept, CopiesKept, Scope
<1> QED BY <1>1, <1>3, <1>5, <1>6, <1>7

(* The run is carried out once, for a call that was allowed.                *)
LEMMA PostingKeepsOrder ==
  ASSUME SandboxInv, NEW c \in Steps, step[c] = "executing",
         NEW stage, SandboxTo(c, stage), stage \in {"collected", "executed", "server_error", "uncertain"},
         CarryOut(c), Allowed(asked[c], Capability[release]),
         UNCHANGED <<asked, carried, known, release, sent>>, DOMAIN tries' = Steps,
         collected' = collected \/ Collected(c)
  PROVE  SandboxInv'
<1> USE DEF SandboxInv
<1>1. PICK new : /\ posted' = posted \cup {new} /\ new.call = c
                 /\ new.timeout = Selected(asked[c], Capability[carried[c]])
  <2> DEFINE new == [call |-> c, at |-> Cardinality(posted),
                     timeout |-> Selected(asked[c], Capability[carried[c]])]
  <2>1. posted' = posted \cup {new}
    BY Zenon DEF CarryOut
  <2>2. new.call = c /\ new.timeout = Selected(asked[c], Capability[carried[c]])
    OBVIOUS
  <2> QED BY <2>1, <2>2
<1>2. \A p \in posted : p.call # c
  BY DEF OnePost, Unposted
<1>3. /\ step' \in [Steps -> SandboxStages] /\ step'[c] = stage
      /\ \A d \in Steps : d # c => step'[d] = step[d]
  BY DEF SandboxTypes, SandboxStages, SandboxTo
<1>4. asked[c].operation = "write_file" => Workspace(c) \in SandboxScopes /\ Workspace(c) = Scope(c)
  BY TrustedScopes DEF FileOperations
<1>5. asked[c].operation \in {"read_file", "publish_file"}
        => Workspace(c) \in SandboxScopes /\ Workspace(c) = Scope(c)
  BY TrustedScopes DEF FileOperations
<1>6. /\ workspace' \in [SandboxScopes -> Seq(Steps)]
      /\ \A s \in SandboxScopes :
           \/ workspace'[s] = workspace[s]
           \/ Scope(c) = s /\ workspace'[s] \in {Append(workspace[s], c), <<c>>}
  <2>1. CASE asked[c].operation = "write_file"
    <3>1. workspace' = [workspace EXCEPT ![Scope(c)] = IF asked[c].append THEN Append(@, c) ELSE <<c>>]
          /\ Scope(c) \in SandboxScopes
      BY <1>4, <2>1 DEF CarryOut
    <3> QED BY <3>1 DEF SandboxTypes
  <2>2. CASE asked[c].operation # "write_file"
    BY <2>2 DEF CarryOut, SandboxTypes
  <2> QED BY <2>1, <2>2
<1>7. /\ DOMAIN collected' = Steps
      /\ \A d \in Steps :
           \/ collected'[d] = collected[d]
           \/ d = c /\ collected'[d].content = <<>>
           \/ d = c /\ Scope(c) \in SandboxScopes /\ collected'[d].content = workspace[Scope(c)]
  BY <1>5 DEF Collected, NoFile, SandboxTypes
<1>8. SandboxTypes'
  <2>1. ASSUME NEW d \in Steps
        PROVE  collected'[d].content \in Seq(Steps)
    <3>1. <<>> \in Seq(Steps) /\ collected[d].content \in Seq(Steps)
      BY DEF SandboxTypes
    <3>2. Scope(c) \in SandboxScopes => workspace[Scope(c)] \in Seq(Steps)
      BY DEF SandboxTypes
    <3> QED BY <1>7, <3>1, <3>2
  <2> QED BY <1>3, <1>6, <1>7, <2>1 DEF SandboxTypes
<1>9. Prepared'
  BY <1>3 DEF Prepared
<1>10. OnePost'
  <2>1. /\ carried[c] \in 1..(1 + MaxReleases) /\ Allowed(asked[c], Capability[carried[c]])
        /\ step'[c] \notin Unposted
    BY <1>3 DEF Prepared, Unposted
  <2>2. \A p \in posted' :
          /\ p.call \in Steps /\ step'[p.call] \notin Unposted
          /\ carried'[p.call] \in 1..(1 + MaxReleases)
          /\ Allowed(asked'[p.call], Capability[carried'[p.call]])
          /\ p.timeout = Selected(asked'[p.call], Capability[carried'[p.call]])
    BY <1>1, <1>3, <2>1 DEF OnePost
  <2>3. \A p, q \in posted' : p.call = q.call => p = q
    BY <1>1, <1>2 DEF OnePost
  <2>4. \A d \in Steps : step'[d] = "collected" => \E p \in posted' : p.call = d
    BY <1>1, <1>3 DEF OnePost
  <2> QED BY <2>2, <2>3, <2>4 DEF OnePost
<1>11. OneSend'
  <2>1. \A f \in sent : f.call # c
    BY <1>2 DEF OneSend
  <2>2. \A d \in Steps \ {c} : Complete(d)' <=> Complete(d)
    BY <1>7 DEF Complete, Collected
  <2> QED BY <1>1, <1>3, <2>1, <2>2 DEF OneSend
<1>12. PiecesKept'
  <2> SUFFICES ASSUME NEW s \in SandboxScopes, NEW i \in 1..Len(workspace'[s])
               PROVE  /\ \A j \in 1..Len(workspace'[s]) : workspace'[s][i] = workspace'[s][j] => i = j
                      /\ \E p \in posted' : p.call = workspace'[s][i]
                      /\ Scope(workspace'[s][i]) = s
    BY DEF PiecesKept, Scope
  <2>1. CASE workspace'[s] = workspace[s]
    BY <1>1, <2>1 DEF PiecesKept
  <2>2. CASE Scope(c) = s /\ workspace'[s] = Append(workspace[s], c)
    <3>1. workspace[s] \in Seq(Steps)
      BY DEF SandboxTypes
    <3>2. \A k \in 1..Len(workspace[s]) : workspace[s][k] # c
      BY <1>2 DEF PiecesKept
    <3>3. Len(workspace'[s]) = Len(workspace[s]) + 1
          /\ \A k \in 1..Len(workspace'[s]) :
               workspace'[s][k] = IF k <= Len(workspace[s]) THEN workspace[s][k] ELSE c
      BY <2>2, <3>1
    <3>4. Len(workspace[s]) \in Nat
      BY <3>1
    <3>5. CASE i <= Len(workspace[s])
      BY <1>1, <3>2, <3>3, <3>4, <3>5 DEF PiecesKept
    <3>6. CASE i = Len(workspace[s]) + 1
      BY <1>1, <2>2, <3>2, <3>3, <3>4, <3>6 DEF PiecesKept
    <3> QED BY <3>3, <3>4, <3>5, <3>6
  <2>3. CASE Scope(c) = s /\ workspace'[s] = <<c>>
    BY <1>1, <2>3 DEF PiecesKept
  <2> QED BY <1>6, <2>1, <2>2, <2>3
<1>13. CopiesKept'
  <2>1. ASSUME NEW d \in Steps, NEW i \in 1..Len(collected'[d].content)
        PROVE  Scope(collected'[d].content[i]) = Scope(d)
    BY <1>7, <2>1 DEF CopiesKept, PiecesKept
  <2> QED BY <2>1 DEF CopiesKept, Scope
<1> QED BY <1>8, <1>9, <1>10, <1>11, <1>12, <1>13

(* A published file is what its own execution returned.                     *)
LEMMA PublishingKeepsOrder ==
  ASSUME SandboxInv, NEW c \in Steps, step[c] = "collected",
         NEW stage, SandboxTo(c, stage), stage \in {"published", "not_published", "uncertain"},
         NEW more, sent' = sent \cup more,
         \A f \in more : /\ f.call = c /\ f.scope = Scope(c)
                         /\ f.content = collected[c].content,
         \A f, g \in more : f = g,
         stage = "published" => Complete(c) /\ more # {},
         UNCHANGED <<asked, known, carried, release, posted, workspace, collected>>,
         DOMAIN tries' = Steps
  PROVE  SandboxInv'
<1> USE DEF SandboxInv
<1>1. /\ step' \in [Steps -> SandboxStages] /\ step'[c] = stage
      /\ \A d \in Steps : d # c => step'[d] = step[d]
  BY DEF SandboxTypes, SandboxStages, SandboxTo
<1>2. SandboxTypes'
  BY <1>1 DEF SandboxTypes
<1>3. Prepared'
  BY <1>1 DEF Prepared
<1>4. OnePost'
  BY <1>1 DEF OnePost, Unposted
<1>5. \A f \in sent : f.call # c
  BY DEF OneSend
<1>6. OneSend'
  <2>1. \A f \in sent' : f.call \in Steps /\ \E p \in posted' : p.call = f.call
    BY DEF OneSend, OnePost
  <2>2. \A f \in sent' : step'[f.call] # "collected"
    BY <1>1 DEF OneSend
  <2>3. \A f, g \in sent' : f.call = g.call => f = g
    BY <1>5 DEF OneSend
  <2>4. ASSUME NEW d \in Steps, step'[d] = "published"
        PROVE  Complete(d)' /\ \E f \in sent' : f.call = d
    <3>1. Complete(d)' <=> Complete(d)
      BY DEF Complete
    <3> QED BY <1>1, <2>4, <3>1 DEF OneSend
  <2> QED BY <2>1, <2>2, <2>3, <2>4 DEF OneSend
<1>7. PiecesKept'
  BY DEF PiecesKept, Scope
<1>8. CopiesKept'
  <2>1. \A f \in more : f.content \in Seq(Steps)
                        /\ \A i \in 1..Len(f.content) : Scope(f.content[i]) = f.scope
    BY DEF CopiesKept, SandboxTypes
  <2> QED BY <2>1 DEF CopiesKept, Scope
<1> QED BY <1>2, <1>3, <1>4, <1>6, <1>7, <1>8

LEMMA SandboxSteps == SandboxInv /\ [SandboxNext]_sandboxVars => SandboxInv'
<1> SUFFICES ASSUME SandboxInv, [SandboxNext]_sandboxVars
             PROVE  SandboxInv'
  OBVIOUS
<1> USE SandboxAssumption
<1>a. /\ known \in 0..(1 + MaxReleases) /\ release \in 1..(1 + MaxReleases)
      /\ DOMAIN tries = Steps /\ carried \in [Steps -> 0..(1 + MaxReleases)]
      /\ \A c \in Steps : step[c] = "idle" /\ step' = step => SandboxTo(c, "idle")
  BY DEF SandboxInv, SandboxTypes, SandboxTo
<1>b. ASSUME NEW c \in Steps, NEW stage, SandboxAnswer(c, stage)
      PROVE  SandboxTo(c, stage) /\ DOMAIN tries' = Steps
  BY <1>a, <1>b DEF SandboxAnswer
<1>c. \A c \in Steps : ~MayRetry(c, "POST")
  BY DEF MayRetry
<1>d. \A c \in Steps : carried' = carried => CarriesOn(c, carried[c])
  BY <1>a DEF CarriesOn
<1>1. ASSUME NEW c \in Steps, SandboxCached(c)
      PROVE  SandboxInv'
  <2>1. /\ step[c] = "idle" /\ known \in 1..(1 + MaxReleases) /\ NothingDone
        /\ CarriesOn(c, known) /\ SandboxTo(c, "discovered")
        /\ DOMAIN tries' = Steps /\ known' \in 0..(1 + MaxReleases)
    BY <1>1, <1>a DEF SandboxCached, CarriesOn, NothingDone
  <2> QED BY <2>1, MovingBeforePosting
<1>2. ASSUME NEW c \in Steps, SandboxDiscover(c)
      PROVE  SandboxInv'
  <2>1. step[c] = "idle" /\ NothingDone
    BY <1>2 DEF SandboxDiscover, NothingDone
  <2>2. CASE /\ SandboxAnswer(c, "discovered") /\ known' = release
             /\ carried' = [carried EXCEPT ![c] = release]
    <3>1. /\ SandboxTo(c, "discovered") /\ DOMAIN tries' = Steps /\ CarriesOn(c, release)
          /\ known' \in 0..(1 + MaxReleases) /\ release \in 0..(1 + MaxReleases)
      BY <1>a, <1>b, <2>2 DEF CarriesOn
    <3> QED BY <1>a, <2>1, <3>1, MovingBeforePosting
  <2>3. CASE SandboxAnswer(c, "unreachable") /\ UNCHANGED <<known, carried>>
    <3>1. /\ SandboxTo(c, "unreachable") /\ DOMAIN tries' = Steps /\ CarriesOn(c, carried[c])
          /\ known' \in 0..(1 + MaxReleases)
      BY <1>a, <1>b, <1>d, <2>3
    <3> QED BY <1>a, <2>1, <3>1, MovingBeforePosting
  <2>4. CASE SandboxAgain(c) /\ UNCHANGED <<known, carried>>
    <3>1. /\ SandboxTo(c, "idle") /\ DOMAIN tries' = Steps /\ CarriesOn(c, carried[c])
          /\ known' \in 0..(1 + MaxReleases)
      BY <1>a, <1>d, <2>1, <2>4 DEF SandboxAgain
    <3> QED BY <1>a, <2>1, <3>1, MovingBeforePosting
  <2> QED BY <1>2, <2>2, <2>3, <2>4 DEF SandboxDiscover
<1>3. ASSUME NEW c \in Steps, SandboxPrepare(c)
      PROVE  SandboxInv'
  <2>1. PICK stage \in {"listed", "executing", "refused"} :
          /\ SandboxTo(c, stage)
          /\ stage = "executing" => Allowed(asked[c], Capability[carried[c]])
    BY <1>3 DEF SandboxPrepare
  <2>2. /\ step[c] = "discovered" /\ NothingDone /\ CarriesOn(c, carried[c])
        /\ DOMAIN tries' = Steps /\ known' \in 0..(1 + MaxReleases)
    BY <1>3, <1>a, <1>d DEF SandboxPrepare, NothingDone
  <2>3. carried[c] \in 1..(1 + MaxReleases) /\ carried[c] \in 0..(1 + MaxReleases)
    BY <2>2 DEF SandboxInv, Prepared
  <2> QED BY <2>1, <2>2, <2>3, MovingBeforePosting
<1>4. ASSUME NEW c \in Steps, Execute(c)
      PROVE  SandboxInv'
  <2>1. step[c] = "executing" /\ UNCHANGED <<asked, carried, release, sent>>
    BY <1>4 DEF Execute
  <2>2. ASSUME CarryOut(c), Allowed(asked[c], Capability[release]), UNCHANGED known,
               \/ /\ Collected(c)
                  /\ SandboxAnswer(c, IF asked[c].operation = "publish_file" THEN "collected"
                                      ELSE "executed")
               \/ /\ UNCHANGED collected
                  /\ \/ SandboxAnswer(c, "server_error")
                     \/ IF MayRetry(c, "POST") THEN SandboxAgain(c) ELSE SandboxAnswer(c, "uncertain")
        PROVE  SandboxInv'
    <3>1. PICK stage \in {"collected", "executed", "server_error", "uncertain"} :
            SandboxAnswer(c, stage) /\ (collected' = collected \/ Collected(c))
      BY <1>c, <2>2
    <3>2. SandboxTo(c, stage) /\ DOMAIN tries' = Steps
      BY <1>b, <3>1
    <3> QED BY <2>1, <2>2, <3>1, <3>2, PostingKeepsOrder
  <2>3. ASSUME UNCHANGED <<posted, workspace, collected>>,
               \/ /\ ~Allowed(asked[c], Capability[release]) /\ known' = 0
                  /\ SandboxAnswer(c, "rejected")
               \/ /\ UNCHANGED known
                  /\ IF MayRetry(c, "POST") THEN SandboxAgain(c) ELSE SandboxAnswer(c, "uncertain")
        PROVE  SandboxInv'
    <3>1. PICK stage \in {"rejected", "uncertain"} :
            SandboxAnswer(c, stage) /\ known' \in 0..(1 + MaxReleases)
      BY <1>a, <1>c, <2>3
    <3>2. SandboxTo(c, stage) /\ DOMAIN tries' = Steps
      BY <1>b, <3>1
    <3>3. CarriesOn(c, carried[c]) /\ NothingDone
      BY <1>d, <2>1, <2>3 DEF NothingDone
    <3>4. carried[c] \in 0..(1 + MaxReleases)
      BY <2>1 DEF SandboxInv, Prepared
    <3> QED BY <2>1, <3>1, <3>2, <3>3, <3>4, MovingBeforePosting
  <2> QED BY <1>4, <2>2, <2>3 DEF Execute
<1>5. ASSUME NEW c \in Steps, Publish(c)
      PROVE  SandboxInv'
  <2>1. /\ step[c] = "collected"
        /\ UNCHANGED <<asked, known, carried, release, posted, workspace, collected>>
    BY <1>5 DEF Publish
  <2>2. CASE UNCHANGED sent /\ \E stage \in {"not_published", "uncertain"} : SandboxAnswer(c, stage)
    <3>1. PICK stage \in {"not_published", "uncertain"} :
            SandboxTo(c, stage) /\ DOMAIN tries' = Steps
      BY <1>b, <2>2
    <3> DEFINE none == {}
    <3>2. sent' = sent \cup none
      BY <2>2
    <3>3. \A f, g \in none : f = g
      OBVIOUS
    <3>4. \A f \in none : f.call = c /\ f.scope = Scope(c) /\ f.content = collected[c].content
      OBVIOUS
    <3> HIDE DEF none
    <3> QED BY <2>1, <3>3, <3>4, <3>1, <3>2, PublishingKeepsOrder
  <2> DEFINE new == [call |-> c, at |-> Cardinality(sent), scope |-> Scope(c),
                     content |-> collected[c].content]
  <2>3. CASE /\ Complete(c) /\ sent' = sent \cup {new}
             /\ \E stage \in {"published", "not_published", "uncertain"} : SandboxAnswer(c, stage)
    <3>1. PICK stage \in {"published", "not_published", "uncertain"} :
            SandboxTo(c, stage) /\ DOMAIN tries' = Steps
      BY <1>b, <2>3
    <3>2. \A f \in {new} : f.call = c /\ f.scope = Scope(c) /\ f.content = collected[c].content
      OBVIOUS
    <3>3. sent' = sent \cup {new} /\ {new} # {} /\ \A f, g \in {new} : f = g
      BY <2>3
    <3> HIDE DEF new
    <3> QED BY <2>1, <2>3, <3>1, <3>2, <3>3, PublishingKeepsOrder
  <2>4. \/ UNCHANGED sent /\ \E stage \in {"not_published", "uncertain"} : SandboxAnswer(c, stage)
        \/ /\ Complete(c) /\ sent' = sent \cup {new}
           /\ \E stage \in {"published", "not_published", "uncertain"} : SandboxAnswer(c, stage)
    BY <1>5, <1>c DEF Publish
  <2> QED BY <2>2, <2>3, <2>4
<1>6. CASE CacheExpires \/ Redeploy
  <2>1. known' \in 0..(1 + MaxReleases) /\ release' \in 1..(1 + MaxReleases)
    BY <1>6, <1>a DEF CacheExpires, Redeploy
  <2>2. UNCHANGED <<step, asked, carried, tries, posted, workspace, collected, sent>>
    BY <1>6 DEF CacheExpires, Redeploy
  <2>3. SandboxTypes'
    BY <2>1, <2>2 DEF SandboxInv, SandboxTypes
  <2>4. Prepared' /\ OnePost' /\ OneSend'
    BY <2>2 DEF SandboxInv, Prepared, OnePost, OneSend, Complete
  <2>5. PiecesKept' /\ CopiesKept'
    BY <2>2 DEF SandboxInv, PiecesKept, CopiesKept, Scope
  <2> QED BY <2>3, <2>4, <2>5 DEF SandboxInv
<1>7. CASE UNCHANGED sandboxVars
  BY <1>7 DEF sandboxVars, SandboxInv, SandboxTypes, Prepared, OnePost, OneSend, Complete,
              PiecesKept, CopiesKept, Scope
<1> QED BY <1>1, <1>2, <1>3, <1>4, <1>5, <1>6, <1>7 DEF SandboxNext

(* What the run checks follows.                                             *)
LEMMA SandboxSafe == SandboxInv => RunsAtMostOnce
<1> SUFFICES ASSUME SandboxInv
             PROVE  RunsAtMostOnce
  OBVIOUS
<1> USE DEF SandboxInv
<1>1. ASSUME NEW S, \A x, y \in S : x = y
      PROVE  IsFiniteSet(S) /\ Cardinality(S) <= 1 /\ Cardinality(S) \in Nat
             /\ (S # {} => Cardinality(S) = 1)
  <2>1. S = {} \/ \E x : S = {x}
    BY <1>1
  <2>2. CASE S = {}
    BY <2>2, FS_EmptySet
  <2>3. ASSUME NEW x, S = {x}
        PROVE  IsFiniteSet(S) /\ Cardinality(S) = 1
    BY <2>3, FS_Singleton
  <2> QED BY <2>1, <2>2, <2>3
<1>2. ASSUME NEW c \in Steps
      PROVE  Cardinality(Ran(c)) <= 1 /\ Cardinality(SandboxSent(c)) <= Cardinality(Ran(c))
  <2>1. \A x, y \in Ran(c) : x = y
    BY DEF Ran, OnePost
  <2>2. \A x, y \in SandboxSent(c) : x = y
    BY DEF SandboxSent, OneSend
  <2>3. SandboxSent(c) # {} => Ran(c) # {}
    BY DEF SandboxSent, Ran, OneSend
  <2>4. Cardinality({}) = 0
    BY FS_EmptySet
  <2> QED BY <1>1, <2>1, <2>2, <2>3, <2>4
<1>3. ASSUME NEW c \in Steps
      PROVE  /\ step[c] = "published" => SandboxSent(c) # {} /\ Complete(c)
             /\ step[c] \in {"unreachable", "rejected", "refused", "listed"} => Ran(c) = {}
  BY DEF SandboxSent, Ran, OneSend, OnePost, Unposted
<1>4. ASSUME NEW c \in Steps, NEW s \in SandboxScopes
      PROVE  Cardinality({i \in DOMAIN workspace[s] : workspace[s][i] = c}) <= 1
  <2>1. workspace[s] \in Seq(Steps)
    BY DEF SandboxTypes
  <2>2. DOMAIN workspace[s] = 1..Len(workspace[s])
    BY <2>1
  <2>3. \A i, j \in {k \in DOMAIN workspace[s] : workspace[s][k] = c} : i = j
    BY <2>2 DEF PiecesKept
  <2> QED BY <1>1, <2>3
<1>5. AtMostOnce
  BY <1>2, <1>3, <1>4 DEF AtMostOnce
<1>6. ConversationsApart
  <2>1. ASSUME NEW s \in SandboxScopes, NEW i \in DOMAIN workspace[s]
        PROVE  Scope(workspace[s][i]) = s
    <3>1. workspace[s] \in Seq(Steps)
      BY DEF SandboxTypes
    <3>2. i \in 1..Len(workspace[s])
      BY <3>1
    <3> QED BY <3>2 DEF PiecesKept
  <2>2. ASSUME NEW f \in sent, NEW i \in DOMAIN f.content
        PROVE  Scope(f.content[i]) = f.scope
    <3>1. f.content \in Seq(Steps)
      BY DEF CopiesKept
    <3>2. i \in 1..Len(f.content)
      BY <3>1
    <3> QED BY <3>2 DEF CopiesKept
  <2> QED BY <2>1, <2>2 DEF ConversationsApart
<1>7. WithinCapabilities
  <2> SUFFICES ASSUME NEW p \in posted
               PROVE  /\ Allowed(asked[p.call], Capability[carried[p.call]])
                      /\ p.timeout <= Smaller(MaxTimeout, Capability[carried[p.call]].maxTimeout)
    BY DEF WithinCapabilities
  <2> DEFINE cap == Capability[carried[p.call]]
  <2>1. /\ Allowed(asked[p.call], cap) /\ p.timeout = Selected(asked[p.call], cap)
        /\ cap.maxTimeout \in Nat /\ MaxTimeout \in Nat
    BY SandboxAssumption DEF OnePost
  <2>2. p.timeout <= Effective(cap)
    BY <2>1 DEF Allowed
  <2>3. Effective(cap) = Smaller(MaxTimeout, cap.maxTimeout)
    BY <2>1 DEF Effective, Smaller
  <2> QED BY <2>1, <2>2, <2>3
<1> QED BY <1>5, <1>6, <1>7 DEF RunsAtMostOnce

(***************************************************************************)
(* Skill scripts and loads                                                 *)
(***************************************************************************)

Counts == [SkillStreams -> Nat]
Scripts ==
  [running : BOOLEAN, helper : BOOLEAN, escaped : BOOLEAN, todo : Counts, pipe : Counts,
   wrote : Counts]
SkillAnswers ==
  {"none", "refused", "listed", "not_found", "resource", "error", "loaded", "spawn_failed",
   "limit", "ran", "timeout", "cancelled"}
SkillCallRecords == [stage : {"idle", "running", "ended"}, answer : SkillAnswers]
Captures == [state : {"none", "ready", "reading", "over", "done", "gone"}, asked : Nat]

SkillTypes ==
  /\ call \in [SkillCalls -> SkillCallRecords]
  /\ script \in [SkillCalls -> Scripts]
  /\ skillReader \in [SkillCalls -> [SkillStreams -> Captures]]
  /\ captured \in [SkillCalls -> Counts]
  /\ budget \in [SkillCalls -> Nat]

(* What a stream's reader has kept and left in the pipe is all the group    *)
(* wrote to it, until it meets the limit; the budget is what the two kept   *)
(* leave of it.                                                             *)
Accounted(c) ==
  /\ budget[c] + captured[c]["stdout"] + captured[c]["stderr"] = OutputLimit
  /\ \A s \in SkillStreams :
       /\ skillReader[c][s].state \notin {"over", "gone"}
            => script[c].wrote[s] = captured[c][s] + script[c].pipe[s]
       /\ skillReader[c][s].state = "over" => budget[c] = 0
       /\ skillReader[c][s].state = "done" => script[c].pipe[s] = 0 /\ Closed(c)

(* A group runs only while its call does, and an answer is the last word.   *)
Attended(c) ==
  /\ call[c].stage = "idle" => script[c] = NoScript /\ captured[c] = Zero
  /\ call[c].stage = "running" => \A s \in SkillStreams : skillReader[c][s].state # "gone"
  /\ call[c].stage # "running" => ~script[c].running /\ ~script[c].helper
  /\ call[c].answer = "ran" =>
       call[c].stage = "ended" /\ \A s \in SkillStreams : captured[c][s] = script[c].wrote[s]
  /\ call[c].answer = "limit" => call[c].stage = "ended" /\ budget[c] = 0

ScriptsInv == SkillTypes /\ \A c \in SkillCalls : Accounted(c) /\ Attended(c)

LEMMA SkillZero == Zero \in Counts /\ NoScript \in Scripts /\ SkillStreams = {"stdout", "stderr"}
BY DEF Zero, Counts, NoScript, Scripts, SkillStreams

LEMMA ScriptsStart == SkillsInit => ScriptsInv
<1> SUFFICES ASSUME SkillsInit
             PROVE  ScriptsInv
  OBVIOUS
<1> USE SkillZero, SkillsAssumption
<1>1. \A c \in SkillCalls :
        /\ call[c] = Waiting /\ script[c] = NoScript /\ captured[c] = Zero
        /\ budget[c] = OutputLimit /\ skillReader[c] = Reader("none", 0)
  BY DEF SkillsInit
<1>2. /\ Waiting \in SkillCallRecords /\ Waiting.stage = "idle" /\ Waiting.answer = "none"
      /\ Reader("none", 0) \in [SkillStreams -> Captures]
      /\ \A s \in SkillStreams : Reader("none", 0)[s].state = "none"
  BY DEF Waiting, SkillCallRecords, SkillAnswers, Reader, Captures
<1>3. /\ \A s \in SkillStreams : Zero[s] = 0
      /\ NoScript.wrote = Zero /\ NoScript.pipe = Zero /\ ~NoScript.running /\ ~NoScript.helper
  BY DEF Zero, NoScript
<1>4. SkillTypes
  BY <1>1, <1>2 DEF SkillsInit, SkillTypes
<1>5. ASSUME NEW c \in SkillCalls
      PROVE  Accounted(c) /\ Attended(c)
  <2>1. Accounted(c)
    BY <1>1, <1>2, <1>3 DEF Accounted
  <2>2. Attended(c)
    BY <1>1, <1>2, <1>3 DEF Attended
  <2> QED BY <2>1, <2>2
<1> QED BY <1>4, <1>5 DEF ScriptsInv

(* A call that a step leaves alone stays as it was.                         *)
LEMMA SkillCallsApart ==
  ASSUME NEW c \in SkillCalls, Accounted(c) /\ Attended(c),
         call'[c] = call[c], script'[c] = script[c], skillReader'[c] = skillReader[c],
         captured'[c] = captured[c], budget'[c] = budget[c]
  PROVE  (Accounted(c) /\ Attended(c))'
BY DEF Accounted, Attended, Closed

(* The smaller of two numbers.                                              *)
LEMMA SmallerOfTwo ==
  ASSUME NEW a \in Nat, NEW b \in Nat
  PROVE  Min({a, b}) = IF a <= b THEN a ELSE b
<1>1. \E x \in {a, b} : \A y \in {a, b} : x <= y
  OBVIOUS
<1>2. Min({a, b}) \in {a, b} /\ \A y \in {a, b} : Min({a, b}) <= y
  BY <1>1 DEF Min
<1> QED BY <1>2
(* A step concerns one call.                                                *)
LEMMA OneSkillCall ==
  ASSUME ScriptsInv, NEW c \in SkillCalls, SkillTypes', (Accounted(c) /\ Attended(c))',
         \A d \in SkillCalls \ {c} :
           /\ call'[d] = call[d] /\ script'[d] = script[d] /\ skillReader'[d] = skillReader[d]
           /\ captured'[d] = captured[d] /\ budget'[d] = budget[d]
  PROVE  ScriptsInv'
<1>1. \A d \in SkillCalls \ {c} : (Accounted(d) /\ Attended(d))'
  BY SkillCallsApart DEF ScriptsInv
<1> QED BY <1>1 DEF ScriptsInv

(* A call that ends without a script.                                       *)
LEMMA EndingKeepsScripts ==
  ASSUME ScriptsInv, NEW c \in SkillCalls, call[c].stage = "idle",
         NEW answer \in SkillAnswers \ {"ran", "limit"}, Ends(c, answer),
         UNCHANGED <<script, skillReader, captured, budget>>
  PROVE  ScriptsInv'
<1>1. call' \in [SkillCalls -> SkillCallRecords]
  BY DEF ScriptsInv, SkillTypes, Ends, SkillCallRecords
<1>2. /\ call'[c].stage = "ended" /\ call'[c].answer = answer
      /\ \A d \in SkillCalls \ {c} : call'[d] = call[d]
  BY DEF ScriptsInv, SkillTypes, Ends, SkillCallRecords
<1>3. SkillTypes'
  BY <1>1 DEF ScriptsInv, SkillTypes
<1>4. (Accounted(c) /\ Attended(c))'
  BY <1>2, SkillZero DEF ScriptsInv, Accounted, Attended, Closed, NoScript
<1> QED BY <1>2, <1>3, <1>4, OneSkillCall

(* Requests are answered at once, or start a script.                        *)
LEMMA DispatchKeepsScripts ==
  ASSUME ScriptsInv, NEW c \in SkillCalls, SkillDispatch(c)
  PROVE  ScriptsInv'
<1>1. PICK r \in SkillAsked[c] :
        SkillRefuse(c, r) \/ List(c, r) \/ LoadResource(c, r) \/ LoadSkill(c, r) \/ RunScript(c, r)
  BY DEF SkillDispatch
<1>2. call[c].stage = "idle"
  BY DEF SkillDispatch
<1>3. CASE SkillRefuse(c, r) \/ List(c, r) \/ LoadResource(c, r) \/ LoadSkill(c, r)
  <2>1. /\ UNCHANGED <<script, skillReader, captured, budget>>
        /\ \E answer \in SkillAnswers \ {"ran", "limit"} : Ends(c, answer)
    BY <1>3 DEF SkillRefuse, List, LoadResource, LoadSkill, SkillUntouched, SkillAnswers
  <2> QED BY <1>2, <2>1, EndingKeepsScripts
<1>4. CASE RunScript(c, r)
  <2> DEFINE child == [running |-> TRUE, helper |-> r.helper, escaped |-> r.escaped,
                       todo |-> r.output, pipe |-> Zero, wrote |-> Zero]
  <2>1. UNCHANGED <<captured, budget>>
    BY <1>4 DEF RunScript
  <2>2. ASSUME UNCHANGED <<script, skillReader>>, NEW answer \in {"error", "spawn_failed"},
               Ends(c, answer)
        PROVE  ScriptsInv'
    BY <1>2, <2>1, <2>2, EndingKeepsScripts DEF SkillAnswers
  <2>3. ASSUME call' = [call EXCEPT ![c].stage = "running"],
               script' = [script EXCEPT ![c] = child],
               skillReader' = [skillReader EXCEPT ![c] = Reader("ready", 0)]
        PROVE  ScriptsInv'
    <3>1. /\ child \in Scripts /\ child.wrote = Zero /\ child.pipe = Zero
          /\ Reader("ready", 0) \in [SkillStreams -> Captures]
          /\ \A s \in SkillStreams : Reader("ready", 0)[s].state = "ready" /\ Zero[s] = 0
      BY SkillZero, SkillsAssumption DEF Scripts, Counts, Reader, Captures, Zero
    <3> HIDE DEF child
    <3>2. /\ call' \in [SkillCalls -> SkillCallRecords] /\ call'[c].stage = "running"
          /\ call'[c].answer = call[c].answer
      BY <2>3 DEF ScriptsInv, SkillTypes, SkillCallRecords
    <3>3. /\ script'[c] = child /\ skillReader'[c] = Reader("ready", 0)
          /\ \A d \in SkillCalls \ {c} :
               call'[d] = call[d] /\ script'[d] = script[d] /\ skillReader'[d] = skillReader[d]
      BY <2>3 DEF ScriptsInv, SkillTypes
    <3>4. SkillTypes'
      BY <2>1, <2>3, <3>1, <3>2 DEF ScriptsInv, SkillTypes
    <3>5. captured[c] = Zero /\ call[c].answer \notin {"ran", "limit"}
      BY <1>2 DEF ScriptsInv, Attended
    <3>6. Accounted(c)'
      BY <2>1, <3>1, <3>3, <3>5 DEF ScriptsInv, Accounted
    <3>7. Attended(c)'
      BY <3>1, <3>2, <3>3, <3>5 DEF Attended
    <3> QED BY <2>1, <3>3, <3>4, <3>6, <3>7, OneSkillCall
  <2> QED BY <1>4, <2>2, <2>3 DEF RunScript
<1> QED BY <1>1, <1>3, <1>4
(* The script and its helpers write while they run; what they leave of      *)
(* their output when they exit is never written.                            *)
LEMMA WritingKeepsScripts ==
  ASSUME ScriptsInv, NEW c \in SkillCalls,
         \/ \E s \in SkillStreams : SkillWrite(c, s)
         \/ ScriptExits(c) \/ HelperExits(c) \/ EscapedExits(c)
  PROVE  ScriptsInv'
<1> USE SkillZero
<1>1. /\ UNCHANGED <<call, skillReader, captured, budget>>
      /\ script \in [SkillCalls -> Scripts] /\ Accounted(c) /\ Attended(c)
  BY DEF SkillWrite, ScriptExits, HelperExits, EscapedExits, ScriptsInv, SkillTypes
<1>2. /\ script' \in [SkillCalls -> Scripts]
      /\ \A d \in SkillCalls \ {c} : script'[d] = script[d]
      /\ \/ \E s \in SkillStreams : SkillWrite(c, s)
         \/ /\ script'[c].wrote = script[c].wrote /\ script'[c].pipe = script[c].pipe
            /\ Closed(c) => Closed(c)'
      /\ script'[c].running => script[c].running
      /\ script'[c].helper => script[c].helper
  <2>1. ASSUME NEW s \in SkillStreams, SkillWrite(c, s)
        PROVE  /\ script'[c] = [script[c] EXCEPT !.todo[s] = @ - 1, !.pipe[s] = @ + 1, !.wrote[s] = @ + 1]
               /\ script'[c] \in Scripts
    BY <1>1, <2>1 DEF SkillWrite, Scripts, Counts
  <2>2. ASSUME ScriptExits(c)
        PROVE  script'[c] = [script[c] EXCEPT !.running = FALSE, !.todo = script'[c].todo]
               /\ script'[c] \in Scripts
    BY <1>1, <2>2 DEF ScriptExits, Scripts
  <2>3. ASSUME HelperExits(c)
        PROVE  script'[c] = [script[c] EXCEPT !.helper = FALSE] /\ script'[c] \in Scripts
    BY <1>1, <2>3 DEF HelperExits, Scripts
  <2>4. ASSUME EscapedExits(c)
        PROVE  script'[c] = [script[c] EXCEPT !.escaped = FALSE] /\ script'[c] \in Scripts
    BY <1>1, <2>4 DEF EscapedExits, Scripts
  <2>5. script' = [script EXCEPT ![c] = script'[c]]
    BY <1>1 DEF SkillWrite, ScriptExits, HelperExits, EscapedExits
  <2> QED BY <1>1, <2>1, <2>2, <2>3, <2>4, <2>5 DEF Closed, Scripts
<1>3. CASE /\ script'[c].wrote = script[c].wrote /\ script'[c].pipe = script[c].pipe
           /\ Closed(c) => Closed(c)'
  <2>1. call[c].stage # "idle"
    BY <1>1 DEF SkillWrite, ScriptExits, HelperExits, EscapedExits, Attended, NoScript
  <2>2. Accounted(c)'
    BY <1>1, <1>3 DEF Accounted
  <2>3. Attended(c)'
    BY <1>1, <1>2, <1>3, <2>1 DEF Attended
  <2> QED
    BY <1>1, <1>2, <2>2, <2>3, OneSkillCall DEF ScriptsInv, SkillTypes
<1>4. ASSUME NEW s \in SkillStreams, SkillWrite(c, s)
      PROVE  (Accounted(c) /\ Attended(c))'
  <2>1. ~Closed(c) /\ call[c].stage = "running"
    BY <1>1, <1>4 DEF SkillWrite, Closed, Attended, SkillTypes, SkillCallRecords, ScriptsInv
  <2>2. \A t \in SkillStreams : script'[c].wrote[t] = script[c].wrote[t] + (IF t = s THEN 1 ELSE 0)
                                /\ script'[c].pipe[t] = script[c].pipe[t] + (IF t = s THEN 1 ELSE 0)
                                /\ script[c].wrote[t] \in Nat /\ script[c].pipe[t] \in Nat
                                /\ captured[c][t] \in Nat
    BY <1>1, <1>4 DEF SkillWrite, Scripts, Counts, ScriptsInv, SkillTypes
  <2>3. Accounted(c)'
    BY <1>1, <2>1, <2>2 DEF Accounted
  <2>4. Attended(c)'
    BY <1>1, <2>1 DEF Attended
  <2> QED BY <2>3, <2>4
<1> QED BY <1>1, <1>2, <1>3, <1>4, OneSkillCall DEF ScriptsInv, SkillTypes
(* A reader keeps of what arrives what the budget left then allows.         *)
LEMMA ReadingKeepsScripts ==
  ASSUME ScriptsInv, NEW c \in SkillCalls, NEW s \in SkillStreams,
         SkillAsk(c, s) \/ SkillReceive(c, s) \/ EndOfStream(c, s)
  PROVE  ScriptsInv'
<1> USE SkillZero, SkillsAssumption
<1>1. /\ SkillTypes /\ Accounted(c) /\ Attended(c) /\ call' = call /\ call[c].stage = "running"
      /\ \A t \in SkillStreams :
           /\ script[c].wrote[t] \in Nat /\ script[c].pipe[t] \in Nat /\ captured[c][t] \in Nat
           /\ skillReader[c][t] \in Captures
      /\ budget[c] \in Nat
  <2>1. /\ SkillTypes /\ Accounted(c) /\ Attended(c) /\ call' = call /\ call[c].stage = "running"
    BY DEF SkillAsk, SkillReceive, EndOfStream, ScriptsInv
  <2>2. script[c] \in Scripts /\ captured[c] \in Counts /\ budget[c] \in Nat
        /\ \A t \in SkillStreams : skillReader[c][t] \in Captures
    BY <2>1 DEF SkillTypes
  <2> QED BY <2>1, <2>2 DEF Scripts, Counts
<1>2. CASE SkillAsk(c, s)
  <2>1. Min({SkillChunk, budget[c] + 1}) \in Nat
    <3> DEFINE more == budget[c] + 1
    <3>1. more \in Nat
      BY <1>1
    <3> HIDE DEF more
    <3>2. Min({SkillChunk, more}) \in Nat
      BY <3>1, SmallerOfTwo
    <3> QED BY <3>2 DEF more
  <2>2. /\ UNCHANGED <<script, captured, budget>>
        /\ skillReader' = [skillReader EXCEPT ![c][s] =
                             [state |-> "reading", asked |-> Min({SkillChunk, budget[c] + 1})]]
        /\ skillReader[c][s].state = "ready"
    BY <1>2 DEF SkillAsk
  <2>3. /\ skillReader' \in [SkillCalls -> [SkillStreams -> Captures]]
        /\ \A d \in SkillCalls \ {c} : skillReader'[d] = skillReader[d]
        /\ \A t \in SkillStreams : skillReader'[c][t].state =
             (IF t = s THEN "reading" ELSE skillReader[c][t].state)
    BY <1>1, <2>1, <2>2 DEF SkillTypes, Captures
  <2>4. SkillTypes'
    BY <1>1, <2>2, <2>3 DEF SkillTypes
  <2>5. Accounted(c)' /\ Attended(c)'
    BY <1>1, <2>2, <2>3 DEF Accounted, Attended, Closed
  <2> QED BY <1>1, <2>2, <2>3, <2>4, <2>5, OneSkillCall
<1>3. CASE EndOfStream(c, s)
  <2>1. /\ UNCHANGED <<script, captured, budget>>
        /\ skillReader' = [skillReader EXCEPT ![c][s].state = "done"]
        /\ skillReader[c][s].state = "reading" /\ script[c].pipe[s] = 0 /\ Closed(c)
    BY <1>3 DEF EndOfStream
  <2>2. /\ skillReader' \in [SkillCalls -> [SkillStreams -> Captures]]
        /\ \A d \in SkillCalls \ {c} : skillReader'[d] = skillReader[d]
        /\ \A t \in SkillStreams : skillReader'[c][t].state =
             (IF t = s THEN "done" ELSE skillReader[c][t].state)
    BY <1>1, <2>1 DEF SkillTypes, Captures
  <2>3. SkillTypes'
    BY <1>1, <2>1, <2>2 DEF SkillTypes
  <2>4. Accounted(c)' /\ Attended(c)'
    BY <1>1, <2>1, <2>2 DEF Accounted, Attended, Closed
  <2> QED BY <1>1, <2>1, <2>2, <2>3, <2>4, OneSkillCall
<1>4. CASE SkillReceive(c, s)
  <2> DEFINE n == Min({script[c].pipe[s], skillReader[c][s].asked})
             kept == SkillKept(c, s, n)
  <2>1. /\ n \in Nat /\ n <= script[c].pipe[s] /\ kept \in Nat /\ kept <= n
        /\ kept <= budget[c] /\ (n > kept => kept = budget[c]) /\ Min({kept, budget[c]}) = kept
    <3> DEFINE asks == skillReader[c][s].asked
               all == script[c].pipe[s]
    <3>1. asks \in Nat /\ all \in Nat
      BY <1>1 DEF Captures
    <3> HIDE DEF asks, all
    <3>2. n = Min({all, asks})
      BY DEF all, asks
    <3>3. n \in Nat /\ n <= all
      BY <3>1, <3>2, SmallerOfTwo
    <3> HIDE DEF n
    <3>4. kept \in Nat /\ kept <= n /\ kept <= budget[c] /\ (n > kept => kept = budget[c])
      BY <1>1, <3>3, SmallerOfTwo DEF SkillKept
    <3> HIDE DEF kept
    <3>5. Min({kept, budget[c]}) = kept
      BY <1>1, <3>4, SmallerOfTwo
    <3> QED BY <3>3, <3>4, <3>5 DEF all
  <2>2. /\ captured' = [captured EXCEPT ![c][s] = @ + kept]
        /\ budget' = [budget EXCEPT ![c] = @ - Min({kept, @})]
        /\ script' = [script EXCEPT ![c].pipe[s] = @ - n]
        /\ skillReader' = [skillReader EXCEPT ![c][s] =
                             [state |-> IF n > kept THEN "over" ELSE "ready", asked |-> 0]]
        /\ skillReader[c][s].state = "reading"
    BY <1>4 DEF SkillReceive
  <2> HIDE DEF n, kept
  <2>3. /\ captured' \in [SkillCalls -> Counts]
        /\ \A d \in SkillCalls \ {c} : captured'[d] = captured[d]
        /\ \A t \in SkillStreams : captured'[c][t] = captured[c][t] + (IF t = s THEN kept ELSE 0)
    <3>1. captured[c] \in Counts
      BY <1>1 DEF SkillTypes
    <3> DEFINE now == [captured[c] EXCEPT ![s] = @ + kept]
    <3>2. now \in Counts /\ \A t \in SkillStreams :
             now[t] = captured[c][t] + (IF t = s THEN kept ELSE 0)
      BY <1>1, <2>1, <3>1 DEF Counts
    <3>3. captured' = [captured EXCEPT ![c] = now]
      BY <2>2
    <3> HIDE DEF now
    <3> QED BY <1>1, <3>2, <3>3 DEF SkillTypes
  <2>4. /\ budget' \in [SkillCalls -> Nat] /\ budget'[c] = budget[c] - kept
        /\ \A d \in SkillCalls \ {c} : budget'[d] = budget[d]
    BY <1>1, <2>1, <2>2 DEF SkillTypes
  <2>5. /\ script' \in [SkillCalls -> Scripts]
        /\ \A d \in SkillCalls \ {c} : script'[d] = script[d]
        /\ \A t \in SkillStreams :
             /\ script'[c].pipe[t] = script[c].pipe[t] - (IF t = s THEN n ELSE 0)
             /\ script'[c].wrote[t] = script[c].wrote[t]
        /\ script'[c].running = script[c].running /\ script'[c].helper = script[c].helper
        /\ script'[c].escaped = script[c].escaped
    <3> DEFINE left == [script[c].pipe EXCEPT ![s] = @ - n]
               now == [script[c] EXCEPT !.pipe = left]
    <3>1. script[c] \in Scripts
      BY <1>1 DEF SkillTypes
    <3>2. left \in Counts /\ \A t \in SkillStreams :
             left[t] = script[c].pipe[t] - (IF t = s THEN n ELSE 0)
      <4>1. script[c].pipe \in Counts /\ script[c].pipe[s] \in Nat /\ n \in Nat
            /\ n <= script[c].pipe[s]
        BY <1>1, <2>1, <3>1 DEF Scripts
      <4>2. script[c].pipe[s] - n \in Nat
        BY <4>1
      <4> QED BY <1>1, <4>1, <4>2 DEF Counts
    <3>3. script' = [script EXCEPT ![c] = now]
      BY <2>2
    <3> HIDE DEF left
    <3>4. /\ now \in Scripts /\ now.pipe = left /\ now.wrote = script[c].wrote
          /\ now.running = script[c].running /\ now.helper = script[c].helper
          /\ now.escaped = script[c].escaped
      BY <3>1, <3>2 DEF Scripts
    <3> HIDE DEF now
    <3> QED BY <1>1, <3>2, <3>3, <3>4 DEF SkillTypes
  <2>6. /\ skillReader' \in [SkillCalls -> [SkillStreams -> Captures]]
        /\ \A d \in SkillCalls \ {c} : skillReader'[d] = skillReader[d]
        /\ \A t \in SkillStreams : skillReader'[c][t].state =
             (IF t # s THEN skillReader[c][t].state ELSE IF n > kept THEN "over" ELSE "ready")
    BY <1>1, <2>1, <2>2 DEF SkillTypes, Captures
  <2>7. SkillTypes'
    BY <1>1, <2>3, <2>4, <2>5, <2>6 DEF SkillTypes
  <2>8. budget'[c] + captured'[c]["stdout"] + captured'[c]["stderr"] = OutputLimit
    <3>1. /\ captured[c]["stdout"] \in Nat /\ captured[c]["stderr"] \in Nat
          /\ budget[c] + captured[c]["stdout"] + captured[c]["stderr"] = OutputLimit
          /\ budget[c] \in Nat /\ kept \in Nat
      BY <1>1, <2>1 DEF Accounted
    <3>2. CASE s = "stdout"
      BY <2>3, <2>4, <3>1, <3>2
    <3>3. CASE s = "stderr"
      <4>1. /\ captured'[c]["stdout"] = captured[c]["stdout"] + 0
            /\ captured'[c]["stderr"] = captured[c]["stderr"] + kept
        BY <2>3, <3>3
      <4>2. \A b, x, y, k \in Nat : (b - k) + (x + 0) + (y + k) = b + x + y
        OBVIOUS
      <4>3. (budget[c] - kept) + (captured[c]["stdout"] + 0) + (captured[c]["stderr"] + kept)
              = budget[c] + captured[c]["stdout"] + captured[c]["stderr"]
        BY <3>1, <4>2
      <4> QED BY <2>4, <3>1, <4>1, <4>3
    <3> QED BY <3>2, <3>3
  <2>9. ASSUME NEW t \in SkillStreams
        PROVE  /\ skillReader'[c][t].state \notin {"over", "gone"}
                    => script'[c].wrote[t] = captured'[c][t] + script'[c].pipe[t]
               /\ skillReader'[c][t].state = "over" => budget'[c] = 0
               /\ skillReader'[c][t].state = "done" => script'[c].pipe[t] = 0 /\ Closed(c)'
    <3>1. Closed(c)' <=> Closed(c)
      BY <2>5 DEF Closed
    <3>2. CASE t = s
      <4>1. script[c].wrote[s] = captured[c][s] + script[c].pipe[s]
        BY <1>1, <2>2 DEF Accounted
      <4>2. /\ script'[c].wrote[s] = script[c].wrote[s]
            /\ captured'[c][s] = captured[c][s] + kept
            /\ script'[c].pipe[s] = script[c].pipe[s] - n
            /\ skillReader'[c][s].state = IF n > kept THEN "over" ELSE "ready"
        BY <2>3, <2>5, <2>6
      <4>3. kept = n \/ (n > kept /\ budget'[c] = 0)
        BY <1>1, <2>1, <2>4
      <4>4. /\ script[c].wrote[s] \in Nat /\ script[c].pipe[s] \in Nat
            /\ captured[c][s] \in Nat /\ n \in Nat /\ kept \in Nat
        BY <1>1, <2>1
      <4>5. CASE n > kept
        BY <3>2, <4>2, <4>3, <4>4, <4>5
      <4>6. CASE kept = n
        <5>1. skillReader'[c][s].state = "ready"
          BY <4>2, <4>4, <4>6
        <5>2. script'[c].wrote[s] = captured'[c][s] + script'[c].pipe[s]
          BY <4>1, <4>2, <4>4, <4>6
        <5> QED BY <3>2, <5>1, <5>2
      <4> QED BY <4>3, <4>5, <4>6
    <3>3. CASE t # s
      <4>1. /\ script'[c].wrote[t] = script[c].wrote[t] /\ captured'[c][t] = captured[c][t]
            /\ script'[c].pipe[t] = script[c].pipe[t]
            /\ skillReader'[c][t].state = skillReader[c][t].state
        <5>1. script[c].pipe[t] \in Nat /\ captured[c][t] \in Nat
          BY <1>1
        <5> QED BY <2>3, <2>5, <2>6, <3>3, <5>1
      <4>2. budget[c] = 0 => budget'[c] = 0
        BY <1>1, <2>1, <2>4
      <4> QED BY <1>1, <3>1, <4>1, <4>2 DEF Accounted
    <3> QED BY <3>2, <3>3
  <2>10. Attended(c)'
    BY <1>1, <2>6 DEF Attended
  <2> QED BY <1>1, <2>3, <2>4, <2>5, <2>6, <2>7, <2>8, <2>9, <2>10, OneSkillCall DEF Accounted
<1> QED BY <1>2, <1>3, <1>4

(* The clean-up after a call leaves nothing of its group running.           *)
LEMMA CleaningKeepsScripts ==
  ASSUME ScriptsInv, NEW c \in SkillCalls, Cleanup(c)
  PROVE  ScriptsInv'
<1> USE SkillZero
<1>1. /\ SkillTypes /\ Accounted(c) /\ Attended(c) /\ call[c].stage = "running"
      /\ UNCHANGED <<captured, budget>> /\ script' = [script EXCEPT ![c] = Killed(c)]
      /\ skillReader' = [skillReader EXCEPT ![c] = Reader("gone", 0)]
  BY DEF Cleanup, ScriptsInv
<1>2. PICK answer \in Outcome(c) : Ends(c, answer)
  BY DEF Cleanup
<1>3. /\ answer \in {"limit", "ran", "timeout", "cancelled"}
      /\ answer = "limit" => \E s \in SkillStreams : skillReader[c][s].state = "over"
      /\ answer = "ran" => \A s \in SkillStreams : skillReader[c][s].state = "done"
  BY DEF Outcome
<1>4. /\ call' \in [SkillCalls -> SkillCallRecords] /\ call'[c].stage = "ended"
      /\ call'[c].answer = answer /\ \A d \in SkillCalls \ {c} : call'[d] = call[d]
  BY <1>1, <1>2, <1>3 DEF SkillTypes, Ends, SkillCallRecords, SkillAnswers
<1>5. /\ Killed(c) \in Scripts /\ ~Killed(c).running /\ ~Killed(c).helper
      /\ Killed(c).wrote = script[c].wrote /\ Killed(c).pipe = script[c].pipe
  BY <1>1 DEF Killed, SkillTypes, Scripts
<1>6. /\ Reader("gone", 0) \in [SkillStreams -> Captures]
      /\ \A s \in SkillStreams : Reader("gone", 0)[s].state = "gone"
  BY DEF Reader, Captures
<1>7. SkillTypes'
  BY <1>1, <1>4, <1>5, <1>6 DEF SkillTypes
<1>8. /\ script'[c] = Killed(c) /\ skillReader'[c] = Reader("gone", 0)
      /\ \A d \in SkillCalls \ {c} : script'[d] = script[d] /\ skillReader'[d] = skillReader[d]
  BY <1>1 DEF SkillTypes
<1>9. Accounted(c)'
  BY <1>1, <1>6, <1>8 DEF Accounted
<1>10. answer = "ran" => \A s \in SkillStreams : captured[c][s] = script[c].wrote[s]
  <2>1. \A s \in SkillStreams : captured[c][s] \in Nat
    BY <1>1 DEF SkillTypes, Counts
  <2> QED BY <1>1, <1>3, <2>1 DEF Accounted
<1>11. answer = "limit" => budget[c] = 0
  BY <1>1, <1>3 DEF Accounted
<1>12. Attended(c)'
  BY <1>1, <1>4, <1>5, <1>8, <1>10, <1>11 DEF Attended
<1> QED BY <1>1, <1>4, <1>7, <1>8, <1>9, <1>12, OneSkillCall

LEMMA ScriptsStep == ScriptsInv /\ [SkillsNext]_skillsVars => ScriptsInv'
<1> SUFFICES ASSUME ScriptsInv, [SkillsNext]_skillsVars
             PROVE  ScriptsInv'
  OBVIOUS
<1>1. ASSUME UNCHANGED <<call, script, skillReader, captured, budget>>
      PROVE  ScriptsInv'
  BY <1>1 DEF ScriptsInv, SkillTypes, Accounted, Attended, Closed
<1>2. CASE UNCHANGED skillsVars
  BY <1>1, <1>2 DEF skillsVars
<1>3. ASSUME NEW f \in DOMAIN disk, SkillEdit(f)
      PROVE  ScriptsInv'
  BY <1>1, <1>3 DEF SkillEdit
<1> QED BY <1>2, <1>3, DispatchKeepsScripts, WritingKeepsScripts, ReadingKeepsScripts,
           CleaningKeepsScripts DEF SkillsNext
(* A set of positions of a sequence has a last one.                         *)
LEMMA LastPosition ==
  ASSUME NEW n \in Nat, NEW S, S \subseteq 1..n, S # {}
  PROVE  Max(S) \in S /\ \A i \in S : i <= Max(S)
<1> DEFINE T == {n - i : i \in S}
           R == OpToRel(<, Nat)
<1>1. T \subseteq Nat /\ T # {}
  <2>1. \A i \in S : n - i \in Nat
    OBVIOUS
  <2>2. PICK i \in S : TRUE
    OBVIOUS
  <2>3. n - i \in T
    OBVIOUS
  <2> QED BY <2>1, <2>3
<1>2. PICK x \in T : \A y \in T : ~(<<y, x>> \in R)
  <2>1. IsWellFoundedOn(R, Nat)
    BY NatLessThanWellFounded
  <2> HIDE DEF R, T
  <2> QED BY <1>1, <2>1, WFMin
<1>3. \A y \in T : x <= y
  <2>1. \A y \in T : y < x => <<y, x>> \in R
    BY <1>1 DEF OpToRel
  <2> HIDE DEF R, T
  <2>2. x \in Nat /\ \A y \in T : y \in Nat /\ ~(y < x)
    BY <1>1, <1>2, <2>1
  <2>3. \A y \in Nat : ~(y < x) => x <= y
    BY <2>2
  <2> QED BY <2>2, <2>3
<1>4. \E i \in S : \A k \in S : k <= i
  <2>1. PICK i \in S : x = n - i
    OBVIOUS
  <2>2. \A k \in S : n - k \in T
    OBVIOUS
  <2>3. \A k \in S : n - i <= n - k
    BY <1>3, <2>1, <2>2
  <2> QED BY <2>3
<1>5. \E i \in S : \A k \in S : i >= k
  BY <1>4
<1>6. Max(S) \in S /\ \A k \in S : Max(S) >= k
  BY <1>5 DEF Max
<1> QED BY <1>6

(* A name stands for the last folder that declares it.                      *)
LEMMA LastFolderWins ==
  ASSUME NEW n \in DOMAIN Discovered
  PROVE  /\ Discovered[n] \in {Folders[j] : j \in DOMAIN Folders}
         /\ \A i \in DOMAIN Folders :
              Frontmatter[Folders[i]] = n => \E j \in DOMAIN Folders : j >= i /\ Folders[j] = Discovered[n]
<1> DEFINE At == {i \in DOMAIN Folders : Frontmatter[Folders[i]] = n}
<1>1. At \subseteq 1..Len(Folders) /\ At # {} /\ Len(Folders) \in Nat
  BY SkillsAssumption DEF Discovered
<1>2. Max(At) \in At /\ \A i \in At : i <= Max(At)
  <2> HIDE DEF At
  <2> QED BY <1>1, LastPosition
<1>3. Discovered[n] = Folders[Max(At)]
  BY DEF Discovered
<1>4. \A i \in At : Max(At) >= i
  BY <1>1, <1>2
<1> QED BY <1>2, <1>3, <1>4

LoadsInv ==
  /\ catalog = Discovered /\ cached \in [DOMAIN Discovered -> Nat]
  /\ DOMAIN disk = {Folders[j] : j \in DOMAIN Folders}
  /\ \A f \in DOMAIN disk : disk[f].edition \in Nat \ {0}
  /\ \A n \in DOMAIN Discovered : cached[n] <= disk[Discovered[n]].edition
  /\ DOMAIN events = SkillCalls
  /\ \A c \in SkillCalls : \A e \in events[c] :
       /\ e.skill \in DOMAIN Discovered /\ cached[e.skill] > 0
       /\ e = [skill |-> e.skill, edition |-> cached[e.skill], folder |-> Discovered[e.skill]]

LEMMA LoadsStart == SkillsInit => LoadsInv
<1> SUFFICES ASSUME SkillsInit
             PROVE  LoadsInv
  OBVIOUS
<1>1. /\ catalog = Discovered /\ cached = [n \in DOMAIN Discovered |-> 0]
      /\ events = [c \in SkillCalls |-> {}]
      /\ disk = [i \in {Folders[j] : j \in DOMAIN Folders} |-> [edition |-> 1, files |-> Bundled]]
  BY DEF SkillsInit
<1>2. \A f \in DOMAIN disk : disk[f].edition = 1
  BY <1>1
<1>3. \A n \in DOMAIN Discovered : Discovered[n] \in DOMAIN disk
  BY <1>1, LastFolderWins
<1> QED BY <1>1, <1>2, <1>3 DEF LoadsInv

LEMMA LoadsStep == LoadsInv /\ [SkillsNext]_skillsVars => LoadsInv'
<1> SUFFICES ASSUME LoadsInv, [SkillsNext]_skillsVars
             PROVE  LoadsInv'
  OBVIOUS
<1>1. ASSUME UNCHANGED <<disk, catalog, cached, events>>
      PROVE  LoadsInv'
  BY <1>1 DEF LoadsInv
<1>2. ASSUME NEW c \in SkillCalls, NEW r \in SkillAsked[c], LoadSkill(c, r)
      PROVE  LoadsInv'
  <2>1. UNCHANGED <<disk, catalog>>
    BY <1>2 DEF LoadSkill, SkillUntouched
  <2>2. CASE UNCHANGED <<cached, events>>
    BY <1>1, <2>1, <2>2
  <2>3. ASSUME r.skill \in DOMAIN catalog,
               cached' = [cached EXCEPT ![r.skill] = Instructions(r.skill)],
               \/ UNCHANGED events
               \/ events' = [events EXCEPT ![c] = @ \cup
                    {[skill |-> r.skill, edition |-> Instructions(r.skill),
                      folder |-> catalog[r.skill]]}]
        PROVE  LoadsInv'
    <3> DEFINE n == r.skill
               new == [skill |-> n, edition |-> Instructions(n), folder |-> catalog[n]]
    <3>1. n \in DOMAIN Discovered /\ Discovered[n] \in DOMAIN disk
      BY <2>3, LastFolderWins DEF LoadsInv
    <3>2. disk[Discovered[n]].edition \in Nat \ {0} /\ cached[n] \in Nat
          /\ cached[n] <= disk[Discovered[n]].edition /\ catalog = Discovered
      BY <3>1 DEF LoadsInv
    <3>3. /\ Instructions(n) \in Nat /\ Instructions(n) > 0
          /\ Instructions(n) <= disk[Discovered[n]].edition
          /\ cached[n] > 0 => Instructions(n) = cached[n]
      BY <3>2 DEF Instructions
    <3>4. cached' \in [DOMAIN Discovered -> Nat] /\ cached'[n] = Instructions(n)
          /\ \A m \in DOMAIN Discovered : m # n => cached'[m] = cached[m]
      BY <2>3, <3>1, <3>3 DEF LoadsInv
    <3>5. \A m \in DOMAIN Discovered : cached'[m] <= disk'[Discovered[m]].edition
      BY <2>1, <3>3, <3>4 DEF LoadsInv
    <3>6. \A m \in DOMAIN Discovered : cached[m] > 0 => cached'[m] = cached[m]
      BY <3>3, <3>4
    <3>7. /\ new.skill = n /\ new.edition = Instructions(n) /\ new.folder = Discovered[n]
          /\ new = [skill |-> n, edition |-> cached'[n], folder |-> Discovered[n]]
      BY <3>2, <3>4
    <3>8. DOMAIN events' = SkillCalls /\ \A d \in SkillCalls : \A e \in events'[d] : e \in events[d] \/ e = new
      BY <2>3 DEF LoadsInv
    <3> HIDE DEF new, n
    <3>9. ASSUME NEW d \in SkillCalls, NEW e \in events'[d]
          PROVE  /\ e.skill \in DOMAIN Discovered /\ cached'[e.skill] > 0
                 /\ e = [skill |-> e.skill, edition |-> cached'[e.skill], folder |-> Discovered[e.skill]]
      <4>1. CASE e \in events[d]
        <5>1. /\ e.skill \in DOMAIN Discovered /\ cached[e.skill] > 0
              /\ e = [skill |-> e.skill, edition |-> cached[e.skill], folder |-> Discovered[e.skill]]
          BY <4>1 DEF LoadsInv
        <5>2. cached'[e.skill] = cached[e.skill]
          BY <3>6, <5>1
        <5> QED BY <5>1, <5>2
      <4>2. CASE e = new
        BY <3>1, <3>3, <3>4, <3>7, <4>2
      <4> QED BY <3>8, <4>1, <4>2
    <3> QED BY <2>1, <3>2, <3>4, <3>5, <3>8, <3>9 DEF LoadsInv
  <2> QED BY <1>2, <2>2, <2>3 DEF LoadSkill
<1>3. ASSUME NEW c \in SkillCalls, SkillDispatch(c)
      PROVE  LoadsInv'
  <2>1. PICK r \in SkillAsked[c] :
          SkillRefuse(c, r) \/ List(c, r) \/ LoadResource(c, r) \/ LoadSkill(c, r) \/ RunScript(c, r)
    BY <1>3 DEF SkillDispatch
  <2>2. CASE SkillRefuse(c, r) \/ List(c, r) \/ LoadResource(c, r) \/ RunScript(c, r)
    BY <1>1, <2>2 DEF SkillRefuse, List, LoadResource, RunScript, SkillUntouched
  <2> QED BY <1>2, <2>1, <2>2
<1>4. ASSUME NEW c \in SkillCalls,
             \/ ScriptExits(c) \/ HelperExits(c) \/ EscapedExits(c) \/ Cleanup(c)
             \/ \E s \in SkillStreams :
                  SkillWrite(c, s) \/ SkillAsk(c, s) \/ SkillReceive(c, s) \/ EndOfStream(c, s)
      PROVE  LoadsInv'
  BY <1>1, <1>4 DEF ScriptExits, HelperExits, EscapedExits, Cleanup, SkillWrite, SkillAsk,
                    SkillReceive, EndOfStream
<1>5. ASSUME NEW f \in DOMAIN disk, SkillEdit(f)
      PROVE  LoadsInv'
  <2>1. PICK files \in SUBSET Bundled :
          disk' = [disk EXCEPT ![f] = [edition |-> @.edition + 1, files |-> files]]
    BY <1>5 DEF SkillEdit
  <2>2. UNCHANGED <<catalog, cached, events>>
    BY <1>5 DEF SkillEdit
  <2>3. /\ DOMAIN disk' = DOMAIN disk
        /\ \A g \in DOMAIN disk : disk'[g].edition = disk[g].edition + (IF g = f THEN 1 ELSE 0)
    BY <2>1 DEF LoadsInv
  <2>4. /\ \A g \in DOMAIN disk : disk'[g].edition \in Nat \ {0} /\ disk[g].edition <= disk'[g].edition
    BY <2>3 DEF LoadsInv
  <2>5. \A n \in DOMAIN Discovered : cached[n] <= disk'[Discovered[n]].edition
    <3>1. \A n \in DOMAIN Discovered : Discovered[n] \in DOMAIN disk
      BY LastFolderWins DEF LoadsInv
    <3> QED BY <2>4, <3>1 DEF LoadsInv
  <2> QED BY <2>2, <2>3, <2>4, <2>5 DEF LoadsInv
<1>6. CASE UNCHANGED skillsVars
  BY <1>1, <1>6 DEF skillsVars
<1> QED BY <1>3, <1>4, <1>5, <1>6 DEF SkillsNext

(* What the run checks follows.                                             *)
LEMMA SkillsSafe == ScriptsInv /\ LoadsInv => SkillsSound
<1> SUFFICES ASSUME ScriptsInv, LoadsInv
             PROVE  SkillsSound
  OBVIOUS
<1> USE SkillZero
<1>1. ASSUME NEW c \in SkillCalls
      PROVE  /\ captured[c]["stdout"] + captured[c]["stderr"] <= OutputLimit
             /\ call[c].answer = "ran" => captured[c] = script[c].wrote
             /\ call[c].answer = "limit" => captured[c]["stdout"] + captured[c]["stderr"] = OutputLimit
  <2>1. captured[c] \in Counts /\ script[c].wrote \in Counts /\ budget[c] \in Nat
    BY DEF ScriptsInv, SkillTypes, Scripts
  <2>2. captured[c]["stdout"] \in Nat /\ captured[c]["stderr"] \in Nat
    BY <2>1 DEF Counts
  <2>3. budget[c] + captured[c]["stdout"] + captured[c]["stderr"] = OutputLimit
    BY DEF ScriptsInv, Accounted
  <2>4. captured[c]["stdout"] + captured[c]["stderr"] <= OutputLimit
    BY <2>1, <2>2, <2>3
  <2>5. call[c].answer = "limit" => budget[c] = 0
    BY DEF ScriptsInv, Attended
  <2>6. call[c].answer = "ran" => captured[c] = script[c].wrote
    BY <2>1 DEF ScriptsInv, Attended, Counts
  <2> QED BY <2>1, <2>2, <2>3, <2>4, <2>5, <2>6
<1>2. NothingSurvives
  BY DEF NothingSurvives, ScriptsInv, Attended
<1>3. LoadsAgree
  <2> SUFFICES ASSUME NEW c \in SkillCalls, NEW d \in SkillCalls,
                      NEW e \in events[c], NEW g \in events[d]
               PROVE  /\ e.edition <= disk[e.folder].edition
                      /\ e.skill = g.skill => e = g
                      /\ \A i \in DOMAIN Folders :
                           Frontmatter[Folders[i]] = e.skill
                             => \E j \in DOMAIN Folders : j >= i /\ Folders[j] = e.folder
    BY DEF LoadsAgree
  <2>1. /\ e.skill \in DOMAIN Discovered
        /\ e = [skill |-> e.skill, edition |-> cached[e.skill], folder |-> Discovered[e.skill]]
        /\ g = [skill |-> g.skill, edition |-> cached[g.skill], folder |-> Discovered[g.skill]]
    BY DEF LoadsInv
  <2>2. e.edition = cached[e.skill] /\ e.folder = Discovered[e.skill]
    BY <2>1
  <2>3. cached[e.skill] <= disk[Discovered[e.skill]].edition
    BY <2>1 DEF LoadsInv
  <2> QED BY <2>1, <2>2, <2>3, LastFolderWins
<1> QED BY <1>1, <1>2, <1>3 DEF OutputBounded, SkillsSound

(***************************************************************************)
(* The run                                                                 *)
(***************************************************************************)


(* A set without two different elements has at most one.                    *)
LEMMA AtMostOne ==
  ASSUME NEW S, \A x, y \in S : x = y
  PROVE  IsFiniteSet(S) /\ Cardinality(S) <= 1 /\ Cardinality(S) \in Nat
         /\ (S # {} => Cardinality(S) = 1)
<1>1. S = {} \/ \E x : S = {x}
  OBVIOUS
<1>2. CASE S = {}
  BY <1>2, FS_EmptySet
<1>3. ASSUME NEW x, S = {x}
      PROVE  IsFiniteSet(S) /\ Cardinality(S) = 1
  BY <1>3, FS_Singleton
<1> QED BY <1>1, <1>2, <1>3

(***************************************************************************)
(* Reviewed changes of a skill                                             *)
(***************************************************************************)

RoundFields ==
  {"phase", "idea", "edit", "base", "head", "text", "staged", "receipt", "packet", "approval"}

(* What a packet shows the owner was measured on its base, with a gain.     *)
Measured(p) == p.before.text = TextAt(p.base) /\ ReviewRequired(p.before, p.after)

ReviewTypes ==
  /\ \E S : commits \in Seq(S)
  /\ main \in 1..Len(commits) /\ DOMAIN rounds = Rounds

(* A round's packet is about the round's base; an approval is of that       *)
(* packet, checked; a round that was rolled back has committed nothing.     *)
RoundRight(r) ==
  /\ DOMAIN rounds[r] = RoundFields
  /\ rounds[r].base \in 1..Len(commits) /\ rounds[r].head \in 1..Len(commits)
  /\ rounds[r].packet # ReviewNone =>
       /\ rounds[r].phase # "evaluating" /\ rounds[r].packet.round = r
       /\ rounds[r].packet.base = rounds[r].base
  /\ rounds[r].phase = "review_required" => rounds[r].packet # ReviewNone
  /\ rounds[r].approval # ReviewNone =>
       rounds[r].approval = rounds[r].packet /\ Measured(rounds[r].packet)
  /\ rounds[r].phase = "reverted" => rounds[r].head = rounds[r].base

RoundsRight == \A r \in Rounds : rounds[r] # NoRound => RoundRight(r)

(* A receipt in a tree is an approved packet whose round has committed, on  *)
(* an older commit.                                                         *)
ReceiptOf(p, c) ==
  \E r \in Rounds :
    /\ rounds[r] # NoRound /\ p = rounds[r].approval /\ p # ReviewNone
    /\ rounds[r].head # rounds[r].base /\ rounds[r].base < c
ReceiptsRight == \A c \in 1..Len(commits) : \A p \in commits[c].receipts : ReceiptOf(p, c)

(* The first part of SkillChangesEarned.                                    *)
CommitEarned(c) ==
  \/ \E p \in commits[c].parents : TextAt(c) = TextAt(p)
  \/ \E p \in Approved :
       /\ TextAt(c) = p.after.text
       /\ commits[c].parents = {p.base}
       /\ p.before.text = TextAt(p.base)
       /\ ReviewRequired(p.before, p.after)
  \/ \E p \in Approved :
       /\ TextAt(c) = TextAt(p.base)
       /\ \A parent \in commits[c].parents : TextAt(parent) = p.after.text

(* A commit's parents are older, and one packet is committed on its base    *)
(* only once.                                                               *)
HistoryRight ==
  /\ \A c \in 1..Len(commits) : commits[c].parents \subseteq 1..Len(commits)
  /\ \A c \in 2..Len(commits) : CommitEarned(c)
  /\ \A c, d \in 2..Len(commits) : \A p \in commits[c].receipts \cap commits[d].receipts :
       commits[c].parents = {p.base} /\ commits[d].parents = {p.base} => c = d

(* What the command that holds the lock relies on.                          *)
CommandRight ==
  command # ReviewIdle =>
    /\ {"op", "r", "stage"} \subseteq DOMAIN command
    /\ command.r \in Rounds /\ rounds[command.r] # NoRound
    /\ command.op = "run" => command.stage \in {"before", "hooks", "measuring", "decide", "log"}
    /\ command.stage \in {"before", "hooks", "measuring", "decide"} =>
         /\ rounds[command.r].phase = "evaluating" /\ rounds[command.r].approval = ReviewNone
         /\ \A row \in history : row.idea # rounds[command.r].idea
    /\ command.stage \in {"acceptHooks", "stage", "add", "commit"} =>
         /\ rounds[command.r].phase = "review_required"
         /\ rounds[command.r].approval = rounds[command.r].packet
         /\ rounds[command.r].head = rounds[command.r].base

ReviewInv == ReviewTypes /\ RoundsRight /\ ReceiptsRight /\ HistoryRight /\ CommandRight

(* One commit, no round.                                                    *)
LEMMA ReviewStarts == ReviewInit => ReviewInv
<1> SUFFICES ASSUME ReviewInit
             PROVE  ReviewInv
  OBVIOUS
<1> DEFINE first == [parents |-> {}, text |-> {}, receipts |-> {}]
<1>1. commits = <<first>> /\ first.parents = {} /\ first.receipts = {}
  BY DEF ReviewInit
<1> HIDE DEF first
<1>2. commits \in Seq({first}) /\ Len(commits) = 1 /\ commits[1] = first
  BY <1>1
<1>3. ReviewTypes
  <2>1. \E S : commits \in Seq(S)
    BY <1>2
  <2>2. main \in 1..Len(commits) /\ DOMAIN rounds = Rounds
    BY <1>2 DEF ReviewInit
  <2> QED BY <2>1, <2>2 DEF ReviewTypes
<1>4. RoundsRight /\ CommandRight
  BY DEF ReviewInit, RoundsRight, CommandRight
<1>5. ReceiptsRight /\ HistoryRight
  BY <1>1, <1>2 DEF ReceiptsRight, HistoryRight
<1> QED BY <1>3, <1>4, <1>5 DEF ReviewInv

(* What Change leaves of a round.                                           *)
LEMMA ChangedRound ==
  ASSUME ReviewInv, NEW r \in Rounds, rounds[r] # NoRound, NEW fields, Change(r, fields)
  PROVE  /\ DOMAIN rounds' = Rounds /\ \A q \in Rounds \ {r} : rounds'[q] = rounds[q]
         /\ DOMAIN rounds'[r] = RoundFields /\ rounds'[r] # NoRound
         /\ \A f \in RoundFields :
              rounds'[r][f] = IF f \in DOMAIN fields THEN fields[f] ELSE rounds[r][f]
<1>1. DOMAIN rounds = Rounds /\ DOMAIN rounds[r] = RoundFields
  BY DEF ReviewInv, ReviewTypes, RoundsRight, RoundRight
<1> DEFINE g == [f \in RoundFields |-> IF f \in DOMAIN fields THEN fields[f] ELSE rounds[r][f]]
<1>2. rounds' = [rounds EXCEPT ![r] = g]
  BY <1>1 DEF Change
<1>3. DOMAIN g = RoundFields /\ \A f \in RoundFields : g[f] = IF f \in DOMAIN fields THEN fields[f] ELSE rounds[r][f]
  OBVIOUS
<1> HIDE DEF g
<1>4. g # NoRound
  <2>1. DOMAIN NoRound = {"phase"} /\ "base" \in RoundFields
    BY DEF NoRound, RoundFields
  <2> QED BY <1>3, <2>1
<1> QED BY <1>1, <1>2, <1>3, <1>4

(* The commits stand while a round changes, if its approval does.           *)
LEMMA RoundsMove ==
  ASSUME ReviewInv, UNCHANGED commits, main' \in 1..Len(commits), NEW r \in Rounds,
         DOMAIN rounds' = Rounds, \A q \in Rounds \ {r} : rounds'[q] = rounds[q],
         rounds'[r] # NoRound, RoundRight(r)',
         rounds[r] # NoRound /\ rounds[r].approval # ReviewNone =>
           /\ rounds'[r].approval = rounds[r].approval
           /\ rounds'[r].head = rounds[r].head /\ rounds'[r].base = rounds[r].base
  PROVE  ReviewTypes' /\ RoundsRight' /\ ReceiptsRight' /\ HistoryRight'
<1> USE DEF ReviewInv
<1>1. ReviewTypes'
  BY DEF ReviewTypes
<1>2. RoundsRight'
  BY DEF RoundsRight, RoundRight, Measured, TextAt
<1>3. ReceiptsRight'
  BY DEF ReceiptsRight, ReceiptOf
<1>4. Approved \subseteq Approved'
  <2>1. ASSUME NEW q \in Rounds, rounds[q] # NoRound, rounds[q].approval # ReviewNone
        PROVE  rounds'[q] # NoRound /\ rounds'[q].approval = rounds[q].approval
    BY <2>1
  <2> QED BY <2>1 DEF Approved
<1>5. ASSUME NEW c \in 2..Len(commits)
      PROVE  CommitEarned(c)'
  <2>1. CommitEarned(c)
    BY DEF HistoryRight
  <2> QED BY <2>1, <1>4 DEF CommitEarned, TextAt, ReviewRequired
<1>6. HistoryRight'
  BY <1>5 DEF HistoryRight
<1> QED BY <1>1, <1>2, <1>3, <1>6

(* A new commit that is earned, whose receipts are of older packets.        *)
LEMMA CommitsGrow ==
  ASSUME ReviewInv, NEW n \in Nat \ {0}, n = Len(commits), NEW c, commits' = Append(commits, c),
         c.parents \subseteq 1..n, main' \in 1..(n + 1),
         RoundsRight', DOMAIN rounds' = Rounds, Approved \subseteq Approved',
         CommitEarned(n + 1)',
         \A p \in c.receipts : ReceiptOf(p, n + 1)',
         \A r \in Rounds : rounds[r] # NoRound /\ rounds[r].head # rounds[r].base =>
            /\ rounds'[r] # NoRound /\ rounds'[r].approval = rounds[r].approval
            /\ rounds'[r].base = rounds[r].base /\ rounds'[r].head # rounds[r].base,
         \A d \in 2..n : \A p \in c.receipts \cap commits[d].receipts :
            c.parents # {p.base}
  PROVE  ReviewTypes' /\ ReceiptsRight' /\ HistoryRight'
<1> USE DEF ReviewInv
<1>1. /\ \E S : commits' \in Seq(S)
      /\ Len(commits') = n + 1 /\ commits'[n + 1] = c
      /\ \A d \in 1..n : commits'[d] = commits[d]
  <2>1. PICK S : commits \in Seq(S)
    BY DEF ReviewTypes
  <2>2. commits' \in Seq(S \cup {c}) /\ Len(commits') = n + 1 /\ commits'[n + 1] = c
        /\ \A d \in 1..n : commits'[d] = commits[d]
    BY <2>1
  <2> QED BY <2>2
<1>2. ReviewTypes'
  BY <1>1 DEF ReviewTypes
<1>3. \A d \in 1..n : \A p : ReceiptOf(p, d) => ReceiptOf(p, d)'
  BY DEF ReceiptOf
<1>4. ReceiptsRight'
  <2>1. \A d \in 1..(n + 1) : d \in 1..n \/ d = n + 1
    OBVIOUS
  <2>2. \A d \in 1..n : \A p \in commits'[d].receipts : ReceiptOf(p, d)'
    BY <1>1, <1>3 DEF ReceiptsRight
  <2> QED BY <1>1, <2>1, <2>2 DEF ReceiptsRight
<1>5. ASSUME NEW d \in 2..n
      PROVE  CommitEarned(d)'
  <2>1. CommitEarned(d) /\ commits'[d] = commits[d] /\ commits[d].parents \subseteq 1..n
    BY <1>1 DEF HistoryRight
  <2>2. \A p \in Approved : p.base \in 1..n
    BY DEF Approved, RoundsRight, RoundRight
  <2>3. \A e \in 1..n : TextAt(e)' = TextAt(e)
    BY <1>1 DEF TextAt
  <2>4. TextAt(d)' = TextAt(d)
    BY <2>3
  <2> QED BY <2>1, <2>2, <2>3, <2>4 DEF CommitEarned, ReviewRequired
<1>6. \A d \in 1..(n + 1) : commits'[d].parents \subseteq 1..(n + 1)
  <2>1. \A d \in 1..n : commits[d].parents \subseteq 1..n
    BY DEF HistoryRight
  <2>2. 1..n \subseteq 1..(n + 1)
    BY <1>1
  <2>3. \A d \in 1..(n + 1) : d \in 1..n \/ d = n + 1
    BY <1>1
  <2> QED BY <1>1, <2>1, <2>2, <2>3
<1>7. HistoryRight'
  <2>1. \A d \in 2..(n + 1) : d \in 2..n \/ d = n + 1
    BY <1>1
  <2>2. \A d, e \in 2..n : \A p \in commits[d].receipts \cap commits[e].receipts :
          commits[d].parents = {p.base} /\ commits[e].parents = {p.base} => d = e
    BY DEF HistoryRight
  <2>3. \A d \in 2..n : commits'[d] = commits[d]
    BY <1>1
  <2>4. \A d, e \in 2..(n + 1) : \A p \in commits'[d].receipts \cap commits'[e].receipts :
          commits'[d].parents = {p.base} /\ commits'[e].parents = {p.base} => d = e
    BY <1>1, <2>1, <2>2, <2>3
  <2>5. \A d \in 2..(n + 1) : CommitEarned(d)'
    BY <1>5, <2>1
  <2> QED BY <1>1, <1>6, <2>4, <2>5 DEF HistoryRight
<1> QED BY <1>2, <1>4, <1>7

(* Only texts, and what is staged or written, of rounds change.             *)
Judged == {"phase", "idea", "base", "head", "packet", "approval"}
SameRounds ==
  \A q \in Rounds : rounds[q] # NoRound =>
    rounds'[q] # NoRound /\ \A f \in Judged : rounds'[q][f] = rounds[q][f]

LEMMA TextsMove ==
  ASSUME ReviewInv, UNCHANGED <<commits, main>>, NEW r \in Rounds, rounds[r] # NoRound,
         NEW fields, Change(r, fields), DOMAIN fields \cap Judged = {}
  PROVE  SameRounds /\ ReviewTypes' /\ RoundsRight' /\ ReceiptsRight' /\ HistoryRight'
<1>1. /\ DOMAIN rounds' = Rounds /\ \A q \in Rounds \ {r} : rounds'[q] = rounds[q]
      /\ DOMAIN rounds'[r] = RoundFields /\ rounds'[r] # NoRound
      /\ \A f \in RoundFields :
           rounds'[r][f] = IF f \in DOMAIN fields THEN fields[f] ELSE rounds[r][f]
  BY ChangedRound
<1>2. \A f \in Judged : f \in RoundFields /\ rounds'[r][f] = rounds[r][f]
  BY <1>1 DEF Judged, RoundFields
<1>3. SameRounds
  BY <1>1, <1>2 DEF SameRounds
<1>4. /\ rounds'[r].phase = rounds[r].phase /\ rounds'[r].packet = rounds[r].packet
      /\ rounds'[r].approval = rounds[r].approval /\ rounds'[r].head = rounds[r].head
      /\ rounds'[r].base = rounds[r].base
  BY <1>2 DEF Judged
<1>5. RoundRight(r)'
  BY <1>1, <1>4 DEF ReviewInv, RoundsRight, RoundRight, Measured, TextAt
<1>6. main' \in 1..Len(commits)
  BY DEF ReviewInv, ReviewTypes
<1> QED BY <1>1, <1>3, <1>4, <1>5, <1>6, RoundsMove

(* A command goes on, or gives the lock back, while nothing it relies on    *)
(* changes.                                                                 *)
LEMMA CommandGoesOn ==
  ASSUME ReviewInv, SameRounds, UNCHANGED history,
         \/ command' = ReviewIdle
         \/ UNCHANGED command
         \/ /\ command # ReviewIdle /\ {"op", "r", "stage"} \subseteq DOMAIN command'
            /\ command'.op = command.op /\ command'.r = command.r
            /\ \/ /\ command.stage \in {"before", "hooks", "measuring"}
                  /\ command'.stage \in {"hooks", "measuring", "decide"}
               \/ /\ command.stage \in {"acceptHooks", "stage", "add"}
                  /\ command'.stage \in {"stage", "add", "commit"}
  PROVE  CommandRight'
<1> USE DEF ReviewInv
<1>1. \A q \in Rounds : rounds[q] # NoRound =>
        /\ rounds'[q] # NoRound /\ rounds'[q].phase = rounds[q].phase /\ rounds'[q].idea = rounds[q].idea
        /\ rounds'[q].base = rounds[q].base /\ rounds'[q].head = rounds[q].head
        /\ rounds'[q].packet = rounds[q].packet /\ rounds'[q].approval = rounds[q].approval
  BY DEF SameRounds, Judged
<1>2. CASE command' = ReviewIdle
  BY <1>2 DEF CommandRight
<1>3. CASE UNCHANGED command
  BY <1>1, <1>3 DEF CommandRight
<1>4. CASE /\ command # ReviewIdle /\ {"op", "r", "stage"} \subseteq DOMAIN command'
           /\ command'.op = command.op /\ command'.r = command.r
           /\ \/ /\ command.stage \in {"before", "hooks", "measuring"}
                 /\ command'.stage \in {"hooks", "measuring", "decide"}
              \/ /\ command.stage \in {"acceptHooks", "stage", "add"}
                 /\ command'.stage \in {"stage", "add", "commit"}
  BY <1>1, <1>4 DEF CommandRight
<1> QED BY <1>2, <1>3, <1>4

(* A round is rolled back, and its command, if there is one, ends in the    *)
(* log.                                                                     *)
LEMMA RollingBack ==
  ASSUME ReviewInv, NEW r \in Rounds, rounds[r] # NoRound, RolledBack(r),
         UNCHANGED <<commits, main, history>>,
         \/ command' = ReviewIdle
         \/ /\ {"op", "r", "stage"} \subseteq DOMAIN command' /\ command'.r = r
            /\ command'.stage = "log"
  PROVE  ReviewInv'
<1>1. /\ DOMAIN rounds' = Rounds /\ \A q \in Rounds \ {r} : rounds'[q] = rounds[q]
      /\ DOMAIN rounds'[r] = RoundFields /\ rounds'[r] # NoRound
      /\ rounds'[r].phase = "reverted"
      /\ \A f \in Judged \ {"phase"} : rounds'[r][f] = rounds[r][f]
  <2> DEFINE fields == [phase |-> "reverted", text |-> TextAt(rounds[r].base),
                        staged |-> ReviewNone, receipt |-> FALSE]
  <2>1. Change(r, fields) /\ DOMAIN fields = {"phase", "text", "staged", "receipt"}
        /\ fields["phase"] = "reverted"
    BY DEF RolledBack
  <2> HIDE DEF fields
  <2> QED BY <2>1, ChangedRound DEF Judged, RoundFields
<1>2. /\ rounds'[r].packet = rounds[r].packet /\ rounds'[r].approval = rounds[r].approval
      /\ rounds'[r].head = rounds[r].head /\ rounds'[r].base = rounds[r].base
  BY <1>1 DEF Judged
<1>3. rounds[r].head = rounds[r].base
  BY DEF RolledBack
<1>4. RoundRight(r)'
  BY <1>1, <1>2, <1>3 DEF ReviewInv, RoundsRight, RoundRight, Measured, TextAt
<1>5. main' \in 1..Len(commits)
  BY DEF ReviewInv, ReviewTypes
<1>6. CommandRight'
  BY <1>1 DEF CommandRight
<1> QED BY <1>1, <1>2, <1>4, <1>5, <1>6, RoundsMove DEF ReviewInv

LEMMA Rejecting ==
  ASSUME ReviewInv, command # ReviewIdle, RejectRound
  PROVE  ReviewInv'
<1>1. /\ command.r \in Rounds /\ rounds[command.r] # NoRound
      /\ {"op", "r", "stage"} \subseteq DOMAIN command
  BY DEF ReviewInv, CommandRight
<1>2. RolledBack(command.r) /\ UNCHANGED <<commits, main, history>>
      /\ command' = [command EXCEPT !.stage = "log"]
  BY DEF RejectRound, Stage
<1> PICK r \in Rounds : r = command.r
  BY <1>1
<1>3. {"op", "r", "stage"} \subseteq DOMAIN command' /\ command'.r = r /\ command'.stage = "log"
  BY <1>1, <1>2
<1> QED BY <1>1, <1>2, <1>3, RollingBack

LEMMA NothingMoves ==
  ASSUME ReviewInv, UNCHANGED <<commits, main, rounds>>
  PROVE  SameRounds /\ ReviewTypes' /\ RoundsRight' /\ ReceiptsRight' /\ HistoryRight'
<1> USE DEF ReviewInv
<1>1. SameRounds
  BY DEF SameRounds
<1>2. ReviewTypes'
  BY DEF ReviewTypes
<1>3. RoundsRight'
  BY DEF RoundsRight, RoundRight, Measured, TextAt
<1>4. ReceiptsRight'
  BY DEF ReceiptsRight, ReceiptOf
<1>5. Approved' = Approved
  BY DEF Approved
<1>6. \A c \in 2..Len(commits) : CommitEarned(c) => CommitEarned(c)'
  BY <1>5 DEF CommitEarned, TextAt, ReviewRequired
<1>7. HistoryRight'
  BY <1>6 DEF HistoryRight
<1> QED BY <1>1, <1>2, <1>3, <1>4, <1>7

(* A round begins, or its command works on its texts.                       *)
LEMMA RunningKeepsReview ==
  ASSUME ReviewInv,
         \/ \E r \in Rounds, i \in Ideas, e \in Edits : BeginRound(r, i, e)
         \/ MeasureBefore \/ RunHooks \/ MeasureAfter \/ ReviewDecide
  PROVE  ReviewInv'
<1>a. command # ReviewIdle =>
        /\ command.r \in Rounds /\ rounds[command.r] # NoRound
        /\ {"op", "r", "stage"} \subseteq DOMAIN command
  BY DEF ReviewInv, CommandRight
<1>1. ASSUME NEW r \in Rounds, NEW i \in Ideas, NEW e \in Edits, BeginRound(r, i, e)
      PROVE  ReviewInv'
  <2>1. PICK new : /\ rounds' = [rounds EXCEPT ![r] = new] /\ DOMAIN new = RoundFields
                   /\ new.phase = "evaluating" /\ new.idea = i /\ new.base = main /\ new.head = main
                   /\ new.packet = ReviewNone /\ new.approval = ReviewNone
    <3> DEFINE new == [phase |-> "evaluating", idea |-> i, edit |-> e, base |-> main,
            head |-> main, text |-> TextAt(main), staged |-> ReviewNone,
            receipt |-> FALSE, packet |-> ReviewNone, approval |-> ReviewNone]
    <3>1. rounds' = [rounds EXCEPT ![r] = new]
      BY <1>1 DEF BeginRound
    <3>2. DOMAIN new = RoundFields
      BY DEF RoundFields
    <3>3. /\ new.phase = "evaluating" /\ new.idea = i /\ new.base = main /\ new.head = main
          /\ new.packet = ReviewNone /\ new.approval = ReviewNone
      OBVIOUS
    <3> HIDE DEF new
    <3> QED BY <3>1, <3>2, <3>3
  <2>2. /\ rounds[r] = NoRound /\ UNCHANGED <<commits, main, history>>
        /\ ~Repeated(i, e, TextAt(main))
        /\ command' = [op |-> "run", r |-> r, stage |-> "before", gate |-> gate,
                       before |-> ReviewNone, after |-> ReviewNone]
    BY <1>1 DEF BeginRound
  <2>3. /\ DOMAIN rounds' = Rounds /\ rounds'[r] = new
        /\ \A q \in Rounds \ {r} : rounds'[q] = rounds[q]
    BY <2>1 DEF ReviewInv, ReviewTypes
  <2>4. new # NoRound
    <3>1. DOMAIN NoRound = {"phase"} /\ "base" \in RoundFields
      BY DEF NoRound, RoundFields
    <3> QED BY <2>1, <3>1
  <2>5. main \in 1..Len(commits) /\ main' \in 1..Len(commits)
    BY <2>2 DEF ReviewInv, ReviewTypes
  <2>6. RoundRight(r)'
    BY <2>1, <2>2, <2>3, <2>5 DEF RoundRight
  <2>7. ReviewTypes' /\ RoundsRight' /\ ReceiptsRight' /\ HistoryRight'
    BY <2>2, <2>3, <2>4, <2>5, <2>6, RoundsMove
  <2>8. \A row \in history : row.idea # i
    BY <2>2 DEF Repeated
  <2>9. CommandRight'
    BY <2>1, <2>2, <2>3, <2>4, <2>8 DEF CommandRight
  <2> QED BY <2>7, <2>9 DEF ReviewInv
<1>2. CASE MeasureBefore
  <2>1. CASE RejectRound
    BY <1>2, <2>1, Rejecting DEF MeasureBefore
  <2>2. CASE ~RejectRound
    <3> PICK r \in Rounds : r = command.r
      BY <1>2, <1>a DEF MeasureBefore
    <3>1. /\ command # ReviewIdle /\ command.stage = "before" /\ UNCHANGED <<commits, main, history>>
          /\ Change(r, [text |-> TextAt(rounds[r].base) \cup {rounds[r].edit}])
          /\ command' = [command EXCEPT !.stage = "hooks",
                            !.before = [text |-> rounds[r].text, gate |-> gate]]
      BY <1>2, <2>2 DEF MeasureBefore
    <3>2. DOMAIN [text |-> TextAt(rounds[r].base) \cup {rounds[r].edit}] \cap Judged = {}
      BY DEF Judged
    <3>3. SameRounds /\ ReviewTypes' /\ RoundsRight' /\ ReceiptsRight' /\ HistoryRight'
      BY <1>a, <3>1, <3>2, TextsMove
    <3>4. /\ {"op", "r", "stage"} \subseteq DOMAIN command' /\ command'.stage = "hooks"
          /\ command'.op = command.op /\ command'.r = command.r
      BY <1>a, <3>1
    <3> QED BY <3>1, <3>3, <3>4, CommandGoesOn DEF ReviewInv
  <2> QED BY <2>1, <2>2
<1>b. UNCHANGED rounds => SameRounds
  BY DEF SameRounds
<1>c. UNCHANGED <<commits, main, rounds>> => ReviewTypes' /\ RoundsRight' /\ ReceiptsRight' /\ HistoryRight'
  BY NothingMoves
<1>3. CASE RunHooks
  <2>1. CASE RejectRound
    BY <1>3, <2>1, Rejecting DEF RunHooks
  <2>2. CASE ~RejectRound
    <3>1. /\ command # ReviewIdle /\ command.stage = "hooks"
          /\ UNCHANGED <<commits, main, rounds, history>>
          /\ command' = [command EXCEPT !.stage = "measuring",
                               !.after = [text |-> rounds[command.r].text, gate |-> gate]]
      BY <1>3, <2>2 DEF RunHooks
    <3>2. /\ {"op", "r", "stage"} \subseteq DOMAIN command' /\ command'.stage = "measuring"
          /\ command'.op = command.op /\ command'.r = command.r
      BY <1>a, <3>1
    <3> QED BY <1>b, <1>c, <3>1, <3>2, CommandGoesOn DEF ReviewInv
  <2> QED BY <2>1, <2>2
<1>4. CASE MeasureAfter
  <2>1. CASE RejectRound
    BY <1>4, <2>1, Rejecting DEF MeasureAfter
  <2>2. CASE ~RejectRound
    <3>1. PICK gain \in 0..1, heldout \in BOOLEAN :
            command' = [command EXCEPT !.stage = "decide",
                       !.after = [text |-> @.text, gate |-> @.gate,
                                  gain |-> gain, heldout |-> heldout]]
      BY <1>4, <2>2 DEF MeasureAfter
    <3>2. /\ command # ReviewIdle /\ command.stage = "measuring"
          /\ UNCHANGED <<commits, main, rounds, history>>
      BY <1>4, <2>2 DEF MeasureAfter
    <3>3. /\ {"op", "r", "stage"} \subseteq DOMAIN command' /\ command'.stage = "decide"
          /\ command'.op = command.op /\ command'.r = command.r
      BY <1>a, <3>1, <3>2
    <3> QED BY <1>b, <1>c, <3>2, <3>3, CommandGoesOn DEF ReviewInv
  <2> QED BY <2>1, <2>2
<1>5. CASE ReviewDecide
  <2>1. CASE RejectRound
    BY <1>5, <2>1, Rejecting DEF ReviewDecide
  <2>2. CASE ~RejectRound
    <3> PICK r \in Rounds : r = command.r
      BY <1>5, <1>a DEF ReviewDecide
    <3>1. PICK p : /\ Change(r, [phase |-> "review_required", packet |-> p])
                   /\ p # ReviewNone /\ p.round = r /\ p.base = rounds[r].base
      <4> DEFINE p == [kind |-> "packet", round |-> r, base |-> rounds[r].base, gate |-> command.gate,
                       before |-> command.before, after |-> command.after]
      <4>1. Change(r, [phase |-> "review_required", packet |-> p])
        BY <1>5, <2>2 DEF ReviewDecide
      <4>2. p.kind # ReviewNone.kind /\ p.round = r /\ p.base = rounds[r].base
        BY DEF ReviewNone
      <4> HIDE DEF p
      <4> QED BY <4>1, <4>2
    <3>2. /\ command # ReviewIdle /\ command.stage = "decide" /\ command' = ReviewIdle
          /\ UNCHANGED <<commits, main, history>>
      BY <1>5, <2>2 DEF ReviewDecide, Release
    <3>3. /\ rounds[r] # NoRound /\ rounds[r].phase = "evaluating" /\ rounds[r].approval = ReviewNone
          /\ RoundRight(r)
      BY <3>2 DEF ReviewInv, CommandRight, RoundsRight
    <3>4. /\ DOMAIN rounds' = Rounds /\ \A q \in Rounds \ {r} : rounds'[q] = rounds[q]
          /\ DOMAIN rounds'[r] = RoundFields /\ rounds'[r] # NoRound
          /\ rounds'[r].phase = "review_required" /\ rounds'[r].packet = p
          /\ rounds'[r].approval = rounds[r].approval /\ rounds'[r].head = rounds[r].head
          /\ rounds'[r].base = rounds[r].base
      <4> DEFINE fields == [phase |-> "review_required", packet |-> p]
      <4>1. Change(r, fields) /\ DOMAIN fields = {"phase", "packet"}
            /\ fields["phase"] = "review_required" /\ fields["packet"] = p
        BY <3>1
      <4> HIDE DEF fields
      <4> QED BY <3>3, <4>1, ChangedRound DEF RoundFields
    <3>5. RoundRight(r)'
      BY <3>1, <3>2, <3>3, <3>4 DEF RoundRight
    <3>6. main' \in 1..Len(commits)
      BY <3>2 DEF ReviewInv, ReviewTypes
    <3> QED BY <3>2, <3>3, <3>4, <3>5, <3>6, RoundsMove DEF ReviewInv, CommandRight
  <2> QED BY <2>1, <2>2
<1> QED BY <1>1, <1>2, <1>3, <1>4, <1>5

(* The owner answers and an approved candidate is accepted.                 *)
LEMMA AcceptingKeepsReview ==
  ASSUME ReviewInv,
         \/ \E r \in Rounds : BeginReview(r) \/ BeginAccept(r) \/ RejectCommand(r)
         \/ OwnerAnswers \/ WriteReceipt \/ CheckBeforeStaging \/ StageCandidate \/ RecordAccepted
         \/ AppendLog
  PROVE  ReviewInv'
<1>a. command # ReviewIdle =>
        /\ command.r \in Rounds /\ rounds[command.r] # NoRound /\ RoundRight(command.r)
        /\ {"op", "r", "stage"} \subseteq DOMAIN command
  BY DEF ReviewInv, CommandRight, RoundsRight
<1>m. main' = main => main' \in 1..Len(commits)
  BY DEF ReviewInv, ReviewTypes
<1>1. ASSUME NEW r \in Rounds, BeginReview(r)
      PROVE  ReviewInv'
  <2>1. /\ UNCHANGED <<commits, main, rounds, history>> /\ rounds[r] # NoRound
        /\ command' = [op |-> "review", r |-> r, stage |-> "asked"]
    BY <1>1 DEF BeginReview
  <2>2. CommandRight'
    BY <2>1 DEF CommandRight
  <2> QED BY <2>1, <2>2, NothingMoves DEF ReviewInv
<1>2. ASSUME NEW r \in Rounds, BeginAccept(r)
      PROVE  ReviewInv'
  <2>1. /\ UNCHANGED <<commits, main, rounds, history>> /\ rounds[r] # NoRound /\ ReviewVerified(r)
        /\ rounds[r].approval = rounds[r].packet
        /\ command' = [op |-> "accept", r |-> r, stage |-> "acceptHooks"]
    BY <1>2 DEF BeginAccept
  <2>2. /\ rounds[r].phase = "review_required" /\ rounds[r].head = rounds[r].packet.base
        /\ rounds[r].packet.base = rounds[r].base
    BY <2>1 DEF ReviewVerified, WorkspaceClean, ReviewInv, RoundsRight, RoundRight
  <2>3. CommandRight'
    BY <2>1, <2>2 DEF CommandRight
  <2> QED BY <2>1, <2>3, NothingMoves DEF ReviewInv
<1>3. ASSUME NEW r \in Rounds, RejectCommand(r)
      PROVE  ReviewInv'
  <2>1. /\ rounds[r] # NoRound /\ RolledBack(r) /\ UNCHANGED <<commits, main, history>>
        /\ \/ command' = ReviewIdle
           \/ command' = [op |-> "reject", r |-> r, stage |-> "log"]
    BY <1>3 DEF RejectCommand
  <2>2. \/ command' = ReviewIdle
        \/ {"op", "r", "stage"} \subseteq DOMAIN command' /\ command'.r = r /\ command'.stage = "log"
    BY <2>1
  <2> QED BY <2>1, <2>2, RollingBack
<1>4. CASE OwnerAnswers
  <2>1. /\ command # ReviewIdle /\ command.stage = "asked" /\ command' = ReviewIdle
        /\ UNCHANGED <<commits, main, history>>
    BY <1>4 DEF OwnerAnswers, Release
  <2>2. CASE UNCHANGED rounds
    BY <2>1, <2>2, NothingMoves DEF ReviewInv, CommandRight
  <2>3. CASE ~UNCHANGED rounds
    <3> PICK r \in Rounds : r = command.r
      BY <2>1, <1>a
    <3>1. ReviewVerified(r) /\ Change(r, [approval |-> rounds[r].packet])
          /\ rounds[r] # NoRound /\ RoundRight(r)
      BY <1>4, <2>3, <1>a, <2>1 DEF OwnerAnswers
    <3>2. /\ rounds[r].packet # ReviewNone /\ Measured(rounds[r].packet)
          /\ rounds[r].head = rounds[r].packet.base
      BY <3>1 DEF RoundRight, ReviewVerified, Bound, Measured, WorkspaceClean
    <3>3. /\ DOMAIN rounds' = Rounds /\ \A q \in Rounds \ {r} : rounds'[q] = rounds[q]
          /\ DOMAIN rounds'[r] = RoundFields /\ rounds'[r] # NoRound
          /\ rounds'[r].approval = rounds[r].packet
          /\ \A f \in RoundFields \ {"approval"} : rounds'[r][f] = rounds[r][f]
      <4> DEFINE fields == [approval |-> rounds[r].packet]
      <4>1. Change(r, fields) /\ DOMAIN fields = {"approval"} /\ fields["approval"] = rounds[r].packet
        BY <3>1
      <4> HIDE DEF fields
      <4> QED BY <3>1, <4>1, ChangedRound DEF RoundFields
    <3>4. /\ rounds'[r].phase = rounds[r].phase /\ rounds'[r].packet = rounds[r].packet
          /\ rounds'[r].head = rounds[r].head /\ rounds'[r].base = rounds[r].base
      BY <3>3 DEF RoundFields
    <3>5. RoundRight(r)'
      BY <2>1, <3>1, <3>2, <3>3, <3>4 DEF RoundRight, Measured, TextAt, ReviewRequired
    <3> QED BY <2>1, <1>m, <3>1, <3>3, <3>4, <3>5, RoundsMove DEF ReviewInv, CommandRight, RoundRight
  <2> QED BY <2>2, <2>3
<1>5. CASE WriteReceipt
  <2>1. /\ command # ReviewIdle /\ command.stage = "acceptHooks"
        /\ UNCHANGED <<commits, main, history>>
    BY <1>5 DEF WriteReceipt
  <2>2. CASE UNCHANGED rounds /\ Release
    BY <2>1, <2>2, NothingMoves, CommandGoesOn DEF ReviewInv, Release
  <2>3. CASE Change(command.r, [receipt |-> TRUE]) /\ Stage("stage")
    <3> PICK r \in Rounds : r = command.r
      BY <2>1, <1>a
    <3>1. DOMAIN [receipt |-> TRUE] \cap Judged = {}
      BY DEF Judged
    <3>2. SameRounds /\ ReviewTypes' /\ RoundsRight' /\ ReceiptsRight' /\ HistoryRight'
      BY <1>a, <2>1, <2>3, <3>1, TextsMove
    <3>3. /\ {"op", "r", "stage"} \subseteq DOMAIN command' /\ command'.stage = "stage"
          /\ command'.op = command.op /\ command'.r = command.r
      BY <1>a, <2>1, <2>3 DEF Stage
    <3> QED BY <2>1, <3>2, <3>3, CommandGoesOn DEF ReviewInv
  <2> QED BY <1>5, <2>2, <2>3 DEF WriteReceipt
<1>6. ASSUME command # ReviewIdle, AcceptFailed
      PROVE  ReviewInv'
  <2> PICK r \in Rounds : r = command.r
    BY <1>6, <1>a
  <2>1. /\ Change(r, [staged |-> ReviewNone, receipt |-> FALSE]) /\ command' = ReviewIdle
        /\ UNCHANGED <<commits, main, history>>
    BY <1>6 DEF AcceptFailed, Release
  <2>2. DOMAIN [staged |-> ReviewNone, receipt |-> FALSE] \cap Judged = {}
    BY DEF Judged
  <2> QED BY <1>6, <1>a, <2>1, <2>2, TextsMove, CommandGoesOn DEF ReviewInv
<1>7. CASE CheckBeforeStaging
  <2>1. command # ReviewIdle /\ command.stage = "stage"
    BY <1>7 DEF CheckBeforeStaging
  <2>2. CASE AcceptFailed
    BY <2>1, <2>2, <1>6
  <2>3. CASE ~AcceptFailed
    <3>1. UNCHANGED <<commits, main, rounds, history>> /\ command' = [command EXCEPT !.stage = "add"]
      BY <1>7, <2>3 DEF CheckBeforeStaging, Stage
    <3>2. /\ {"op", "r", "stage"} \subseteq DOMAIN command' /\ command'.stage = "add"
          /\ command'.op = command.op /\ command'.r = command.r
      BY <1>a, <2>1, <3>1
    <3> QED BY <2>1, <3>1, <3>2, NothingMoves, CommandGoesOn DEF ReviewInv
  <2> QED BY <2>2, <2>3
<1>8. CASE StageCandidate
  <2> PICK r \in Rounds : r = command.r
    BY <1>8, <1>a DEF StageCandidate
  <2> DEFINE fields == [staged |-> [kind |-> "text", text |-> rounds[r].text]]
  <2>1. /\ command # ReviewIdle /\ command.stage = "add" /\ Change(r, fields)
        /\ command' = [command EXCEPT !.stage = "commit"] /\ UNCHANGED <<commits, main, history>>
    BY <1>8 DEF StageCandidate, Stage
  <2>2. DOMAIN fields \cap Judged = {}
    BY DEF Judged
  <2>3. /\ {"op", "r", "stage"} \subseteq DOMAIN command' /\ command'.stage = "commit"
        /\ command'.op = command.op /\ command'.r = command.r
    BY <1>a, <2>1
  <2> HIDE DEF fields
  <2>4. SameRounds /\ ReviewTypes' /\ RoundsRight' /\ ReceiptsRight' /\ HistoryRight'
    BY <1>a, <2>1, <2>2, TextsMove
  <2> QED BY <2>1, <2>3, <2>4, CommandGoesOn DEF ReviewInv
<1>9. CASE RecordAccepted
  <2> PICK r \in Rounds : r = command.r
    BY <1>9, <1>a DEF RecordAccepted
  <2>1. /\ command # ReviewIdle /\ Change(r, [phase |-> "accepted"]) /\ command' = ReviewIdle
        /\ UNCHANGED <<commits, main, history>>
    BY <1>9 DEF RecordAccepted, Release
  <2>2. rounds[r] # NoRound /\ RoundRight(r)
    BY <1>a, <2>1
  <2>3. /\ DOMAIN rounds' = Rounds /\ \A q \in Rounds \ {r} : rounds'[q] = rounds[q]
        /\ DOMAIN rounds'[r] = RoundFields /\ rounds'[r] # NoRound
        /\ rounds'[r].phase = "accepted"
        /\ \A f \in RoundFields \ {"phase"} : rounds'[r][f] = rounds[r][f]
    <3> DEFINE fields == [phase |-> "accepted"]
    <3>1. Change(r, fields) /\ DOMAIN fields = {"phase"} /\ fields["phase"] = "accepted"
      BY <2>1
    <3> HIDE DEF fields
    <3> QED BY <2>2, <3>1, ChangedRound DEF RoundFields
  <2>4. /\ rounds'[r].approval = rounds[r].approval /\ rounds'[r].packet = rounds[r].packet
        /\ rounds'[r].head = rounds[r].head /\ rounds'[r].base = rounds[r].base
    BY <2>3 DEF RoundFields
  <2>5. RoundRight(r)'
    BY <2>1, <2>2, <2>3, <2>4 DEF RoundRight, Measured, TextAt
  <2> QED BY <2>1, <1>m, <2>2, <2>3, <2>4, <2>5, RoundsMove DEF ReviewInv, CommandRight
<1>10. CASE AppendLog
  <2>1. UNCHANGED <<commits, main, rounds>> /\ command' = ReviewIdle
    BY <1>10 DEF AppendLog, Release
  <2> QED BY <2>1, NothingMoves DEF ReviewInv, CommandRight
<1> QED BY <1>1, <1>2, <1>3, <1>4, <1>5, <1>7, <1>8, <1>9, <1>10

(* The approved candidate is committed on the text it was measured against. *)
LEMMA CommittingKeepsReview ==
  ASSUME ReviewInv, CommitCandidate, ~AcceptFailed
  PROVE  ReviewInv'
<1>1. /\ command # ReviewIdle /\ command.stage = "commit"
      /\ {"op", "r", "stage"} \subseteq DOMAIN command
      /\ command.r \in Rounds /\ rounds[command.r] # NoRound
  BY DEF CommitCandidate, ReviewInv, CommandRight
<1> PICK r \in Rounds : r = command.r
  BY <1>1
<1> PICK n \in Nat \ {0} : n = Len(commits)
  <2>1. PICK S : commits \in Seq(S)
    BY DEF ReviewInv, ReviewTypes
  <2>2. Len(commits) \in Nat /\ main \in 1..Len(commits)
    BY <2>1 DEF ReviewInv, ReviewTypes
  <2> QED BY <2>2
<1> PICK p : p = rounds[r].packet
  OBVIOUS
<1> DEFINE c == [parents |-> {rounds[r].head}, text |-> rounds[r].staged.text,
                 receipts |-> commits[rounds[r].head].receipts \cup {p}]
<1>2. /\ commits' = Append(commits, c) /\ StagedAsEvaluated(r)
      /\ Change(r, [head |-> n + 1, staged |-> ReviewNone, receipt |-> FALSE])
      /\ command' = [command EXCEPT !.stage = "accepted"] /\ UNCHANGED <<main, history>>
  BY DEF CommitCandidate, Stage
<1>3. /\ RoundRight(r) /\ rounds[r].phase = "review_required" /\ rounds[r].approval = p
      /\ p # ReviewNone /\ rounds[r].head = rounds[r].base /\ p.base = rounds[r].base /\ p.round = r
      /\ Measured(p) /\ rounds[r].base \in 1..n
  BY <1>1 DEF ReviewInv, CommandRight, RoundsRight, RoundRight
<1>4. c.parents = {p.base} /\ c.text = p.after.text /\ c.receipts = commits[p.base].receipts \cup {p}
  BY <1>2, <1>3 DEF StagedAsEvaluated
<1> HIDE DEF c
<1>5. /\ DOMAIN rounds' = Rounds /\ \A q \in Rounds \ {r} : rounds'[q] = rounds[q]
      /\ DOMAIN rounds'[r] = RoundFields /\ rounds'[r] # NoRound
      /\ rounds'[r].head = n + 1
      /\ \A f \in RoundFields \ {"head", "staged", "receipt"} : rounds'[r][f] = rounds[r][f]
  <2> DEFINE fields == [head |-> n + 1, staged |-> ReviewNone, receipt |-> FALSE]
  <2>1. Change(r, fields) /\ DOMAIN fields = {"head", "staged", "receipt"} /\ fields["head"] = n + 1
    BY <1>2
  <2> HIDE DEF fields
  <2> QED BY <1>1, <2>1, ChangedRound DEF RoundFields
<1>6. /\ rounds'[r].phase = rounds[r].phase /\ rounds'[r].packet = p
      /\ rounds'[r].approval = p /\ rounds'[r].base = rounds[r].base
  BY <1>3, <1>5 DEF RoundFields
<1>7. /\ Len(commits') = n + 1 /\ commits'[n + 1] = c /\ \A d \in 1..n : commits'[d] = commits[d]
  <2>1. PICK S : commits \in Seq(S)
    BY DEF ReviewInv, ReviewTypes
  <2> QED BY <1>2, <2>1
<1>8. \A d \in 1..n : TextAt(d)' = TextAt(d)
  BY <1>7 DEF TextAt
<1>9. RoundsRight'
  <2>1. RoundRight(r)'
    BY <1>3, <1>5, <1>6, <1>7, <1>8 DEF RoundRight, Measured, ReviewRequired
  <2>2. ASSUME NEW q \in Rounds \ {r}, rounds[q] # NoRound
        PROVE  RoundRight(q)'
    <3>1. RoundRight(q) /\ rounds'[q] = rounds[q]
      BY <1>5, <2>2 DEF ReviewInv, RoundsRight
    <3> QED BY <1>7, <1>8, <3>1 DEF RoundRight, Measured, ReviewRequired
  <2> QED BY <1>5, <2>1, <2>2 DEF RoundsRight
<1>10. Approved \subseteq Approved' /\ p \in Approved'
  BY <1>3, <1>5, <1>6 DEF Approved
<1>11. CommitEarned(n + 1)'
  <2>1. TextAt(n + 1)' = p.after.text /\ commits'[n + 1].parents = {p.base}
    BY <1>4, <1>7 DEF TextAt
  <2>2. p.before.text = TextAt(p.base)' /\ ReviewRequired(p.before, p.after)
    BY <1>3, <1>8 DEF Measured
  <2> QED BY <1>10, <2>1, <2>2 DEF CommitEarned, ReviewRequired
<1>12. /\ rounds[r].head = rounds[r].base /\ rounds'[r].head # rounds[r].base
  BY <1>3, <1>5
<1>13. ASSUME NEW x \in c.receipts
       PROVE  ReceiptOf(x, n + 1)'
  <2>1. CASE x = p
    BY <1>3, <1>5, <1>6, <1>12, <2>1 DEF ReceiptOf
  <2>2. CASE x \in commits[p.base].receipts
    <3>1. ReceiptOf(x, p.base)
      BY <1>3, <2>2 DEF ReviewInv, ReceiptsRight
    <3>2. PICK q \in Rounds : /\ rounds[q] # NoRound /\ x = rounds[q].approval /\ x # ReviewNone
                              /\ rounds[q].head # rounds[q].base /\ rounds[q].base < p.base
      BY <3>1 DEF ReceiptOf
    <3>3. q # r /\ rounds'[q] = rounds[q]
      BY <1>5, <1>12, <3>2
    <3>4. rounds[q].base \in 1..n
      BY <3>2 DEF ReviewInv, RoundsRight, RoundRight
    <3> QED BY <3>2, <3>3, <3>4 DEF ReceiptOf
  <2> QED BY <1>4, <2>1, <2>2
<1>14. ASSUME NEW d \in 2..n, NEW x \in c.receipts \cap commits[d].receipts
       PROVE  c.parents # {x.base}
  <2>1. PICK q \in Rounds : /\ rounds[q] # NoRound /\ x = rounds[q].approval /\ x # ReviewNone
                            /\ rounds[q].head # rounds[q].base
    BY DEF ReviewInv, ReceiptsRight, ReceiptOf
  <2>2. x.round = q /\ x.base = rounds[q].base
    BY <2>1 DEF ReviewInv, RoundsRight, RoundRight
  <2>3. x # p
    BY <1>3, <2>1, <2>2
  <2>4. ReceiptOf(x, p.base)
    BY <1>3, <1>4, <2>3 DEF ReviewInv, ReceiptsRight
  <2>5. x.base < p.base
    <3>1. PICK z \in Rounds : /\ rounds[z] # NoRound /\ x = rounds[z].approval /\ x # ReviewNone
                              /\ rounds[z].base < p.base
      BY <2>4 DEF ReceiptOf
    <3> QED BY <3>1 DEF ReviewInv, RoundsRight, RoundRight
  <2>6. x.base \in 1..n /\ p.base \in 1..n
    BY <1>3, <2>1, <2>2 DEF ReviewInv, RoundsRight, RoundRight
  <2> QED BY <1>4, <2>5, <2>6
<1>15. main' \in 1..(n + 1) /\ c.parents \subseteq 1..n
  BY <1>2, <1>3, <1>4 DEF ReviewInv, ReviewTypes
<1>16. \A q \in Rounds : rounds[q] # NoRound /\ rounds[q].head # rounds[q].base =>
            /\ rounds'[q] # NoRound /\ rounds'[q].approval = rounds[q].approval
            /\ rounds'[q].base = rounds[q].base /\ rounds'[q].head # rounds[q].base
  BY <1>5, <1>12
<1>17. ReviewTypes' /\ ReceiptsRight' /\ HistoryRight'
  BY <1>2, <1>5, <1>9, <1>10, <1>11, <1>13, <1>14, <1>15, <1>16, CommitsGrow
<1>18. CommandRight'
  <2>1. /\ {"op", "r", "stage"} \subseteq DOMAIN command' /\ command'.stage = "accepted"
        /\ command'.op = command.op /\ command'.r = r
    BY <1>1, <1>2
  <2>2. command.op # "run"
    BY <1>1 DEF ReviewInv, CommandRight
  <2> QED BY <1>5, <2>1, <2>2 DEF CommandRight
<1> QED BY <1>9, <1>17, <1>18 DEF ReviewInv

(* A commit that CI accepts is earned.                                      *)
LEMMA PushingKeepsReview ==
  ASSUME ReviewInv, NEW parents, NEW text, NEW receipts, PushCommit(parents, text, receipts),
         \/ parents = {main} /\ receipts \subseteq commits[main].receipts
         \/ \E r \in Rounds :
              /\ rounds[r] # NoRound /\ parents = {main, rounds[r].head}
              /\ receipts = commits[main].receipts \cup commits[rounds[r].head].receipts
  PROVE  ReviewInv'
<1> PICK n \in Nat \ {0} : n = Len(commits)
  <2>1. PICK S : commits \in Seq(S)
    BY DEF ReviewInv, ReviewTypes
  <2>2. Len(commits) \in Nat /\ main \in 1..Len(commits)
    BY <2>1 DEF ReviewInv, ReviewTypes
  <2> QED BY <2>2
<1> PICK m \in 1..n : m = main
  BY DEF ReviewInv, ReviewTypes
<1> DEFINE c == [parents |-> parents, text |-> text, receipts |-> receipts]
<1>1. /\ CommitAccepted(c) /\ commits' = Append(commits, c) /\ main' = n + 1
      /\ UNCHANGED <<rounds, history, command>>
  BY DEF PushCommit
<1>2. c.parents = parents /\ c.text = text /\ c.receipts = receipts
  OBVIOUS
<1> HIDE DEF c
<1>3. PICK h \in 1..n : parents = {m, h} /\ receipts \subseteq commits[m].receipts \cup commits[h].receipts
  BY DEF ReviewInv, RoundsRight, RoundRight
<1>4. /\ Len(commits') = n + 1 /\ commits'[n + 1] = c /\ \A d \in 1..n : commits'[d] = commits[d]
  <2>1. PICK S : commits \in Seq(S)
    BY DEF ReviewInv, ReviewTypes
  <2> QED BY <1>1, <2>1
<1>5. \A d \in 1..n : TextAt(d)' = TextAt(d)
  BY <1>4 DEF TextAt
<1>6. RoundsRight'
  <2>1. ASSUME NEW q \in Rounds, rounds[q] # NoRound
        PROVE  RoundRight(q)'
    <3>1. RoundRight(q) /\ rounds'[q] = rounds[q]
      BY <1>1, <2>1 DEF ReviewInv, RoundsRight
    <3> QED BY <1>4, <1>5, <3>1 DEF RoundRight, Measured, ReviewRequired
  <2> QED BY <1>1, <2>1 DEF RoundsRight
<1>7. Approved' = Approved
  BY <1>1 DEF Approved
<1>8. \A x \in receipts : \E d \in {m, h} : ReceiptOf(x, d)
  BY <1>3 DEF ReviewInv, ReceiptsRight
<1>9. \A d \in 1..n : \A x : ReceiptOf(x, d) => /\ x \in Approved /\ Measured(x) /\ x.base < d
                                               /\ x.base \in 1..n
  BY DEF ReceiptOf, Approved, ReviewInv, RoundsRight, RoundRight
<1>10. CommitEarned(n + 1)'
  <2>1. TextAt(n + 1)' = c.text /\ commits'[n + 1].parents = parents
    BY <1>2, <1>4 DEF TextAt
  <2>2. CASE \E p \in parents : c.text = TextAt(p)
    BY <1>3, <1>5, <2>1, <2>2 DEF CommitEarned
  <2>3. CASE m = h /\ ~\E p \in parents : c.text = TextAt(p)
    <3>1. parents = {m} /\ Cardinality(parents) = 1
      <4>1. parents = {m}
        BY <1>3, <2>3
      <4>2. Cardinality({m}) = 1
        BY FS_Singleton
      <4> QED BY <4>1, <4>2
    <3>2. RevertAccepted(c, m) \/ ChangeAccepted(c, m)
      BY <1>1, <1>2, <2>3, <3>1 DEF CommitAccepted
    <3>3. CASE RevertAccepted(c, m)
      <4>1. PICK p \in commits[m].receipts : TextAt(m) = p.after.text /\ c.text = TextAt(p.base)
        BY <3>3 DEF RevertAccepted
      <4>2. p \in Approved /\ p.base \in 1..n
        BY <4>1, <1>9 DEF ReviewInv, ReceiptsRight
      <4>3. TextAt(p.base)' = TextAt(p.base) /\ TextAt(m)' = TextAt(m)
        BY <1>5, <4>2
      <4> QED BY <1>7, <2>1, <3>1, <4>1, <4>2, <4>3 DEF CommitEarned
    <3>4. CASE ChangeAccepted(c, m)
      <4>1. PICK p \in c.receipts : /\ p.base = m /\ ReviewRequired(p.before, p.after)
                                    /\ c.text = p.after.text
        BY <3>4 DEF ChangeAccepted
      <4>2. p \in Approved /\ Measured(p)
        BY <1>2, <1>8, <1>9, <4>1
      <4>3. p.before.text = TextAt(p.base)'
        BY <1>5, <4>1, <4>2 DEF Measured
      <4> QED BY <1>7, <2>1, <3>1, <4>1, <4>2, <4>3 DEF CommitEarned, ReviewRequired
    <3> QED BY <3>2, <3>3, <3>4
  <2>4. CASE m # h
    <3>1. Cardinality(parents) # 1
      <4>1. ASSUME Cardinality(parents) = 1
            PROVE  FALSE
        <5>1. IsFiniteSet(parents)
          <6>1. IsFiniteSet({m}) /\ IsFiniteSet({h})
            BY FS_Singleton
          <6>2. parents = {m} \cup {h}
            BY <1>3
          <6> QED BY <6>1, <6>2, FS_Union
        <5>2. \E x : parents = {x}
          BY <4>1, <5>1, FS_Singleton
        <5> QED BY <1>3, <2>4, <5>2
      <4> QED BY <4>1
    <3>2. \E p \in parents : c.text = TextAt(p)
      BY <1>1, <1>2, <3>1 DEF CommitAccepted, MergeAccepted
    <3> QED BY <2>2, <3>2
  <2> QED BY <2>2, <2>3, <2>4
<1>11. ASSUME NEW x \in c.receipts
       PROVE  ReceiptOf(x, n + 1)'
  <2>1. PICK d \in {m, h} : ReceiptOf(x, d)
    BY <1>2, <1>8
  <2>2. PICK q \in Rounds : /\ rounds[q] # NoRound /\ x = rounds[q].approval /\ x # ReviewNone
                            /\ rounds[q].head # rounds[q].base /\ rounds[q].base < d
    BY <2>1 DEF ReceiptOf
  <2>3. rounds[q].base \in 1..n
    BY <2>2 DEF ReviewInv, RoundsRight, RoundRight
  <2> QED BY <1>1, <2>2, <2>3 DEF ReceiptOf
<1>12. ASSUME NEW d \in 2..n, NEW x \in c.receipts \cap commits[d].receipts
       PROVE  c.parents # {x.base}
  <2>1. PICK e \in {m, h} : ReceiptOf(x, e)
    BY <1>2, <1>8
  <2>2. x.base < e /\ x.base \in Nat /\ e \in Nat
    BY <1>9, <2>1
  <2>3. e \in c.parents /\ e # x.base
    BY <1>2, <1>3, <2>1, <2>2
  <2> QED BY <2>3
<1>13. ReviewTypes' /\ ReceiptsRight' /\ HistoryRight'
  <2>1. main' \in 1..(n + 1) /\ c.parents \subseteq 1..n /\ DOMAIN rounds' = Rounds
    BY <1>1, <1>2, <1>3 DEF ReviewInv, ReviewTypes
  <2> QED BY <1>1, <1>6, <1>7, <1>10, <1>11, <1>12, <2>1, CommitsGrow
<1>14. CommandRight'
  BY <1>1 DEF ReviewInv, CommandRight
<1> QED BY <1>6, <1>13, <1>14 DEF ReviewInv

LEMMA ReviewHolds == ReviewInv /\ [ReviewNext]_reviewVars => ReviewInv'
<1> SUFFICES ASSUME ReviewInv, [ReviewNext]_reviewVars
             PROVE  ReviewInv'
  OBVIOUS
<1>1. ASSUME UNCHANGED <<commits, main, rounds, history>>, command' = command \/ command' = ReviewIdle
      PROVE  ReviewInv'
  BY <1>1, NothingMoves, CommandGoesOn DEF ReviewInv
<1>2. CASE Die \/ ChangeGate \/ UNCHANGED reviewVars
  BY <1>1, <1>2 DEF Die, Release, ChangeGate, reviewVars
<1>3. ASSUME NEW r \in Rounds, FastForward(r)
      PROVE  ReviewInv'
  <2>1. /\ UNCHANGED <<commits, rounds, history, command>> /\ rounds[r] # NoRound
        /\ main' = rounds[r].head
    BY <1>3 DEF FastForward
  <2>2. main' \in 1..Len(commits) /\ RoundRight(r)
    BY <2>1 DEF ReviewInv, RoundsRight, RoundRight
  <2>3. RoundRight(r)'
    BY <2>1, <2>2 DEF RoundRight, Measured, TextAt
  <2>4. DOMAIN rounds' = Rounds
    BY <2>1 DEF ReviewInv, ReviewTypes
  <2> QED BY <2>1, <2>2, <2>3, <2>4, RoundsMove DEF ReviewInv, CommandRight
<1>4. ASSUME NEW r \in Rounds, Tamper(r)
      PROVE  ReviewInv'
  <2> DEFINE fields == [text |-> IF "junk" \in rounds[r].text
                           THEN rounds[r].text \ {"junk"}
                           ELSE rounds[r].text \cup {"junk"}]
  <2>1. /\ UNCHANGED <<commits, main, history, command>> /\ rounds[r] # NoRound /\ Change(r, fields)
    BY <1>4 DEF Tamper
  <2>2. DOMAIN fields \cap Judged = {}
    BY DEF Judged
  <2> HIDE DEF fields
  <2> QED BY <2>1, <2>2, TextsMove, CommandGoesOn DEF ReviewInv
<1>5. CASE Pushes
  <2>1. CASE \E text : PushCommit({main}, text, commits[main].receipts)
    BY <2>1, PushingKeepsReview
  <2>2. CASE \E p \in commits[main].receipts :
               PushCommit({main}, TextAt(p.base), commits[main].receipts \ {p})
    BY <2>2, PushingKeepsReview
  <2>3. CASE \E r \in {q \in Rounds : rounds[q] # NoRound} : \E text :
               PushCommit({main, rounds[r].head}, text,
                    commits[main].receipts \cup commits[rounds[r].head].receipts)
    BY <2>3, PushingKeepsReview
  <2> QED BY <1>5, <2>1, <2>2, <2>3 DEF Pushes
<1>6. CASE CommitCandidate
  <2>1. CASE AcceptFailed
    <3>1. command # ReviewIdle
      BY <1>6 DEF CommitCandidate
    <3>2. command.r \in Rounds /\ rounds[command.r] # NoRound
      BY <3>1 DEF ReviewInv, CommandRight
    <3> PICK r \in Rounds : r = command.r
      BY <3>2
    <3>3. /\ Change(r, [staged |-> ReviewNone, receipt |-> FALSE]) /\ command' = ReviewIdle
          /\ UNCHANGED <<commits, main, history>>
      BY <2>1 DEF AcceptFailed, Release
    <3>4. DOMAIN [staged |-> ReviewNone, receipt |-> FALSE] \cap Judged = {}
      BY DEF Judged
    <3> QED BY <3>2, <3>3, <3>4, TextsMove, CommandGoesOn DEF ReviewInv
  <2> QED BY <1>6, <2>1, CommittingKeepsReview
<1> QED BY <1>2, <1>3, <1>4, <1>5, <1>6, RunningKeepsReview, AcceptingKeepsReview DEF ReviewNext

(* What the run checks follows.                                             *)
LEMMA ReviewSafe == ReviewInv => SkillChangesEarned
<1> SUFFICES ASSUME ReviewInv
             PROVE  SkillChangesEarned
  OBVIOUS
<1> USE DEF ReviewInv
<1>1. ASSUME NEW r \in Rounds, rounds[r] # NoRound
      PROVE  /\ Cardinality({c \in 2..Len(commits) :
                   /\ rounds[r].packet \in commits[c].receipts
                   /\ commits[c].parents = {rounds[r].base}
                   /\ TextAt(c) # TextAt(rounds[r].base)}) <= 1
             /\ rounds[r].phase = "reverted" => rounds[r].head = rounds[r].base
  <2> DEFINE Of == {c \in 2..Len(commits) :
                     /\ rounds[r].packet \in commits[c].receipts
                     /\ commits[c].parents = {rounds[r].base}
                     /\ TextAt(c) # TextAt(rounds[r].base)}
  <2>1. RoundRight(r)
    BY <1>1 DEF RoundsRight
  <2>2. \A c \in Of : rounds[r].packet # ReviewNone
    <3>1. \A c \in Of : c \in 1..Len(commits)
      OBVIOUS
    <3>2. \A c \in Of : ReceiptOf(rounds[r].packet, c)
      BY <3>1 DEF ReceiptsRight
    <3> QED BY <3>2 DEF ReceiptOf
  <2>3. \A c, d \in Of : c = d
    BY <2>1, <2>2 DEF HistoryRight, RoundRight
  <2>4. Cardinality(Of) <= 1
    <3> HIDE DEF Of
    <3> QED BY <2>3, AtMostOne
  <2> QED BY <2>1, <2>4 DEF RoundRight
<1>2. \A c \in 2..Len(commits) : CommitEarned(c)
  BY DEF HistoryRight
<1>3. command # ReviewIdle /\ command.op = "run" /\ command.stage # "log" =>
          \A row \in history : row.idea # rounds[command.r].idea
  BY DEF CommandRight
<1> QED BY <1>1, <1>2, <1>3 DEF SkillChangesEarned, CommitEarned


(***************************************************************************)
(* The improvement loop                                                    *)
(***************************************************************************)

LoopRunFields ==
  {"stage", "identity", "number", "rejected", "noGain", "previous", "first", "branch", "work",
   "idea", "after", "gain"}

(* What the proof calls measured: taken while the frozen judge was in place *)
(* is on its inputs.                                                        *)
OnFrozen(taken) == ~swapped /\ Fingerprint = run.identity => taken.inputs = reference.inputs

LoopTypes ==
  /\ DOMAIN run = LoopRunFields
  /\ run.number \in 0..MaxRounds
  /\ \E S : run.branch \in Seq(S)
  /\ run.previous.score \in Nat \cup {-1}
  /\ run.first.score \in Nat \cup {-1}
  /\ run.after.score \in Nat \cup {-1}

(* The rounds of a run: what is measured where, and on which text.          *)
LoopStages ==
  /\ run.stage \in {"next", "previous", "edit", "after", "heldout", "stopped"}
  /\ run.previous.score = -1 => run.branch = <<>>
  /\ run.stage \in {"edit", "after", "heldout"} => run.previous.score # -1
  /\ run.stage = "previous" => run.previous.score = -1
  /\ run.previous.score # -1 => OnFrozen(run.previous)
  /\ run.stage = "heldout" => OnFrozen(run.after)
  /\ run.stage \notin {"after", "heldout"} => run.work = Committed
  /\ run.stage \in {"after", "heldout"} =>
       run.work = Committed \cup {run.idea} /\ run.idea \notin Committed
  /\ run.stage \in {"previous", "edit", "after", "heldout"} => run.idea \notin run.rejected
  /\ Committed \cap run.rejected = {}

(* The branch is a chain of measurements, each better than the last.        *)
LoopChain ==
  /\ \A i \in 1..Len(run.branch) :
       LET c == run.branch[i]
       IN /\ c.heldout
          /\ c.after.pass
          /\ c.after.score > c.before.score
          /\ swapped \/ c.after.inputs = c.before.inputs
          /\ c.before = IF i = 1 THEN run.first ELSE run.branch[i - 1].after
  /\ run.previous = IF run.branch = <<>> THEN run.first ELSE run.branch[Len(run.branch)].after
  /\ run.gain = IF run.branch = <<>> THEN 0 ELSE run.previous.score - run.first.score

LoopInv == run # Resting => LoopTypes /\ LoopStages /\ LoopChain

(* Measurements of the judge change: a run keeps what it has measured.      *)
LEMMA JudgeKeepsLoop ==
  ASSUME LoopInv, Watched, UNCHANGED run
  PROVE  LoopInv'
<1> SUFFICES ASSUME run # Resting
             PROVE  LoopTypes' /\ LoopStages' /\ LoopChain'
  BY DEF LoopInv
<1>1. LoopTypes /\ LoopStages /\ LoopChain
  BY DEF LoopInv
<1>2. ~swapped' /\ Fingerprint' = run.identity => ~swapped /\ Fingerprint = run.identity
  BY DEF Watched
<1>3. Fingerprint' = Fingerprint => reference' = reference
  BY DEF Fingerprint
<1>4. \A taken : OnFrozen(taken) => OnFrozen(taken)'
  BY <1>2, <1>3 DEF OnFrozen
<1>5. swapped => swapped'
  BY DEF Watched
<1>6. LoopTypes' /\ LoopStages'
  BY <1>1, <1>4 DEF LoopTypes, LoopStages, Committed
<1>7. LoopChain'
  BY <1>1, <1>5 DEF LoopChain
<1> QED BY <1>6, <1>7

(* A run goes on to another stage with its branch and its measurements.     *)
LEMMA StageKeepsLoop ==
  ASSUME LoopInv, run # Resting, UNCHANGED Judge,
         DOMAIN run' = LoopRunFields, run' # Resting,
         run'.branch = run.branch, run'.previous = run.previous, run'.first = run.first,
         run'.gain = run.gain, run'.identity = run.identity, run'.rejected = run.rejected,
         run'.number \in 0..MaxRounds, run'.after.score \in Nat \cup {-1},
         run'.stage \in {"next", "previous", "edit", "after", "heldout", "stopped"},
         run'.stage \in {"edit", "after", "heldout"} => run'.previous.score # -1,
         run'.stage = "previous" => run'.previous.score = -1,
         run'.stage = "heldout" => OnFrozen(run'.after),
         run'.stage \notin {"after", "heldout"} => run'.work = Committed,
         run'.stage \in {"after", "heldout"} =>
           run'.work = Committed \cup {run'.idea} /\ run'.idea \notin Committed,
         run'.stage \in {"previous", "edit", "after", "heldout"} => run'.idea \notin run.rejected
  PROVE  LoopInv'
<1>1. LoopTypes /\ LoopStages /\ LoopChain
  BY DEF LoopInv
<1>2. Committed' = Committed
  BY DEF Committed
<1>3. \A taken : OnFrozen(taken) => OnFrozen(taken)'
  BY DEF OnFrozen, Judge, Fingerprint
<1>4. LoopTypes'
  BY <1>1 DEF LoopTypes
<1>5. OnFrozen(run'.after) => OnFrozen(run.after)'
  BY DEF OnFrozen, Judge, Fingerprint
<1>6. OnFrozen(run.previous) => OnFrozen(run.previous)'
  BY DEF OnFrozen, Judge, Fingerprint
<1>7. LoopStages'
  BY <1>1, <1>2, <1>5, <1>6 DEF LoopStages
<1>8. LoopChain'
  BY <1>1 DEF LoopChain, Judge
<1> QED BY <1>4, <1>7, <1>8 DEF LoopInv

(* What a comparable run has measured is on the frozen inputs.              *)
LEMMA ReportRight ==
  ASSUME NEW passed \in SUBSET Cases, NEW drift \in BOOLEAN, Comparable
  PROVE  /\ Report(passed, drift).score \in Nat /\ OnFrozen(Report(passed, drift))
<1>1. IsFiniteSet(passed)
  BY LoopAssumption, FS_Subset
<1>2. Cardinality(passed) \in Nat
  BY <1>1, FS_CardinalityType
<1>3. reference.inputs = cases
  BY DEF Comparable
<1> QED BY <1>2, <1>3 DEF Report, OnFrozen

(* A run that stops keeps its branch.                                       *)
LEMMA StopKeepsLoop ==
  ASSUME LoopInv, run # Resting, NEW decision, Stop(decision)
  PROVE  LoopInv'
<1>1. LoopTypes /\ LoopStages /\ LoopChain
  BY DEF LoopInv
<1>2. /\ run' = [run EXCEPT !.stage = "stopped", !.work = Committed] /\ UNCHANGED Judge
  BY DEF Stop
<1>3. /\ DOMAIN run' = LoopRunFields /\ run'.stage = "stopped" /\ run'.work = Committed
      /\ \A f \in LoopRunFields \ {"stage", "work"} : run'[f] = run[f]
  BY <1>1, <1>2 DEF LoopTypes, LoopRunFields
<1>4. /\ run'.branch = run.branch /\ run'.previous = run.previous /\ run'.first = run.first
      /\ run'.gain = run.gain /\ run'.identity = run.identity /\ run'.rejected = run.rejected
      /\ run'.number = run.number /\ run'.after = run.after
  BY <1>3 DEF LoopRunFields
<1>5. run'.stage # Resting.stage
  BY <1>3 DEF Resting
<1> QED BY <1>1, <1>2, <1>3, <1>4, <1>5, StageKeepsLoop DEF LoopTypes

(* Every commit is earned on what was measured before.                      *)
LEMMA DecidingKeepsLoop ==
  ASSUME LoopInv, NEW heldout \in BOOLEAN, DecideRound(heldout)
  PROVE  LoopInv'
<1>1. LoopTypes /\ LoopStages /\ LoopChain /\ run # Resting
  BY DEF LoopInv, DecideRound
<1> PICK gain : gain = Gain
  OBVIOUS
<1> PICK stage \in {"stopped", "next"} : \E none : run' = [run EXCEPT
         !.branch = IF Earned(heldout)
                    THEN Append(@, [text |-> run.work, heldout |-> heldout,
                                    before |-> run.previous, after |-> run.after])
                    ELSE @,
         !.gain = IF Earned(heldout) THEN @ + gain ELSE @,
         !.previous = IF Earned(heldout) THEN run.after ELSE @,
         !.work = IF Earned(heldout) THEN @ ELSE Committed,
         !.rejected = IF Earned(heldout) THEN @ ELSE @ \cup {run.idea},
         !.noGain = none, !.stage = stage]
  BY DEF DecideRound
<1> PICK none : run' = [run EXCEPT
         !.branch = IF Earned(heldout)
                    THEN Append(@, [text |-> run.work, heldout |-> heldout,
                                    before |-> run.previous, after |-> run.after])
                    ELSE @,
         !.gain = IF Earned(heldout) THEN @ + gain ELSE @,
         !.previous = IF Earned(heldout) THEN run.after ELSE @,
         !.work = IF Earned(heldout) THEN @ ELSE Committed,
         !.rejected = IF Earned(heldout) THEN @ ELSE @ \cup {run.idea},
         !.noGain = none, !.stage = stage]
  OBVIOUS
<1>2. UNCHANGED Judge /\ run.stage = "heldout" /\ Fingerprint = run.identity
  BY DEF DecideRound
<1>3. /\ DOMAIN run' = LoopRunFields /\ run'.stage = stage /\ run'.first = run.first
      /\ run'.identity = run.identity /\ run'.number = run.number /\ run'.idea = run.idea
      /\ run'.after = run.after
      /\ run'.branch = IF Earned(heldout)
                       THEN Append(run.branch, [text |-> run.work, heldout |-> heldout,
                                         before |-> run.previous, after |-> run.after])
                       ELSE run.branch
      /\ run'.gain = IF Earned(heldout) THEN run.gain + gain ELSE run.gain
      /\ run'.previous = IF Earned(heldout) THEN run.after ELSE run.previous
      /\ run'.work = IF Earned(heldout) THEN run.work ELSE Committed
      /\ run'.rejected = IF Earned(heldout) THEN run.rejected ELSE run.rejected \cup {run.idea}
  BY <1>1 DEF LoopTypes, LoopRunFields
<1>4. run'.stage # Resting.stage
  BY <1>3 DEF Resting
<1>5. \A taken : OnFrozen(taken) /\ ~swapped => taken.inputs = reference.inputs
  BY <1>2 DEF OnFrozen
<1>6. (OnFrozen(run.previous) => OnFrozen(run.previous)') \/ Earned(heldout)
  BY <1>2, <1>3 DEF OnFrozen, Judge, Fingerprint
<1>7. CASE ~Earned(heldout)
  <2>1. Committed' = Committed
    BY <1>3, <1>7 DEF Committed
  <2>2. LoopTypes'
    BY <1>1, <1>3, <1>7 DEF LoopTypes
  <2>3. LoopStages'
    BY <1>1, <1>2, <1>3, <1>6, <1>7, <2>1 DEF LoopStages
  <2>4. LoopChain'
    BY <1>1, <1>2, <1>3, <1>7 DEF LoopChain, Judge
  <2> QED BY <2>2, <2>3, <2>4 DEF LoopInv
<1>8. CASE Earned(heldout)
  <2> DEFINE new == [text |-> run.work, heldout |-> heldout,
                     before |-> run.previous, after |-> run.after]
  <2>0. /\ new.text = run.work /\ new.heldout = heldout
        /\ new.before = run.previous /\ new.after = run.after
    OBVIOUS
  <2>00. run'.branch = Append(run.branch, new)
    BY <1>3, <1>8
  <2> HIDE DEF new
  <2> PICK n \in Nat : n = Len(run.branch) /\ (run.branch = <<>> <=> n = 0)
    <3>1. PICK S : run.branch \in Seq(S)
      BY <1>1 DEF LoopTypes
    <3> QED BY <3>1
  <2>1. /\ \E S : run'.branch \in Seq(S)
        /\ Len(run'.branch) = n + 1 /\ run'.branch[n + 1] = new /\ run'.branch # <<>>
        /\ \A i \in 1..n : run'.branch[i] = run.branch[i]
    <3>1. PICK S : run.branch \in Seq(S)
      BY <1>1 DEF LoopTypes
    <3>3. run'.branch \in Seq(S \cup {new})
      BY <3>1, <2>00
    <3> QED BY <3>1, <2>00, <3>3
  <2>2. Committed' = run.work
    BY <2>0, <2>1 DEF Committed
  <2>3. run.after.pass /\ heldout /\ gain >= 1 /\ gain = run.after.score - run.previous.score
    BY <1>8 DEF Earned, Gain
  <2>4. LoopTypes'
    BY <1>1, <1>3, <1>8, <2>1 DEF LoopTypes
  <2>5. run.after.score > run.previous.score /\ run.previous.score # -1
    BY <1>1, <1>2, <2>3 DEF LoopTypes, LoopStages
  <2>6. swapped \/ run.after.inputs = run.previous.inputs
    BY <1>1, <1>2, <1>5, <2>5 DEF LoopStages
  <2>7. OnFrozen(run.after)'
    <3>1. OnFrozen(run.after)
      BY <1>1, <1>2 DEF LoopStages
    <3> QED BY <1>2, <1>3, <3>1 DEF OnFrozen, Judge, Fingerprint
  <2>8. run'.previous = run.after /\ run'.rejected = run.rejected /\ run'.work = run.work
    BY <1>3, <1>8
  <2>9. OnFrozen(run.previous)'
    BY <1>3, <2>7, <2>8 DEF OnFrozen
  <2>10. run.work \cap run.rejected = {}
    BY <1>1, <1>2 DEF LoopStages
  <2>11. run'.previous.score # -1 \/ run'.branch # <<>>
    BY <2>1
  <2>12. LoopStages'
    <3>1. run'.previous.score # -1
      <4>1. run.previous.score \in Nat \cup {-1} /\ run.after.score \in Nat \cup {-1}
        BY <1>1 DEF LoopTypes
      <4> QED BY <2>5, <2>8, <4>1
    <3> QED BY <1>3, <2>1, <2>2, <2>8, <2>9, <2>10, <3>1 DEF LoopStages
  <2>13. LoopChain'
    <3>1. \A i \in 1..(n + 1) : i \in 1..n \/ i = n + 1
      OBVIOUS
    <3>2. new.before = IF n + 1 = 1 THEN run'.first ELSE run'.branch[n].after
      BY <1>1, <1>3, <2>0, <2>1 DEF LoopChain
    <3>3. \A i \in 1..n : i = 1 \/ i - 1 \in 1..n
      OBVIOUS
    <3>4. \A i \in 1..(n + 1) :
             LET c == run'.branch[i]
             IN /\ c.heldout
                /\ c.after.pass
                /\ c.after.score > c.before.score
                /\ swapped \/ c.after.inputs = c.before.inputs
                /\ c.before = IF i = 1 THEN run'.first ELSE run'.branch[i - 1].after
      <4>1. ASSUME NEW i \in 1..n
            PROVE  LET c == run'.branch[i]
                   IN /\ c.heldout
                      /\ c.after.pass
                      /\ c.after.score > c.before.score
                      /\ swapped \/ c.after.inputs = c.before.inputs
                      /\ c.before = IF i = 1 THEN run'.first ELSE run'.branch[i - 1].after
        BY <1>1, <1>3, <2>1, <3>3 DEF LoopChain
      <4>2. ASSUME NEW i \in 1..(n + 1), i = n + 1
            PROVE  LET c == run'.branch[i]
                   IN /\ c.heldout
                      /\ c.after.pass
                      /\ c.after.score > c.before.score
                      /\ swapped \/ c.after.inputs = c.before.inputs
                      /\ c.before = IF i = 1 THEN run'.first ELSE run'.branch[i - 1].after
        <5>1. i - 1 = n /\ run'.branch[i] = new
          BY <4>2, <2>1
        <5>2. new.before = IF i = 1 THEN run'.first ELSE run'.branch[i - 1].after
          BY <4>2, <3>2, <5>1
        <5>3. /\ new.heldout /\ new.after.pass /\ new.after.score > new.before.score
              /\ swapped \/ new.after.inputs = new.before.inputs
          BY <2>0, <2>3, <2>5, <2>6
        <5> QED BY <5>1, <5>2, <5>3
      <4> QED BY <3>1, <4>1, <4>2
    <3>5. run'.gain = run'.previous.score - run'.first.score
      <4>1. run.gain = IF n = 0 THEN 0 ELSE run.previous.score - run.first.score
        BY <1>1 DEF LoopChain
      <4>2. n = 0 => run.previous = run.first
        BY <1>1 DEF LoopChain
      <4>3. run'.gain = run.gain + gain /\ run'.first = run.first
        BY <1>3, <1>8
      <4>4. run.previous.score \in Int /\ run.after.score \in Int /\ run.first.score \in Int
        BY <1>1 DEF LoopTypes
      <4>5. run.gain = run.previous.score - run.first.score
        BY <4>1, <4>2, <4>4
      <4>6. PICK a \in Int, b \in Int, f \in Int :
               a = run.after.score /\ b = run.previous.score /\ f = run.first.score
        BY <4>4
      <4>7. gain = a - b /\ run.gain = b - f
        BY <2>3, <4>5, <4>6
      <4>8. run.gain + gain = a - f
        BY <4>7
      <4> QED BY <2>8, <4>3, <4>6, <4>8
    <3>6. run'.previous = run'.branch[n + 1].after
      BY <2>0, <2>1, <2>8
    <3>7. swapped' = swapped
      BY <1>2 DEF Judge
    <3> QED BY <2>1, <3>4, <3>5, <3>6, <3>7 DEF LoopChain
  <2> QED BY <2>4, <2>12, <2>13 DEF LoopInv
<1> QED BY <1>7, <1>8

(* The stages between two decisions.                                        *)
LEMMA StagesKeepLoop ==
  ASSUME LoopInv, run # Resting, NEW fields \in SUBSET LoopRunFields, UNCHANGED Judge,
         DOMAIN run' = DOMAIN run, \A f \in LoopRunFields \ fields : run'[f] = run[f],
         fields \subseteq {"stage", "number", "idea", "after", "work"},
         run'.number \in 0..MaxRounds, run'.after.score \in Nat \cup {-1},
         run'.stage \in {"next", "previous", "edit", "after", "heldout", "stopped"},
         run'.stage \in {"edit", "after", "heldout"} => run.previous.score # -1,
         run'.stage = "previous" => run.previous.score = -1,
         run'.stage = "heldout" => OnFrozen(run'.after),
         run'.stage \notin {"after", "heldout"} => run'.work = Committed,
         run'.stage \in {"after", "heldout"} =>
           run'.work = Committed \cup {run'.idea} /\ run'.idea \notin Committed,
         run'.stage \in {"previous", "edit", "after", "heldout"} => run'.idea \notin run.rejected
  PROVE  LoopInv'
<1>1. LoopTypes
  BY DEF LoopInv
<1>2. /\ run'.branch = run.branch /\ run'.previous = run.previous /\ run'.first = run.first
      /\ run'.gain = run.gain /\ run'.identity = run.identity /\ run'.rejected = run.rejected
  BY DEF LoopRunFields
<1>3. run' # Resting
  <2>1. run'.stage # Resting.stage
    BY DEF Resting
  <2> QED BY <2>1
<1>4. DOMAIN run' = LoopRunFields
  BY <1>1 DEF LoopTypes
<1> QED BY <1>2, <1>3, <1>4, StageKeepsLoop

(* A proposal is accepted for measurement, or ends the run.                 *)
LEMMA ProposalsKeepLoop ==
  ASSUME LoopInv, NEW idea,
         \/ NextProposal(idea)
         \/ Exhausted
         \/ \E decision : InvalidProposal(idea, decision)
  PROVE  LoopInv'
<1>1. run # Resting /\ run.stage = "next" /\ LoopTypes /\ LoopStages
  BY DEF LoopInv, NextProposal, Exhausted, InvalidProposal
<1>2. run.work = Committed /\ run.after.score \in Nat \cup {-1} /\ run.number \in 0..MaxRounds
  BY <1>1 DEF LoopTypes, LoopStages
<1>3. CASE run' = [run EXCEPT !.stage = "stopped"] /\ UNCHANGED Judge
  <2>1. /\ DOMAIN run' = DOMAIN run /\ run'.stage = "stopped"
        /\ \A f \in LoopRunFields \ {"stage"} : run'[f] = run[f]
    BY <1>1, <1>3 DEF LoopTypes, LoopRunFields
  <2>2. run'.work = run.work /\ run'.after = run.after /\ run'.number = run.number
    BY <2>1 DEF LoopRunFields
  <2>3. {"stage"} \in SUBSET LoopRunFields
    BY DEF LoopRunFields
  <2> QED BY <1>1, <1>2, <1>3, <2>1, <2>2, <2>3, StagesKeepLoop
<1>4. CASE NextProposal(idea) /\ idea \notin run.rejected
  <2> DEFINE fields == {"number", "idea", "stage"}
  <2>1. /\ run' = [run EXCEPT !.number = @ + 1, !.idea = idea,
                          !.stage = IF run.previous.score = -1 THEN "previous" ELSE "edit"]
        /\ UNCHANGED Judge /\ run.number < MaxRounds
    BY <1>4 DEF NextProposal
  <2>2. /\ DOMAIN run' = DOMAIN run
        /\ run'.stage = IF run.previous.score = -1 THEN "previous" ELSE "edit"
        /\ run'.idea = idea /\ run'.number = run.number + 1
        /\ \A f \in LoopRunFields \ fields : run'[f] = run[f]
    BY <1>1, <2>1 DEF LoopTypes, LoopRunFields
  <2>3. run'.work = run.work /\ run'.after = run.after
    BY <2>2 DEF LoopRunFields
  <2>4. run'.number \in 0..MaxRounds
    BY <1>2, <2>1, <2>2, LoopAssumption
  <2>5. fields \in SUBSET LoopRunFields /\ fields \subseteq {"stage", "number", "idea", "after", "work"}
    BY DEF LoopRunFields
  <2> HIDE DEF fields
  <2> QED BY <1>1, <1>2, <1>4, <2>1, <2>2, <2>3, <2>4, <2>5, StagesKeepLoop
<1> QED BY <1>3, <1>4 DEF NextProposal, Exhausted, InvalidProposal

(* The first measurement of a run is where its chain starts.                *)
LEMMA FirstMeasurementKeepsLoop ==
  ASSUME LoopInv, MeasurePrevious
  PROVE  LoopInv'
<1>1. run # Resting /\ run.stage = "previous" /\ LoopTypes /\ LoopStages /\ LoopChain
  BY DEF LoopInv, MeasurePrevious
<1>2. CASE Stop("rejected")
  BY <1>1, <1>2, StopKeepsLoop
<1>3. ASSUME NEW passed \in SUBSET Cases, NEW drift \in BOOLEAN, Comparable, UNCHANGED Judge,
             run' = [run EXCEPT !.stage = "edit", !.previous = Report(passed, drift),
                                !.first = Report(passed, drift)]
      PROVE  LoopInv'
  <2> PICK taken : /\ taken = Report(passed, drift)
                    /\ taken.score \in Nat /\ OnFrozen(taken)
    BY <1>3, ReportRight
  <2>1. /\ DOMAIN run' = LoopRunFields
        /\ run'.stage = "edit" /\ run'.previous = taken /\ run'.first = taken
        /\ \A f \in LoopRunFields \ {"stage", "previous", "first"} : run'[f] = run[f]
    BY <1>1, <1>3 DEF LoopTypes, LoopRunFields
  <2>2. /\ run'.branch = run.branch /\ run'.gain = run.gain /\ run'.identity = run.identity
        /\ run'.rejected = run.rejected /\ run'.number = run.number /\ run'.work = run.work
        /\ run'.after = run.after /\ run'.idea = run.idea
    BY <2>1 DEF LoopRunFields
  <2>3. run.branch = <<>> /\ Len(run.branch) = 0
    BY <1>1 DEF LoopStages
  <2>4. LoopTypes'
    BY <1>1, <2>1, <2>2 DEF LoopTypes
  <2>5. OnFrozen(run.previous)'
    BY <1>3, <2>1, <2>2 DEF OnFrozen, Judge, Fingerprint
  <2>6. Committed' = Committed
    BY <2>2 DEF Committed
  <2>7. run'.previous.score # -1
    BY <2>1
  <2>8. LoopStages'
    BY <1>1, <2>1, <2>2, <2>5, <2>6, <2>7 DEF LoopStages
  <2>9. LoopChain'
    BY <1>1, <2>1, <2>2, <2>3 DEF LoopChain
  <2> QED BY <2>4, <2>8, <2>9 DEF LoopInv
<1> QED BY <1>2, <1>3 DEF MeasurePrevious

(* The edit and the measurement after it.                                   *)
LEMMA EditKeepsLoop ==
  ASSUME LoopInv, ApplyEdit
  PROVE  LoopInv'
<1>1. run # Resting /\ run.stage = "edit" /\ LoopTypes /\ LoopStages
  BY DEF LoopInv, ApplyEdit
<1>2. CASE \E decision : Stop(decision)
  BY <1>1, <1>2, StopKeepsLoop
<1>3. CASE run' = [run EXCEPT !.stage = "after", !.work = @ \cup {run.idea}] /\ UNCHANGED Judge
           /\ run.idea \notin run.work
  <2> DEFINE fields == {"stage", "work"}
  <2>1. /\ DOMAIN run' = DOMAIN run /\ run'.stage = "after"
        /\ run'.work = run.work \cup {run.idea}
        /\ \A f \in LoopRunFields \ fields : run'[f] = run[f]
    BY <1>1, <1>3 DEF LoopTypes, LoopRunFields
  <2>2. run'.idea = run.idea /\ run'.after = run.after /\ run'.number = run.number
    BY <2>1 DEF LoopRunFields
  <2>3. run.work = Committed /\ run.idea \notin run.rejected /\ run.previous.score # -1
    BY <1>1 DEF LoopStages
  <2>4. run.after.score \in Nat \cup {-1} /\ run.number \in 0..MaxRounds
    BY <1>1 DEF LoopTypes
  <2>5. fields \in SUBSET LoopRunFields /\ fields \subseteq {"stage", "number", "idea", "after", "work"}
    BY DEF LoopRunFields
  <2> HIDE DEF fields
  <2> QED BY <1>1, <1>3, <2>1, <2>2, <2>3, <2>4, <2>5, StagesKeepLoop
<1> QED BY <1>2, <1>3 DEF ApplyEdit

LEMMA SecondMeasurementKeepsLoop ==
  ASSUME LoopInv, LoopMeasureAfter
  PROVE  LoopInv'
<1>1. run # Resting /\ run.stage = "after" /\ LoopTypes /\ LoopStages
  BY DEF LoopInv, LoopMeasureAfter
<1>2. CASE Stop("rejected")
  BY <1>1, <1>2, StopKeepsLoop
<1>3. ASSUME NEW passed \in SUBSET Cases, NEW drift \in BOOLEAN, Comparable, UNCHANGED Judge,
             run' = [run EXCEPT !.stage = "heldout", !.after = Report(passed, drift)]
      PROVE  LoopInv'
  <2> PICK taken : /\ taken = Report(passed, drift)
                    /\ taken.score \in Nat /\ OnFrozen(taken)
    BY <1>3, ReportRight
  <2> DEFINE fields == {"stage", "after"}
  <2>1. /\ DOMAIN run' = DOMAIN run /\ run'.stage = "heldout" /\ run'.after = taken
        /\ \A f \in LoopRunFields \ fields : run'[f] = run[f]
    BY <1>1, <1>3 DEF LoopTypes, LoopRunFields
  <2>2. run'.idea = run.idea /\ run'.work = run.work /\ run'.number = run.number
    BY <2>1 DEF LoopRunFields
  <2>3. /\ run.work = Committed \cup {run.idea} /\ run.idea \notin Committed
        /\ run.idea \notin run.rejected /\ run.previous.score # -1
    BY <1>1 DEF LoopStages
  <2>4. run.number \in 0..MaxRounds
    BY <1>1 DEF LoopTypes
  <2>5. fields \in SUBSET LoopRunFields /\ fields \subseteq {"stage", "number", "idea", "after", "work"}
    BY DEF LoopRunFields
  <2> HIDE DEF fields
  <2> QED BY <1>1, <1>3, <2>1, <2>2, <2>3, <2>4, <2>5, StagesKeepLoop
<1> QED BY <1>2, <1>3 DEF LoopMeasureAfter

LEMMA StartingKeepsLoop ==
  ASSUME StartRun
  PROVE  LoopInv'
<1>1. PICK rejected, identity :
         run' = [stage |-> "next", identity |-> identity, number |-> 0, rejected |-> rejected,
               noGain |-> 0, previous |-> [score |-> -1],
               first |-> [score |-> -1], branch |-> <<>>, work |-> {},
               idea |-> "none", after |-> [score |-> -1], gain |-> 0]
  BY DEF StartRun
<1>2. Committed' = {}
  BY <1>1 DEF Committed
<1>3. LoopTypes'
  <2>1. DOMAIN run' = LoopRunFields
    BY <1>1 DEF LoopRunFields
  <2>2. \E S : run'.branch \in Seq(S)
    <3>1. <<>> \in Seq({})
      OBVIOUS
    <3> QED BY <1>1, <3>1
  <2> QED BY <1>1, <2>1, <2>2, LoopAssumption DEF LoopTypes
<1>4. LoopStages'
  BY <1>1, <1>2 DEF LoopStages
<1>5. LoopChain'
  BY <1>1 DEF LoopChain
<1> QED BY <1>3, <1>4, <1>5 DEF LoopInv

LEMMA LoopHolds ==
  ASSUME LoopInv, [LoopNext]_loopVars
  PROVE  LoopInv'
<1>1. CASE UNCHANGED loopVars
  BY <1>1 DEF loopVars, LoopInv, LoopTypes, LoopStages, LoopChain, Committed, OnFrozen, Fingerprint
<1>2. CASE RecordBaseline \/ (\E passed \in SUBSET Cases : RecordReference(passed)) \/ Curate
  BY <1>2, JudgeKeepsLoop DEF RecordBaseline, RecordReference, Curate
<1>3. CASE StartRun
  BY <1>3, StartingKeepsLoop
<1>4. CASE Exhausted \/ \E idea \in LoopIdeas :
          \/ NextProposal(idea)
          \/ \E decision \in {"rejected", "review_required"} : InvalidProposal(idea, decision)
  BY <1>4, ProposalsKeepLoop
<1>5. CASE MeasurePrevious \/ ApplyEdit \/ LoopMeasureAfter
  BY <1>5, FirstMeasurementKeepsLoop, EditKeepsLoop, SecondMeasurementKeepsLoop
<1>6. CASE \E heldout \in BOOLEAN : DecideRound(heldout)
  BY <1>6, DecidingKeepsLoop
<1>7. CASE HeldoutInvalid
  BY <1>7, StopKeepsLoop DEF HeldoutInvalid
<1>8. CASE RunOver
  BY <1>8 DEF RunOver, LoopInv
<1> QED BY <1>1, <1>2, <1>3, <1>4, <1>5, <1>6, <1>7, <1>8 DEF LoopNext

LEMMA LoopSafe ==
  ASSUME LoopInv
  PROVE  LoopEarnsItsCommits
<1> SUFFICES ASSUME run # Resting
             PROVE  LoopEarnsItsCommits
  BY DEF LoopEarnsItsCommits
<1>1. LoopTypes /\ LoopStages /\ LoopChain
  BY DEF LoopInv
<1>2. PICK S : run.branch \in Seq(S)
  BY <1>1 DEF LoopTypes
<1>3. DOMAIN run.branch = 1..Len(run.branch)
  BY <1>2
<1>4. run.number <= MaxRounds
  BY <1>1, LoopAssumption DEF LoopTypes
<1>5. run.stage \in {"next", "stopped"} => run.work = Committed
  BY <1>1 DEF LoopStages
<1>6. Committed \cap run.rejected = {}
  BY <1>1 DEF LoopStages
<1> QED BY <1>1, <1>3, <1>4, <1>5, <1>6 DEF LoopEarnsItsCommits, LoopChain


(***************************************************************************)
(* The measurement of a maintenance skill                                  *)
(***************************************************************************)

WorkFiles == [component : 0..2, tests : 0..1]

(* An episode: its files are in the fixture's range, and a pass was earned. *)
EpisodeRight ==
  episode # NoEpisode =>
    /\ DOMAIN episode = {"step", "files", "trace", "graded"}
    /\ episode.step \in Nat
    /\ episode.files \in WorkFiles
    /\ episode.trace \in Seq([op : {"write", "run"}, files : WorkFiles])
    /\ EpisodeProven

MeasureFileFields == {"mode", "judge", "skill", "absent", "installed", "committed", "pass"}

(* A frozen file is a measurement of its own mode.  The baseline measures   *)
(* nothing with the skill; the reference was compared with the baseline.    *)
FrozenRight ==
  /\ DOMAIN frozen = {"baseline", "reference"}
  /\ \A m \in {"baseline", "reference"} :
       frozen[m] # MeasureNoFile => DOMAIN frozen[m] = MeasureFileFields
  /\ frozen["baseline"] # MeasureNoFile =>
       frozen["baseline"].installed = {} /\ ~frozen["baseline"].pass
  /\ frozen["reference"] # MeasureNoFile =>
       /\ frozen["baseline"] # MeasureNoFile
       /\ frozen["reference"].judge = frozen["baseline"].judge
       /\ frozen["reference"].pass =>
            /\ frozen["reference"].absent = frozen["baseline"].absent
            /\ HeldoutCases \subseteq frozen["reference"].installed
            /\ frozen["reference"].absent \cap PublicCases \subseteq frozen["reference"].installed

(* The measurement in progress: what it is compared with is there and made  *)
(* by its judge, what it will freeze is not there yet.                      *)
MeasureRight ==
  measure # MeasureQuiet =>
    /\ DOMAIN measure = {"mode", "judge", "skill", "todo", "passed"}
    /\ measure.mode \in {"baseline", "reference", "run"}
    /\ measure.mode # "run" => frozen[measure.mode] = MeasureNoFile
    /\ measure.mode = "baseline" => frozen["reference"] = MeasureNoFile
    /\ measure.mode # "baseline" =>
         frozen["baseline"] # MeasureNoFile /\ frozen["baseline"].judge = measure.judge
    /\ measure.mode = "run" =>
         frozen["reference"] # MeasureNoFile /\ frozen["reference"].judge = measure.judge
    /\ \E S : measure.todo \in Seq(S)
    /\ measure.mode = "baseline" =>
         /\ \A i \in 1..Len(measure.todo) : measure.todo[i][2] = "absent"
         /\ \A e \in measure.passed : e[2] = "absent"

MeasureInv == EpisodeRight /\ FrozenRight /\ MeasureRight /\ ReportComparable

LEMMA FunctionIsSequence ==
  ASSUME NEW S, NEW k \in Nat, NEW f \in [1..k -> S]
  PROVE  f \in Seq(S)
OBVIOUS

LEMMA ElementOfSequence ==
  ASSUME NEW S, NEW s \in Seq(S), NEW i \in 1..Len(s)
  PROVE  s[i] \in S
OBVIOUS

LEMMA EpisodeGoesOn ==
  ASSUME EpisodeRight, episode # NoEpisode, NEW op \in {"write", "run"}, NEW next \in WorkFiles,
         TakeTurn(op, next)
  PROVE  EpisodeRight'
<1> DEFINE turn == [op |-> op, files |-> next]
<1>1. turn \in [op : {"write", "run"}, files : WorkFiles]
  OBVIOUS
<1>2. /\ episode' = [episode EXCEPT !.step = @ + 1, !.files = next, !.trace = Append(@, turn)]
      /\ episode.graded = "no"
  BY DEF TakeTurn
<1> HIDE DEF turn
<1>3. /\ DOMAIN episode' = {"step", "files", "trace", "graded"}
      /\ episode'.step = episode.step + 1 /\ episode'.files = next
      /\ episode'.trace = Append(episode.trace, turn) /\ episode'.graded = "no"
  BY <1>2 DEF EpisodeRight
<1>4. episode'.trace \in Seq([op : {"write", "run"}, files : WorkFiles])
  BY <1>1, <1>3 DEF EpisodeRight
<1>5. EpisodeProven'
  BY <1>3 DEF EpisodeProven
<1> QED BY <1>3, <1>4, <1>5 DEF EpisodeRight

LEMMA EpisodeIsGraded ==
  ASSUME EpisodeRight, NEW claims, NEW named \in BOOLEAN, FinishEpisode(claims, named)
  PROVE  EpisodeRight'
<1>1. /\ episode # NoEpisode /\ DOMAIN episode = {"step", "files", "trace", "graded"}
      /\ episode.files \in WorkFiles
      /\ episode.trace \in Seq([op : {"write", "run"}, files : WorkFiles])
  BY DEF EpisodeRight, FinishEpisode
<1>2. PICK pass \in BOOLEAN : /\ pass => Grade(claims, named)
                              /\ episode' = [episode EXCEPT !.graded = IF pass THEN "pass" ELSE "fail"]
  <2>1. (episode.step <= MaxSteps /\ Grade(claims, named)) \in BOOLEAN
    OBVIOUS
  <2> QED BY <2>1 DEF FinishEpisode
<1>3. /\ DOMAIN episode' = {"step", "files", "trace", "graded"}
      /\ episode'.step = episode.step /\ episode'.files = episode.files
      /\ episode'.trace = episode.trace
      /\ episode'.graded = IF pass THEN "pass" ELSE "fail"
  BY <1>1, <1>2
<1>4. ASSUME pass
      PROVE  \E i, j \in DOMAIN episode.trace :
               /\ i < j
               /\ episode.trace[i] = [op |-> "run", files |-> [component |-> 0, tests |-> 1]]
               /\ episode.trace[j] = [op |-> "run", files |-> episode.files]
               /\ episode.files = [component |-> 2, tests |-> 1]
  <2>1. Grade(claims, named)
    BY <1>2, <1>4
  <2>2. PICK i \in MeasureRuns, j \in MeasureRuns :
           /\ i < j
           /\ RunFiles(i).component = 0 /\ ~UnitPasses(RunFiles(i))
           /\ RunFiles(j) = episode.files
    BY <2>1 DEF Grade, VerifiedWorkspace, Fixture
  <2>3. i \in DOMAIN episode.trace /\ j \in DOMAIN episode.trace
    BY DEF MeasureRuns
  <2>40. DOMAIN episode.trace = 1..Len(episode.trace) /\ Len(episode.trace) \in Nat
    BY <1>1
  <2>4. /\ episode.trace[i] \in [op : {"write", "run"}, files : WorkFiles]
        /\ episode.trace[j] \in [op : {"write", "run"}, files : WorkFiles]
        /\ episode.trace[i].op = "run" /\ episode.trace[j].op = "run"
    <3>1. episode.trace[i].op = "run" /\ episode.trace[j].op = "run"
      BY DEF MeasureRuns
    <3>2. \A n \in 1..Len(episode.trace) :
             episode.trace[n] \in [op : {"write", "run"}, files : WorkFiles]
      BY <1>1, ElementOfSequence
    <3> QED BY <2>3, <2>40, <3>1, <3>2
  <2>5. episode.trace[i].files = [component |-> 0, tests |-> 1]
    <3>1. RunFiles(i) \in WorkFiles /\ RunFiles(i).tests # 0
      BY <2>2, <2>4 DEF RunFiles, UnitPasses
    <3> QED BY <2>2, <3>1 DEF RunFiles, WorkFiles
  <2>6. episode.files = [component |-> 2, tests |-> 1]
    <3>1. episode.files.component = 2
      BY <2>1 DEF Grade, ProbesPass
    <3>2. ~UnitPasses([episode.files EXCEPT !.component = 0])
      BY <2>1 DEF Grade, Fixture
    <3>3. episode.files.tests # 0
      BY <1>1, <3>2 DEF UnitPasses, WorkFiles
    <3> QED BY <1>1, <3>1, <3>3 DEF WorkFiles
  <2> QED BY <2>2, <2>3, <2>4, <2>5, <2>6 DEF RunFiles
<1>5. EpisodeProven'
  BY <1>3, <1>4 DEF EpisodeProven
<1> QED BY <1>1, <1>3, <1>5 DEF EpisodeRight

LEMMA EpisodeStep ==
  ASSUME EpisodeRight, [MeasureNext]_measureVars
  PROVE  EpisodeRight'
<1>1. CASE UNCHANGED episode
  BY <1>1 DEF EpisodeRight, EpisodeProven
<1>2. CASE BeginEpisode
  <2>1. episode' = [step |-> 1, files |-> Fixture, trace |-> <<>>, graded |-> "no"]
    BY <1>2 DEF BeginEpisode
  <2>2. <<>> \in Seq([op : {"write", "run"}, files : WorkFiles]) /\ Fixture \in WorkFiles
    BY DEF Fixture, WorkFiles
  <2>3. EpisodeProven'
    BY <2>1 DEF EpisodeProven
  <2> QED BY <2>1, <2>2, <2>3 DEF EpisodeRight
<1>3. CASE \/ \E v \in 0..2 : WriteFile("component", v)
           \/ \E v \in 0..1 : WriteFile("tests", v)
           \/ RunCheck
  <2>1. episode # NoEpisode /\ episode.files \in WorkFiles
    BY <1>3 DEF EpisodeRight, WriteFile, RunCheck
  <2>2. \A v \in 0..2 : [episode.files EXCEPT !["component"] = v] \in WorkFiles
    BY <2>1 DEF WorkFiles
  <2>3. \A v \in 0..1 : [episode.files EXCEPT !["tests"] = v] \in WorkFiles
    BY <2>1 DEF WorkFiles
  <2>4. CASE RunCheck
    BY <2>1, <2>4, EpisodeGoesOn DEF RunCheck
  <2>5. CASE \E v \in 0..2 : WriteFile("component", v)
    BY <2>1, <2>2, <2>5, EpisodeGoesOn DEF WriteFile
  <2>6. CASE \E v \in 0..1 : WriteFile("tests", v)
    BY <2>1, <2>3, <2>6, EpisodeGoesOn DEF WriteFile
  <2> QED BY <1>3, <2>4, <2>5, <2>6
<1>4. CASE \E claims \in Claims, named \in BOOLEAN : FinishEpisode(claims, named)
  BY <1>4, EpisodeIsGraded
<1>5. CASE NextEpisode
  BY <1>5 DEF NextEpisode, EpisodeRight
<1>6. \/ UNCHANGED episode \/ BeginEpisode \/ RunCheck \/ NextEpisode
      \/ \E v \in 0..2 : WriteFile("component", v)
      \/ \E v \in 0..1 : WriteFile("tests", v)
      \/ \E claims \in Claims, named \in BOOLEAN : FinishEpisode(claims, named)
  BY DEF MeasureNext, measureVars, BeginMeasure, ReuseReference, EpisodeGraded, AbortMeasure,
         EndMeasure, CommitFrozen, Shift
<1> QED BY <1>1, <1>2, <1>3, <1>4, <1>5, <1>6

(* A measurement starts.                                                    *)
LEMMA MeasureStarts ==
  ASSUME FrozenRight, ReportComparable,
         NEW mode \in {"baseline", "reference", "run"}, BeginMeasure(mode)
  PROVE  FrozenRight' /\ MeasureRight' /\ ReportComparable'
<1>1. /\ measure' = [mode |-> mode, judge |-> judge, skill |-> skillText,
                     todo |-> Episodes(mode), passed |-> {}]
      /\ MayStart(mode) /\ UNCHANGED <<frozen, report>>
  BY DEF BeginMeasure
<1>2. FrozenRight' /\ ReportComparable'
  BY <1>1 DEF FrozenRight, ReportComparable, MeasureNoFile, HeldoutCases, PublicCases
<1>3. mode = "baseline" => frozen["reference"] = MeasureNoFile
  BY <1>1 DEF MayStart, FrozenRight
<1> PICK n \in Nat : \E order : Episodes(mode) =
           IF mode = "baseline"
           THEN [i \in 1..n |-> <<order[i], "absent">>]
           ELSE [i \in 1..2 * n |->
                    <<order[(i + 1) \div 2], IF i % 2 = 1 THEN "absent" ELSE "installed">>]
  <2> PICK order : order = PublicOrder \o HeldoutOrder
    OBVIOUS
  <2>1. PublicOrder \o HeldoutOrder \in Seq(PublicCases \cup HeldoutCases)
    <3>1. PublicOrder \in Seq(PublicCases \cup HeldoutCases)
      BY MeasureAssumption
    <3>2. HeldoutOrder \in Seq(PublicCases \cup HeldoutCases)
      BY MeasureAssumption
    <3> QED BY <3>1, <3>2
  <2>2. Len(order) \in Nat
    BY <2>1
  <2> QED BY <2>2 DEF Episodes
<1> PICK order : Episodes(mode) =
           IF mode = "baseline"
           THEN [i \in 1..n |-> <<order[i], "absent">>]
           ELSE [i \in 1..2 * n |->
                    <<order[(i + 1) \div 2], IF i % 2 = 1 THEN "absent" ELSE "installed">>]
  OBVIOUS
<1>4. \E S : Episodes(mode) \in Seq(S)
  <2>1. PICK k \in Nat : \E f : Episodes(mode) = [i \in 1..k |-> f[i]]
    <3>1. CASE mode = "baseline"
      <4> DEFINE f == [i \in 1..n |-> <<order[i], "absent">>]
      <4>1. Episodes(mode) = [i \in 1..n |-> f[i]]
        BY <3>1
      <4> HIDE DEF f
      <4> QED BY <4>1
    <3>2. CASE mode # "baseline"
      <4> DEFINE f == [i \in 1..2 * n |->
                    <<order[(i + 1) \div 2], IF i % 2 = 1 THEN "absent" ELSE "installed">>]
      <4>1. Episodes(mode) = [i \in 1..2 * n |-> f[i]]
        BY <3>2
      <4>2. 2 * n \in Nat
        OBVIOUS
      <4> HIDE DEF f
      <4> QED BY <4>1, <4>2
    <3> QED BY <3>1, <3>2
  <2>2. PICK f : Episodes(mode) = [i \in 1..k |-> f[i]]
    BY <2>1
  <2> DEFINE S == {f[i] : i \in 1..k}
  <2>3. [i \in 1..k |-> f[i]] \in [1..k -> S]
    OBVIOUS
  <2> HIDE DEF S
  <2>4. Episodes(mode) \in Seq(S)
    BY <2>2, <2>3, FunctionIsSequence
  <2> QED BY <2>4
<1>5. mode = "baseline" => \A i \in 1..Len(Episodes(mode)) : Episodes(mode)[i][2] = "absent"
  <2>1. mode = "baseline" => Episodes(mode) = [i \in 1..n |-> <<order[i], "absent">>]
    OBVIOUS
  <2> QED BY <2>1
<1>6. MeasureRight'
  BY <1>1, <1>3, <1>4, <1>5 DEF MeasureRight, MayStart, MeasureUsable
<1> QED BY <1>2, <1>6

(* An episode of the measurement is graded.                                 *)
LEMMA GradesKeepMeasure ==
  ASSUME MeasureRight, FrozenRight, NEW pass \in BOOLEAN, EpisodeGraded(pass)
  PROVE  MeasureRight'
<1>1. /\ measure # MeasureQuiet /\ measure.todo # <<>> /\ UNCHANGED frozen
      /\ measure' = [measure EXCEPT !.todo = Tail(@),
                       !.passed = IF pass THEN @ \cup {Head(measure.todo)} ELSE @]
  BY DEF EpisodeGraded
<1>2. /\ DOMAIN measure' = DOMAIN measure /\ measure'.todo = Tail(measure.todo)
      /\ measure'.passed = IF pass THEN measure.passed \cup {Head(measure.todo)} ELSE measure.passed
      /\ measure'.mode = measure.mode /\ measure'.judge = measure.judge
  BY <1>1 DEF MeasureRight
<1>3. PICK S : measure.todo \in Seq(S)
  BY <1>1 DEF MeasureRight
<1>4. /\ Tail(measure.todo) \in Seq(S) /\ Head(measure.todo) = measure.todo[1]
      /\ 1 \in 1..Len(measure.todo)
      /\ \A i \in 1..Len(Tail(measure.todo)) :
           i + 1 \in 1..Len(measure.todo) /\ Tail(measure.todo)[i] = measure.todo[i + 1]
  BY <1>1, <1>3
<1> QED BY <1>1, <1>2, <1>4 DEF MeasureRight

(* A measurement is over: what is frozen is right, and so is the report.    *)
LEMMA MeasureEnds ==
  ASSUME MeasureRight, FrozenRight, ReportComparable, EndMeasure
  PROVE  FrozenRight' /\ MeasureRight' /\ ReportComparable'
<1>1. measure # MeasureQuiet /\ measure' = MeasureQuiet
  BY DEF EndMeasure
<1>2. MeasureRight'
  BY <1>1 DEF MeasureRight
<1>3. CASE UNCHANGED <<report, frozen>>
  BY <1>3, <1>2 DEF FrozenRight, ReportComparable
<1> DEFINE pass == measure.mode # "baseline" /\ ~Regressed
           file == [mode |-> measure.mode, judge |-> measure.judge,
                    skill |-> measure.skill, absent |-> AbsentPassed,
                    installed |-> InstalledPassed, committed |-> FALSE, pass |-> pass]
<1>4. /\ DOMAIN file = MeasureFileFields /\ file.judge = measure.judge
      /\ file.absent = AbsentPassed /\ file.installed = InstalledPassed /\ file.pass = pass
  BY DEF MeasureFileFields
<1>5. file # MeasureNoFile
  BY <1>4 DEF MeasureNoFile, MeasureFileFields
<1>6. CASE measure.mode = "run" /\ report' = file /\ UNCHANGED frozen
  <2>1. FrozenRight'
    BY <1>6 DEF FrozenRight
  <2>2. /\ frozen["baseline"] # MeasureNoFile /\ frozen["baseline"].judge = measure.judge
        /\ frozen["reference"] # MeasureNoFile /\ frozen["reference"].judge = measure.judge
        /\ frozen["baseline"].installed = {}
    BY <1>1, <1>6 DEF MeasureRight, FrozenRight
  <2>3. pass => /\ AbsentPassed = frozen["baseline"].absent
                /\ HeldoutCases \subseteq InstalledPassed
                /\ AbsentPassed \cap PublicCases \subseteq InstalledPassed
                /\ frozen["reference"].installed \cap PublicCases \subseteq InstalledPassed
    BY <1>6 DEF Regressed
  <2> HIDE DEF pass, file
  <2>4. ReportComparable'
    BY <1>4, <1>6, <2>2, <2>3 DEF ReportComparable
  <2> QED BY <1>2, <2>1, <2>4
<1>7. CASE /\ measure.mode # "run" /\ UNCHANGED report
           /\ frozen' = [frozen EXCEPT ![measure.mode] = file]
  <2>1. measure.mode \in {"baseline", "reference"} /\ frozen[measure.mode] = MeasureNoFile
    BY <1>1, <1>7 DEF MeasureRight
  <2>2. frozen["reference"] = MeasureNoFile
    BY <1>1, <1>7, <2>1 DEF MeasureRight
  <2>3. report = MeasureNoFile \/ ~report.pass
    BY <2>2 DEF ReportComparable
  <2>4. ReportComparable'
    BY <1>7, <2>3 DEF ReportComparable
  <2>5. CASE measure.mode = "baseline"
    <3>1. InstalledPassed = {}
      <4>1. \A e \in measure.passed : e[2] = "absent"
        BY <1>1, <2>5 DEF MeasureRight
      <4> QED BY <4>1 DEF InstalledPassed
    <3>2. ~pass
      BY <2>5
    <3> HIDE DEF pass, file
    <3>3. /\ DOMAIN frozen' = {"baseline", "reference"} /\ frozen'["baseline"] = file
          /\ frozen'["reference"] = MeasureNoFile
      BY <1>7, <2>2, <2>5 DEF FrozenRight
    <3> QED BY <1>2, <1>4, <2>4, <3>1, <3>2, <3>3 DEF FrozenRight
  <2>6. CASE measure.mode = "reference"
    <3>1. /\ frozen["baseline"] # MeasureNoFile /\ frozen["baseline"].judge = measure.judge
      BY <1>1, <2>6 DEF MeasureRight
    <3>2. pass => /\ AbsentPassed = frozen["baseline"].absent
                  /\ HeldoutCases \subseteq InstalledPassed
                  /\ AbsentPassed \cap PublicCases \subseteq InstalledPassed
      BY <2>6 DEF Regressed
    <3> HIDE DEF pass, file
    <3>3. /\ DOMAIN frozen' = {"baseline", "reference"} /\ frozen'["reference"] = file
          /\ frozen'["baseline"] = frozen["baseline"]
      BY <1>7, <2>6 DEF FrozenRight
    <3> QED BY <1>2, <1>4, <1>5, <2>4, <3>1, <3>2, <3>3 DEF FrozenRight
  <2> QED BY <2>1, <2>5, <2>6
<1>8. \/ UNCHANGED <<report, frozen>>
      \/ measure.mode = "run" /\ report' = file /\ UNCHANGED frozen
      \/ /\ measure.mode # "run" /\ UNCHANGED report
         /\ frozen' = [frozen EXCEPT ![measure.mode] = file]
  BY DEF EndMeasure
<1> QED BY <1>3, <1>6, <1>7, <1>8

(* Committing a frozen file leaves what it says.                            *)
LEMMA CommittingKeepsFrozen ==
  ASSUME MeasureRight, FrozenRight, ReportComparable,
         NEW mode \in {"baseline", "reference"}, CommitFrozen(mode)
  PROVE  FrozenRight' /\ MeasureRight' /\ ReportComparable'
<1>1. /\ frozen[mode] # MeasureNoFile /\ UNCHANGED <<measure, report>>
      /\ frozen' = [frozen EXCEPT ![mode].committed = TRUE]
  BY DEF CommitFrozen
<1>2. PICK old : /\ old = frozen[mode] /\ DOMAIN old = MeasureFileFields
  BY <1>1 DEF FrozenRight
<1> DEFINE file == [old EXCEPT !.committed = TRUE]
<1>3. /\ DOMAIN file = MeasureFileFields
      /\ \A f \in MeasureFileFields \ {"committed"} : file[f] = old[f]
  BY <1>2
<1>4. frozen' = [frozen EXCEPT ![mode] = file]
  BY <1>1, <1>2
<1> HIDE DEF file
<1>5. /\ file.judge = old.judge /\ file.absent = old.absent /\ file.installed = old.installed
      /\ file.pass = old.pass
  BY <1>3 DEF MeasureFileFields
<1>6. file # MeasureNoFile
  BY <1>3 DEF MeasureNoFile, MeasureFileFields
<1>7. /\ DOMAIN frozen' = {"baseline", "reference"}
      /\ \A m \in {"baseline", "reference"} :
           /\ frozen'[m] = MeasureNoFile <=> frozen[m] = MeasureNoFile
           /\ frozen[m] # MeasureNoFile =>
                /\ DOMAIN frozen'[m] = MeasureFileFields
                /\ frozen'[m].judge = frozen[m].judge /\ frozen'[m].absent = frozen[m].absent
                /\ frozen'[m].installed = frozen[m].installed /\ frozen'[m].pass = frozen[m].pass
  BY <1>1, <1>2, <1>3, <1>4, <1>5, <1>6 DEF FrozenRight
<1>8. FrozenRight'
  BY <1>7 DEF FrozenRight
<1>9. MeasureRight'
  BY <1>1, <1>7 DEF MeasureRight
<1>10. ReportComparable'
  BY <1>1, <1>7 DEF ReportComparable
<1> QED BY <1>8, <1>9, <1>10

(* The report of a passing reference is used again.                         *)
LEMMA ReusingKeepsReport ==
  ASSUME FrozenRight, ReuseReference
  PROVE  ReportComparable'
<1>1. /\ frozen["reference"] # MeasureNoFile /\ frozen["reference"].pass
      /\ report' = frozen["reference"] /\ UNCHANGED frozen
  BY DEF ReuseReference, MeasureUsable
<1> QED BY <1>1 DEF ReportComparable, FrozenRight

LEMMA MeasureHolds ==
  ASSUME MeasureInv, [MeasureNext]_measureVars
  PROVE  MeasureInv'
<1>1. EpisodeRight'
  BY EpisodeStep DEF MeasureInv
<1>2. CASE UNCHANGED <<measure, frozen, report>>
  BY <1>1, <1>2 DEF MeasureInv, FrozenRight, MeasureRight, ReportComparable
<1>3. CASE \E mode \in {"baseline", "reference", "run"} : BeginMeasure(mode)
  BY <1>1, <1>3, MeasureStarts DEF MeasureInv
<1>4. CASE ReuseReference
  <2>1. UNCHANGED <<measure, frozen>>
    BY <1>4 DEF ReuseReference
  <2>2. FrozenRight' /\ MeasureRight'
    BY <2>1 DEF MeasureInv, FrozenRight, MeasureRight
  <2> QED BY <1>1, <1>4, <2>2, ReusingKeepsReport DEF MeasureInv
<1>5. CASE \E pass \in BOOLEAN : EpisodeGraded(pass)
  <2>1. UNCHANGED <<report, frozen>>
    BY <1>5 DEF EpisodeGraded
  <2>2. FrozenRight' /\ ReportComparable'
    BY <2>1 DEF MeasureInv, FrozenRight, ReportComparable
  <2> QED BY <1>1, <1>5, <2>2, GradesKeepMeasure DEF MeasureInv
<1>6. CASE AbortMeasure
  BY <1>1, <1>6 DEF AbortMeasure, MeasureInv, FrozenRight, MeasureRight, ReportComparable
<1>7. CASE EndMeasure
  BY <1>1, <1>7, MeasureEnds DEF MeasureInv
<1>8. CASE \E mode \in {"baseline", "reference"} : CommitFrozen(mode)
  BY <1>1, <1>8, CommittingKeepsFrozen DEF MeasureInv
<1>9. \/ UNCHANGED <<measure, frozen, report>>
      \/ \E mode \in {"baseline", "reference", "run"} : BeginMeasure(mode)
      \/ ReuseReference
      \/ \E pass \in BOOLEAN : EpisodeGraded(pass)
      \/ AbortMeasure \/ EndMeasure
      \/ \E mode \in {"baseline", "reference"} : CommitFrozen(mode)
  BY DEF MeasureNext, measureVars, BeginEpisode, WriteFile, RunCheck, TakeTurn, FinishEpisode,
         NextEpisode, Shift
<1> QED BY <1>2, <1>3, <1>4, <1>5, <1>6, <1>7, <1>8, <1>9

LEMMA MeasureBegins ==
  ASSUME MeasureInit
  PROVE  MeasureInv
<1>1. EpisodeRight
  BY DEF MeasureInit, EpisodeRight
<1>2. FrozenRight /\ MeasureRight /\ ReportComparable
  BY DEF MeasureInit, FrozenRight, MeasureRight, ReportComparable
<1> QED BY <1>1, <1>2 DEF MeasureInv

LEMMA MeasureSafe ==
  ASSUME MeasureInv
  PROVE  MeasurementsHonest
BY DEF MeasureInv, EpisodeRight, EpisodeProven, MeasurementsHonest


(***************************************************************************)
(* Recursive functions over a list                                         *)
(***************************************************************************)

LEMMA LeastOfNaturals ==
  ASSUME NEW S, S \subseteq Nat, S # {}
  PROVE  \E i \in S : \A k \in S : i <= k
<1> DEFINE R == OpToRel(<, Nat)
<1>1. IsWellFoundedOn(R, Nat)
  BY NatLessThanWellFounded
<1>2. PICK x \in S : \A y \in S : ~(<<y, x>> \in R)
  <2> HIDE DEF R
  <2> QED BY <1>1, WFMin
<1>3. \A y \in S : y < x => <<y, x>> \in R
  BY DEF OpToRel
<1>4. \A a \in Nat, b \in Nat : ~(b < a) => a <= b
  OBVIOUS
<1> HIDE DEF R
<1>5. \A k \in S : x <= k
  BY <1>2, <1>3, <1>4
<1> QED BY <1>5

(* Going through a list one step after the other is a function.             *)
StepByStep(D, N, base, G) ==
  \E f \in [0..N -> D] : f = [n \in 0..N |-> IF n = 0 THEN base ELSE G[n][f[n - 1]]]

LEMMA StepsDefineAFunction ==
  ASSUME NEW D, NEW N \in Nat, NEW base \in D, NEW G \in [1..N -> [D -> D]]
  PROVE  StepByStep(D, N, base, G)
<1> DEFINE Upto(f, k) == /\ f \in [0..k -> D] /\ f[0] = base
                         /\ \A n \in 1..k : f[n] = G[n][f[n - 1]]
           T == {k \in 0..N : ~ \E f : Upto(f, k)}
<1>0. T \subseteq Nat
  OBVIOUS
<1>1. ASSUME T # {} PROVE FALSE
  <2>1. PICK k \in T : \A l \in T : k <= l
    <3> HIDE DEF T
    <3> QED BY <1>0, <1>1, LeastOfNaturals
  <2>2. CASE k = 0
    <3>1. Upto([n \in 0..0 |-> base], 0)
      OBVIOUS
    <3> QED BY <2>2, <3>1
  <2>3. CASE k # 0
    <3>1. k \in Nat /\ k - 1 \in 0..N /\ k \in 1..N /\ k - 1 < k
      BY <2>3
    <3>2. PICK f : Upto(f, k - 1)
      <4>1. k - 1 \notin T
        <5> HIDE DEF T
        <5> QED BY <2>1, <3>1, <1>0
      <4> HIDE DEF Upto
      <4> QED BY <3>1, <4>1
    <3> DEFINE g == [n \in 0..k |-> IF n = k THEN G[k][f[k - 1]] ELSE f[n]]
    <3>3. G[k][f[k - 1]] \in D
      BY <3>1, <3>2
    <3>4. g \in [0..k -> D]
      BY <3>1, <3>2, <3>3
    <3>5. g[0] = base
      BY <2>3, <3>1, <3>2
    <3>6. ASSUME NEW n \in 1..k PROVE g[n] = G[n][g[n - 1]]
      <4>1. n - 1 \in 0..k /\ n - 1 # k /\ g[n - 1] = f[n - 1]
        BY <3>1
      <4>2. CASE n = k
        BY <4>1, <4>2
      <4>3. CASE n # k
        <5>1. n \in 1..(k - 1)
          BY <3>1, <4>3
        <5> QED BY <3>1, <3>2, <4>1, <4>3, <5>1
      <4> QED BY <4>2, <4>3
    <3>7. Upto(g, k)
      BY <3>4, <3>5, <3>6
    <3> QED BY <3>7
  <2> QED BY <2>2, <2>3
<1>2. PICK f : Upto(f, N)
  <2>1. N \notin T
    BY <1>1
  <2> HIDE DEF Upto
  <2> QED BY <2>1
<1>3. \A n \in 0..N : f[n] = IF n = 0 THEN base ELSE G[n][f[n - 1]]
  BY <1>2
<1> QED BY <1>2, <1>3 DEF StepByStep

(***************************************************************************)
(* The governed memory                                                     *)
(***************************************************************************)

Entries ==
  [firstSeen : Nat \cup {-1}, lastUsed : Nat \cup {-1}, restored : Nat \cup {-1},
   archived : {"no", "sweep", "owner"}, pinned : BOOLEAN]

LongUnused(entry) ==
  \A d \in {entry.lastUsed, entry.restored} : day - d >= 2 * DecayDays \/ d = Never

EntryKept(entry) ==
  /\ entry.pinned => entry.archived = "no"
  /\ entry.archived = "sweep" => LongUnused(entry)

(* What a task was given: within its limits and in the order of the ranking. *)
TaskServed ==
  LET chosen == retrieval.selected
      served == {chosen[i].skill : i \in DOMAIN chosen}
      bodies == {i \in DOMAIN chosen : chosen[i].body}
  IN /\ Len(chosen) <= RuleTopK
     /\ Len(chosen) + 2 * Cardinality(bodies) <= Budget
     /\ \A s \in served : usage[s].archived = "no"
     /\ \A i, j \in DOMAIN retrieval.ranked :
           i < j /\ retrieval.ranked[j] \in served => retrieval.ranked[i] \in served

UsageKept ==
  /\ day \in Nat
  /\ usage \in [Skills -> Entries]
  /\ \A s \in Skills : EntryKept(usage[s])
  /\ retrieval = NoRetrieval \/ TaskServed

LEMMA SeenKept ==
  ASSUME UsageKept
  PROVE  /\ Seen \in [Skills -> Entries]
         /\ \A s \in Skills : Seen[s].firstSeen # Never /\ EntryKept(Seen[s])
<1> SUFFICES ASSUME NEW s \in Skills
             PROVE  Seen[s] \in Entries /\ Seen[s].firstSeen # Never /\ EntryKept(Seen[s])
  BY DEF Seen
<1>1. CASE usage[s].firstSeen # Never
  BY <1>1 DEF Seen, UsageKept
<1>2. CASE usage[s].firstSeen = Never
  <2>1. Seen[s] = [firstSeen |-> day, lastUsed |-> Never, restored |-> Never,
                   archived |-> "no", pinned |-> s \in PinnedSkills]
    BY <1>2 DEF Seen
  <2>2. (s \in PinnedSkills) \in BOOLEAN /\ day \in Nat
    BY DEF UsageKept
  <2>3. Seen[s] \in Entries
    BY <2>1, <2>2 DEF Entries, Never
  <2> QED BY <2>1, <2>2, <2>3 DEF EntryKept, Never
<1> QED BY <1>1, <1>2

(* What is inactive for long was neither used nor restored since.           *)
LEMMA InactiveMeansUnused ==
  ASSUME NEW entry \in Entries, entry.firstSeen # Never, day \in Nat,
         Inactive(entry) >= 2 * DecayDays
  PROVE  LongUnused(entry)
<1> DEFINE dates == {entry.firstSeen, entry.lastUsed, entry.restored} \ {Never}
           latest == CHOOSE d \in dates : \A e \in dates : e <= d
<1>1. dates \subseteq Nat /\ dates # {}
  BY DEF Entries, Never
<1>2. \E d \in dates : \A e \in dates : e <= d
  <2> PICK a, b, c : a = entry.firstSeen /\ b = entry.lastUsed /\ c = entry.restored
    OBVIOUS
  <2>1. a \in Nat /\ b \in Nat \cup {-1} /\ c \in Nat \cup {-1}
    BY DEF Entries, Never
  <2>2. dates = {a, b, c} \ {-1}
    BY DEF Never
  <2> HIDE DEF dates
  <2>3. \E d \in {a, b, c} \ {-1} : \A e \in {a, b, c} \ {-1} : e <= d
    <3>1. CASE a >= b /\ a >= c
      BY <2>1, <3>1
    <3>2. CASE b >= a /\ b >= c
      BY <2>1, <3>2
    <3>3. CASE c >= a /\ c >= b
      BY <2>1, <3>3
    <3> QED BY <2>1, <3>1, <3>2, <3>3
  <2> QED BY <2>2, <2>3
<1>3. latest \in dates /\ \A e \in dates : e <= latest
  BY <1>2
<1>4. day - latest >= 2 * DecayDays
  BY DEF Inactive
<1> HIDE DEF latest
<1>5. ASSUME NEW d \in {entry.lastUsed, entry.restored}, d # Never
      PROVE  day - d >= 2 * DecayDays
  <2>1. d \in dates /\ d <= latest /\ d \in Nat /\ latest \in Nat
    BY <1>1, <1>3, <1>5
  <2> QED BY <1>4, <2>1, SkillMemoryAssumption
<1> QED BY <1>5 DEF LongUnused

LEMMA SweptKept ==
  ASSUME day \in Nat, NEW entries \in [Skills -> Entries],
         \A s \in Skills : entries[s].firstSeen # Never /\ EntryKept(entries[s])
  PROVE  /\ Swept(entries) \in [Skills -> Entries]
         /\ \A s \in Skills : EntryKept(Swept(entries)[s])
<1> SUFFICES ASSUME NEW s \in Skills
             PROVE  Swept(entries)[s] \in Entries /\ EntryKept(Swept(entries)[s])
  BY DEF Swept
<1> PICK entry \in Entries : entry = entries[s]
  OBVIOUS
<1>1. CASE ~Expired(entry)
  BY <1>1 DEF Swept
<1>2. CASE Expired(entry)
  <2>1. Swept(entries)[s] = [entry EXCEPT !.archived = "sweep"]
    BY <1>2 DEF Swept
  <2>2. LongUnused(entry) /\ ~entry.pinned
    BY <1>2, InactiveMeansUnused DEF Expired
  <2> DEFINE new == [entry EXCEPT !.archived = "sweep"]
  <2>3. new \in Entries /\ new.lastUsed = entry.lastUsed /\ new.restored = entry.restored
        /\ new.pinned = entry.pinned
    BY DEF Entries
  <2> HIDE DEF new
  <2>4. EntryKept(new)
    BY <2>2, <2>3 DEF EntryKept, LongUnused
  <2> QED BY <2>1, <2>3, <2>4 DEF new
<1> QED BY <1>1, <1>2

(* Choosing the skills of a task: what is chosen is the head of the ranking *)
(* until there is no room left.                                             *)
Chosen == [skill : Skills, body : BOOLEAN]

Bodies(rows) == {i \in 1..Len(rows) : rows[i].body}

Choice == [rows : Seq(Chosen), used : Nat]

ChosenUpto(acc, ranked, k) ==
  /\ Len(acc.rows) <= k
  /\ Len(acc.rows) <= RuleTopK
  /\ acc.used = Len(acc.rows) + 2 * Cardinality(Bodies(acc.rows)) /\ acc.used <= Budget
  /\ \A i \in 1..Len(acc.rows) : acc.rows[i].skill = ranked[i]
  /\ Len(acc.rows) = k \/ Len(acc.rows) >= RuleTopK \/ acc.used + 1 > Budget

LEMMA AddedIsChoice ==
  ASSUME NEW acc \in Choice, NEW skill \in Skills
  PROVE  Added(acc, skill) \in Choice
<1> DEFINE bodies == {b \in BOOLEAN : acc.used + Cost(b) <= Budget}
           body   == TRUE \in bodies
           row == [skill |-> skill, body |-> body]
<1>1. row \in Chosen
  BY DEF Chosen
<1>2. acc.rows \in Seq(Chosen) /\ acc.used \in Nat
  BY DEF Choice
<1>3. Cost(body) \in Nat
  BY DEF Cost
<1>4. Added(acc, skill) = IF Len(acc.rows) >= RuleTopK \/ bodies = {} THEN acc
                          ELSE [rows |-> Append(acc.rows, row), used |-> acc.used + Cost(body)]
  BY DEF Added
<1> HIDE DEF row, body, bodies
<1>5. Append(acc.rows, row) \in Seq(Chosen) /\ acc.used + Cost(body) \in Nat
  BY <1>1, <1>2, <1>3
<1> QED BY <1>4, <1>5 DEF Choice

LEMMA BodiesAppended ==
  ASSUME NEW rows \in Seq(Chosen), NEW row \in Chosen
  PROVE  /\ Cardinality(Bodies(rows)) \in Nat
         /\ Cardinality(Bodies(Append(rows, row))) =
              Cardinality(Bodies(rows)) + (IF row.body THEN 1 ELSE 0)
<1> PICK n \in Nat : n = Len(rows)
  OBVIOUS
<1> DEFINE more == Append(rows, row)
<1>1. /\ Len(more) = n + 1 /\ more[n + 1] = row
      /\ \A i \in 1..n : more[i] = rows[i]
  OBVIOUS
<1> HIDE DEF more
<1>2. \A i \in 1..(n + 1) : i \in 1..n \/ i = n + 1
  OBVIOUS
<1>3. n + 1 \in 1..(n + 1) /\ n + 1 \notin 1..n /\ 1..n \subseteq 1..(n + 1)
  OBVIOUS
<1>4. Bodies(more) = IF row.body THEN Bodies(rows) \cup {n + 1} ELSE Bodies(rows)
  BY <1>1, <1>2, <1>3 DEF Bodies
<1>5. IsFiniteSet(1..n)
  BY FS_Interval
<1>6. Bodies(rows) \subseteq 1..n
  BY DEF Bodies
<1>7. IsFiniteSet(Bodies(rows)) /\ n + 1 \notin Bodies(rows)
  BY <1>3, <1>5, <1>6, FS_Subset
<1>8. Cardinality(Bodies(rows)) \in Nat
  BY <1>7, FS_CardinalityType
<1>9. Cardinality(Bodies(rows) \cup {n + 1}) = Cardinality(Bodies(rows)) + 1
  BY <1>7, FS_AddElement
<1>10. Cardinality(Bodies(more)) = Cardinality(Bodies(rows)) + (IF row.body THEN 1 ELSE 0)
  BY <1>4, <1>8, <1>9
<1> QED BY <1>8, <1>10 DEF more

LEMMA AddedKeepsChoice ==
  ASSUME NEW acc \in Choice, NEW ranked \in Seq(Skills), NEW k \in 1..Len(ranked),
         ChosenUpto(acc, ranked, k - 1)
  PROVE  ChosenUpto(Added(acc, ranked[k]), ranked, k)
<1> DEFINE bodies == {b \in BOOLEAN : acc.used + Cost(b) <= Budget}
           body   == TRUE \in bodies
           row == [skill |-> ranked[k], body |-> body]
           next == [rows |-> Append(acc.rows, row), used |-> acc.used + Cost(body)]
<1>0. RuleTopK \in Nat /\ Budget \in Nat
  BY SkillMemoryAssumption
<1>1. acc.rows \in Seq(Chosen) /\ acc.used \in Nat
  BY DEF Choice
<1>2. row \in Chosen /\ row.skill = ranked[k] /\ row.body = body
  BY DEF Chosen
<1>3. Added(acc, ranked[k]) = IF Len(acc.rows) >= RuleTopK \/ bodies = {} THEN acc ELSE next
  BY DEF Added
<1>4. next.rows = Append(acc.rows, row) /\ next.used = acc.used + Cost(body)
  OBVIOUS
<1>5. CASE Len(acc.rows) >= RuleTopK \/ bodies = {}
  <2>1. Added(acc, ranked[k]) = acc
    BY <1>3, <1>5
  <2>2. ASSUME bodies = {} PROVE acc.used + 1 > Budget
    <3>1. ~(acc.used + 1 <= Budget)
      BY <2>2 DEF Cost
    <3> QED BY <1>0, <1>1, <3>1
  <2>3. Len(acc.rows) <= k
    BY <1>1 DEF ChosenUpto
  <2> QED BY <1>5, <2>1, <2>2, <2>3 DEF ChosenUpto
<1>6. CASE ~(Len(acc.rows) >= RuleTopK \/ bodies = {})
  <2>1. Added(acc, ranked[k]) = next
    BY <1>3, <1>6
  <2>2. body \in BOOLEAN /\ Cost(body) = (IF body THEN 3 ELSE 1) /\ acc.used + Cost(body) <= Budget
    BY <1>6 DEF Cost
  <2>3. acc.used + 1 <= Budget
    <3>1. PICK cost \in {1, 3} : acc.used + cost <= Budget
      BY <2>2
    <3> QED BY <1>0, <1>1, <3>1
  <2> HIDE DEF bodies, body, row, next
  <2> PICK n \in Nat : n = Len(acc.rows)
    BY <1>1
  <2>4. n = k - 1 /\ n < RuleTopK
    BY <1>1, <1>6, <2>3, SkillMemoryAssumption DEF ChosenUpto
  <2>5. /\ Len(next.rows) = n + 1 /\ next.rows[n + 1] = row
        /\ \A i \in 1..n : next.rows[i] = acc.rows[i]
    BY <1>1, <1>2, <1>4
  <2>6. \A i \in 1..(n + 1) : i \in 1..n \/ i = n + 1
    OBVIOUS
  <2>7. \A i \in 1..(n + 1) : next.rows[i].skill = ranked[i]
    <3>1. \A i \in 1..n : acc.rows[i].skill = ranked[i]
      BY DEF ChosenUpto
    <3>2. n + 1 = k
      BY <2>4
    <3> QED BY <1>2, <2>5, <2>6, <3>1, <3>2
  <2>8. next.used = (n + 1) + 2 * Cardinality(Bodies(next.rows))
    <3> PICK c \in Nat : c = Cardinality(Bodies(acc.rows))
      BY <1>1, <1>2, BodiesAppended
    <3>1. acc.used = n + 2 * c
      BY DEF ChosenUpto
    <3>2. Cardinality(Bodies(next.rows)) = c + (IF body THEN 1 ELSE 0)
      BY <1>1, <1>2, <1>4, BodiesAppended
    <3>3. CASE body
      BY <1>4, <2>2, <3>1, <3>2, <3>3
    <3>4. CASE ~body
      BY <1>4, <2>2, <3>1, <3>2, <3>4
    <3> QED BY <2>2, <3>3, <3>4
  <2>9. n + 1 = k /\ n + 1 <= RuleTopK
    BY <2>4, SkillMemoryAssumption
  <2>10. next.used \in Nat /\ next.used <= Budget
    BY <1>1, <1>4, <2>2
  <2>11. Len(next.rows) = k
    BY <2>5, <2>9
  <2>12. ChosenUpto(next, ranked, k)
    BY <1>0, <2>5, <2>7, <2>8, <2>9, <2>10, <2>11 DEF ChosenUpto
  <2> QED BY <2>1, <2>12
<1> QED BY <1>5, <1>6

LEMMA SelectRight ==
  ASSUME NEW ranked \in Seq(Skills)
  PROVE  LET chosen == Select(ranked)
         IN /\ chosen \in Seq(Chosen)
            /\ Len(chosen) <= Len(ranked) /\ Len(chosen) <= RuleTopK
            /\ Len(chosen) + 2 * Cardinality(Bodies(chosen)) <= Budget
            /\ \A i \in 1..Len(chosen) : chosen[i].skill = ranked[i]
<1> PICK N \in Nat : N = Len(ranked)
  OBVIOUS
<1> DEFINE base == [rows |-> <<>>, used |-> 0]
           G == [n \in 1..N |-> [acc \in Choice |-> Added(acc, ranked[n])]]
<1>1. base \in Choice
  BY DEF Choice
<1>2. G \in [1..N -> [Choice -> Choice]]
  BY AddedIsChoice
<1>3. PICK f \in [0..N -> Choice] : f = [n \in 0..N |-> IF n = 0 THEN base ELSE G[n][f[n - 1]]]
  <2> HIDE DEF G, base
  <2>1. StepByStep(Choice, N, base, G)
    BY <1>1, <1>2, StepsDefineAFunction
  <2> QED BY <2>1 DEF StepByStep
<1>4. ASSUME NEW n \in 0..N, n # 0 PROVE n - 1 \in 0..N /\ n \in 1..N
  BY <1>4
<1>5. f = [n \in 0..N |-> IF n = 0 THEN base ELSE Added(f[n - 1], ranked[n])]
  BY <1>3, <1>4
<1> DEFINE g == CHOOSE acc : acc = [n \in 0..N |-> IF n = 0 THEN base ELSE Added(acc[n - 1], ranked[n])]
<1>6. g = [n \in 0..N |-> IF n = 0 THEN base ELSE Added(g[n - 1], ranked[n])]
  BY <1>5
<1>7. Select(ranked) = g[N].rows
  BY DEF Select
<1> HIDE DEF g
<1> DEFINE Good(n) == g[n] \in Choice /\ ChosenUpto(g[n], ranked, n)
           T == {n \in 0..N : ~Good(n)}
<1>8. Good(0)
  <2>1. g[0] = base
    BY <1>6
  <2>2. Bodies(<<>>) = {} /\ Cardinality({}) = 0
    BY FS_EmptySet DEF Bodies
  <2>3. base.rows = <<>> /\ base.used = 0 /\ Len(base.rows) = 0
    OBVIOUS
  <2> HIDE DEF base, G
  <2>4. RuleTopK >= 0 /\ Budget >= 0
    BY SkillMemoryAssumption
  <2>5. Cardinality(Bodies(base.rows)) = 0
    BY <2>2, <2>3
  <2>6. ChosenUpto(base, ranked, 0)
    <3>1. Len(base.rows) <= 0 /\ Len(base.rows) <= RuleTopK /\ base.used <= Budget
      BY <2>3, <2>4
    <3>2. base.used = Len(base.rows) + 2 * Cardinality(Bodies(base.rows))
      BY <2>3, <2>5
    <3>3. \A i \in 1..Len(base.rows) : base.rows[i].skill = ranked[i]
      BY <2>3
    <3> QED BY <2>3, <3>1, <3>2, <3>3 DEF ChosenUpto
  <2> QED BY <1>1, <2>1, <2>6
<1>9. ASSUME NEW n \in 1..N, Good(n - 1) PROVE Good(n)
  <2>1. g[n] = Added(g[n - 1], ranked[n]) /\ ranked[n] \in Skills
    BY <1>6
  <2> HIDE DEF base
  <2> QED BY <1>9, <2>1, AddedIsChoice, AddedKeepsChoice
<1>10. T = {}
  <2> SUFFICES ASSUME T # {} PROVE FALSE
    OBVIOUS
  <2>1. T \subseteq Nat
    OBVIOUS
  <2>2. PICK k \in T : \A l \in T : k <= l
    <3> HIDE DEF T
    <3> QED BY <2>1, LeastOfNaturals
  <2>3. k \in 0..N /\ ~Good(k)
    OBVIOUS
  <2> HIDE DEF Good
  <2>4. k # 0 /\ k \in 1..N /\ k - 1 \in 0..N /\ k - 1 < k
    BY <1>8, <2>3
  <2>5. k - 1 \notin T
    <3> HIDE DEF T
    <3> QED BY <2>1, <2>2, <2>4
  <2> QED BY <1>9, <2>3, <2>4, <2>5
<1>11. Good(N)
  <2>1. N \notin T
    <3> HIDE DEF T
    <3> QED BY <1>10
  <2> HIDE DEF Good
  <2> QED BY <2>1
<1> PICK final \in Choice : final = g[N] /\ ChosenUpto(final, ranked, N)
  BY <1>11
<1> QED BY <1>7 DEF ChosenUpto, Choice

(* A ranking lists skills that are not archived, each once.                 *)
LEMMA RankingRight ==
  ASSUME NEW entries \in [Skills -> Entries], NEW matches \in [Skills -> 0..2],
         NEW ranked \in RankedSkills(entries, matches)
  PROVE  /\ ranked \in Seq(Skills)
         /\ \A n \in 1..Len(ranked) : entries[ranked[n]].archived = "no"
         /\ \A m, n \in 1..Len(ranked) : ranked[m] = ranked[n] => m = n
<1> DEFINE open == {i \in DOMAIN Library :
                      /\ entries[Library[i]].archived = "no"
                      /\ matches[Library[i]] > 0}
           w(i) == Weight(entries[Library[i]], matches[Library[i]])
           before(i, j) == w(i) > w(j) \/ (w(i) = w(j) /\ i < j)
<1>1. PICK order \in [1..Cardinality(open) -> open] :
         /\ \A m, n \in DOMAIN order : m < n => before(order[m], order[n])
         /\ ranked = [n \in DOMAIN order |-> Library[order[n]]]
  BY DEF RankedSkills
<1>2. DOMAIN Library = 1..Len(Library) /\ Len(Library) \in Nat
  BY SkillMemoryAssumption
<1>3. Cardinality(open) \in Nat
  <2>1. IsFiniteSet(1..Len(Library))
    BY <1>2, FS_Interval
  <2>2. open \subseteq 1..Len(Library)
    BY <1>2
  <2>3. IsFiniteSet(open)
    BY <2>1, <2>2, FS_Subset
  <2> QED BY <2>3, FS_CardinalityType
<1> PICK k \in Nat : k = Cardinality(open)
  BY <1>3
<1>4. \A i \in open : i \in Nat /\ i \in DOMAIN Library /\ w(i) \in Nat
         /\ Library[i] \in Skills /\ entries[Library[i]].archived = "no"
  <2> SUFFICES ASSUME NEW i \in open
               PROVE  /\ i \in Nat /\ i \in DOMAIN Library /\ w(i) \in Nat
                      /\ Library[i] \in Skills /\ entries[Library[i]].archived = "no"
    OBVIOUS
  <2>1. i \in DOMAIN Library /\ i \in Nat /\ Library[i] \in Skills
    BY <1>2 DEF Skills
  <2>2. matches[Library[i]] \in Nat
    BY <2>1
  <2>3. w(i) \in Nat
    BY <2>2 DEF Weight
  <2> QED BY <2>1, <2>3
<1> HIDE DEF open, w
<1>5. ranked = [n \in 1..k |-> Library[order[n]]] /\ \A n \in 1..k : order[n] \in open
  BY <1>1
<1>6. ranked \in [1..k -> Skills]
  BY <1>4, <1>5
<1>7. ranked \in Seq(Skills) /\ Len(ranked) = k
  BY <1>6
<1>8. ASSUME NEW m \in 1..k, NEW n \in 1..k, ranked[m] = ranked[n]
      PROVE  m = n
  <2>1. order[m] = order[n]
    BY <1>4, <1>5, <1>8, SkillMemoryAssumption
  <2>2. ~before(order[n], order[n])
    BY <1>4, <1>5
  <2>3. ~(m < n) /\ ~(n < m)
    BY <1>1, <2>1, <2>2
  <2> QED BY <2>3
<1> QED BY <1>4, <1>5, <1>7, <1>8

(* Taking skills up for a task.                                             *)
LEMMA RetrievingKeepsUsage ==
  ASSUME UsageKept, NEW matches \in [Skills -> 0..2], Retrieve(matches)
  PROVE  UsageKept'
<1> PICK entries : entries = Swept(Seen)
  OBVIOUS
<1>1. entries \in [Skills -> Entries] /\ \A s \in Skills : EntryKept(entries[s])
  BY SeenKept, SweptKept DEF UsageKept
<1> PICK ranked \in RankedSkills(entries, matches) :
     \E chosen \in {Select(ranked)} :
       /\ usage' = [s \in Skills |->
              IF \E i \in DOMAIN chosen : chosen[i].skill = s
              THEN [entries[s] EXCEPT !.lastUsed = day] ELSE entries[s]]
       /\ retrieval' = [ranked |-> ranked, selected |-> chosen]
       /\ day' = day
  BY DEF Retrieve
<1> PICK chosen :
       /\ chosen = Select(ranked)
       /\ usage' = [s \in Skills |->
              IF \E i \in DOMAIN chosen : chosen[i].skill = s
              THEN [entries[s] EXCEPT !.lastUsed = day] ELSE entries[s]]
       /\ retrieval' = [ranked |-> ranked, selected |-> chosen]
       /\ day' = day
  OBVIOUS
<1>2. /\ ranked \in Seq(Skills)
      /\ \A n \in 1..Len(ranked) : entries[ranked[n]].archived = "no"
      /\ \A m, n \in 1..Len(ranked) : ranked[m] = ranked[n] => m = n
  BY <1>1, RankingRight
<1>3. /\ chosen \in Seq(Chosen)
      /\ Len(chosen) <= Len(ranked) /\ Len(chosen) <= RuleTopK
      /\ Len(chosen) + 2 * Cardinality(Bodies(chosen)) <= Budget
      /\ \A i \in 1..Len(chosen) : chosen[i].skill = ranked[i]
  BY <1>2, SelectRight
<1>4. DOMAIN chosen = 1..Len(chosen) /\ Len(chosen) \in Nat /\ Len(ranked) \in Nat
      /\ DOMAIN ranked = 1..Len(ranked)
  BY <1>2, <1>3
<1>5. \A i \in 1..Len(chosen) : i \in 1..Len(ranked)
  BY <1>3, <1>4
<1>6. ASSUME NEW s \in Skills
      PROVE  usage'[s] \in Entries /\ EntryKept(usage[s])' /\ usage'[s].archived = entries[s].archived
  <2>1. CASE \E i \in DOMAIN chosen : chosen[i].skill = s
    <3> PICK entry \in Entries : entry = entries[s]
      BY <1>1
    <3>1. entry.archived = "no"
      BY <1>2, <1>3, <1>4, <1>5, <2>1
    <3> DEFINE new == [entry EXCEPT !.lastUsed = day]
    <3>2. new \in Entries /\ new.archived = "no"
      BY <3>1 DEF Entries, UsageKept
    <3>3. usage'[s] = new
      BY <2>1
    <3> HIDE DEF new
    <3> QED BY <3>1, <3>2, <3>3 DEF EntryKept
  <2>2. CASE ~ \E i \in DOMAIN chosen : chosen[i].skill = s
    BY <1>1, <2>2 DEF EntryKept, LongUnused
  <2> QED BY <2>1, <2>2
<1>7. usage' \in [Skills -> Entries]
  BY <1>6
<1>8. retrieval'.ranked = ranked /\ retrieval'.selected = chosen
  OBVIOUS
<1>9. TaskServed'
  <2> DEFINE served == {chosen[i].skill : i \in DOMAIN chosen}
  <2>1. {i \in DOMAIN chosen : chosen[i].body} = Bodies(chosen)
    BY <1>4 DEF Bodies
  <2>2. served = {ranked[i] : i \in 1..Len(chosen)}
    BY <1>3, <1>4
  <2>3. \A s \in served : usage'[s].archived = "no"
    <3>1. \A i \in 1..Len(chosen) : ranked[i] \in Skills /\ entries[ranked[i]].archived = "no"
      BY <1>2, <1>5
    <3> HIDE DEF served
    <3>2. \A s \in served : s \in Skills /\ entries[s].archived = "no"
      BY <2>2, <3>1
    <3> QED BY <1>6, <3>2
  <2>4. ASSUME NEW i \in DOMAIN ranked, NEW j \in DOMAIN ranked, i < j, ranked[j] \in served
        PROVE  ranked[i] \in served
    <3>1. PICK n \in 1..Len(chosen) : ranked[j] = ranked[n]
      BY <2>2, <2>4
    <3>2. j = n
      BY <1>2, <1>4, <1>5, <3>1
    <3>3. i \in 1..Len(chosen)
      BY <1>4, <2>4, <3>2
    <3> QED BY <2>2, <3>3
  <2> HIDE DEF served
  <2>5. served = {chosen[i].skill : i \in DOMAIN chosen}
    BY DEF served
  <2>6. /\ {retrieval'.selected[i].skill : i \in DOMAIN retrieval'.selected} = served
        /\ {i \in DOMAIN retrieval'.selected : retrieval'.selected[i].body} = Bodies(chosen)
        /\ Len(retrieval'.selected) = Len(chosen) /\ DOMAIN retrieval'.ranked = DOMAIN ranked
    BY <1>8, <2>1, <2>5
  <2>7. \A i, j \in DOMAIN ranked : i < j /\ ranked[j] \in served => ranked[i] \in served
    BY <2>4
  <2> QED BY <1>3, <1>8, <2>3, <2>6, <2>7 DEF TaskServed
<1> QED BY <1>6, <1>7, <1>9 DEF UsageKept

(* The other commands on the usage.                                         *)
LEMMA OneEntryChanges ==
  ASSUME UsageKept, UNCHANGED day, retrieval' = NoRetrieval,
         NEW s \in Skills, NEW entry \in Entries, EntryKept(entry),
         usage' = [Seen EXCEPT ![s] = entry]
  PROVE  UsageKept'
<1>1. Seen \in [Skills -> Entries] /\ \A t \in Skills : EntryKept(Seen[t])
  BY SeenKept
<1>2. usage' \in [Skills -> Entries] /\ \A t \in Skills : EntryKept(usage'[t])
  BY <1>1
<1>3. \A t \in Skills : EntryKept(usage[t])'
  BY <1>2 DEF EntryKept, LongUnused
<1> QED BY <1>2, <1>3 DEF UsageKept

LEMMA SkillingKeepsUsage ==
  ASSUME UsageKept, Skilling
  PROVE  UsageKept'
<1>1. CASE TaskStarted
  BY <1>1 DEF TaskStarted, UsageKept, EntryKept, LongUnused
<1>2. CASE \E matches \in [Skills -> 0..2] : Retrieve(matches)
  BY <1>2, RetrievingKeepsUsage
<1>3. CASE Sweep /\ retrieval = NoRetrieval
  <2>1. usage' \in [Skills -> Entries] /\ \A s \in Skills : EntryKept(usage'[s])
    BY <1>3, SeenKept, SweptKept DEF Sweep, UsageKept
  <2>2. UNCHANGED day /\ retrieval' = NoRetrieval
    BY <1>3 DEF Sweep
  <2>3. \A s \in Skills : EntryKept(usage[s])'
    BY <2>1, <2>2 DEF EntryKept, LongUnused
  <2> QED BY <2>1, <2>2, <2>3 DEF UsageKept
<1>4. ASSUME NEW s \in Skills, Restore(s) \/ Pin(s) \/ Unpin(s) \/ Archive(s), retrieval = NoRetrieval
      PROVE  UsageKept'
  <2> PICK entry \in Entries : entry = Seen[s] /\ EntryKept(entry)
    BY SeenKept
  <2>0. Seen \in [Skills -> Entries]
    BY SeenKept
  <2>1. UNCHANGED day /\ retrieval' = NoRetrieval /\ day \in Nat
    BY <1>4 DEF Restore, Pin, Unpin, Archive, UsageKept
  <2>2. CASE Restore(s)
    <3> DEFINE new == [entry EXCEPT !.archived = "no", !.restored = day]
    <3>1. new \in Entries /\ new.archived = "no"
      BY <2>1 DEF Entries
    <3>2. usage' = [Seen EXCEPT ![s] = new]
      BY <2>0, <2>2 DEF Restore
    <3> HIDE DEF new
    <3>3. EntryKept(new)
      BY <3>1 DEF EntryKept
    <3> QED BY <2>1, <3>1, <3>2, <3>3, OneEntryChanges
  <2>3. CASE Pin(s)
    <3> DEFINE new == [entry EXCEPT !.pinned = TRUE, !.archived = "no"]
    <3>1. new \in Entries /\ new.archived = "no"
      BY DEF Entries
    <3>2. usage' = [Seen EXCEPT ![s] = new]
      BY <2>0, <2>3 DEF Pin
    <3> HIDE DEF new
    <3>3. EntryKept(new)
      BY <3>1 DEF EntryKept
    <3> QED BY <2>1, <3>1, <3>2, <3>3, OneEntryChanges
  <2>4. CASE Unpin(s)
    <3> DEFINE new == [entry EXCEPT !.pinned = FALSE]
    <3>1. new \in Entries /\ ~new.pinned /\ new.archived = entry.archived
          /\ new.lastUsed = entry.lastUsed /\ new.restored = entry.restored
      BY DEF Entries
    <3>2. usage' = [Seen EXCEPT ![s] = new]
      BY <2>0, <2>4 DEF Unpin
    <3> HIDE DEF new
    <3>3. EntryKept(new)
      BY <3>1 DEF EntryKept, LongUnused
    <3> QED BY <2>1, <3>1, <3>2, <3>3, OneEntryChanges
  <2>5. CASE Archive(s)
    <3> DEFINE new == [entry EXCEPT !.archived = "owner"]
    <3>1. new \in Entries /\ new.archived = "owner" /\ new.pinned = entry.pinned
      BY DEF Entries
    <3>2. usage' = [Seen EXCEPT ![s] = new] /\ ~entry.pinned
      BY <2>0, <2>5 DEF Archive
    <3> HIDE DEF new
    <3>3. EntryKept(new)
      BY <3>1, <3>2 DEF EntryKept
    <3> QED BY <2>1, <3>1, <3>2, <3>3, OneEntryChanges
  <2> QED BY <1>4, <2>2, <2>3, <2>4, <2>5
<1>5. CASE NextDay /\ retrieval = NoRetrieval
  <2>1. /\ day' = day + 1 /\ day \in Nat /\ day' \in Nat
        /\ UNCHANGED usage /\ retrieval' = NoRetrieval
    BY <1>5 DEF NextDay, UsageKept
  <2>2. ASSUME NEW s \in Skills PROVE EntryKept(usage[s])'
    <3> PICK entry \in Entries : entry = usage[s] /\ EntryKept(entry)
      BY DEF UsageKept
    <3>1. ASSUME NEW d \in Nat \cup {-1}, day - d >= 2 * DecayDays PROVE day + 1 - d >= 2 * DecayDays
      BY <2>1, <3>1, SkillMemoryAssumption
    <3>2. entry.lastUsed \in Nat \cup {-1} /\ entry.restored \in Nat \cup {-1}
      BY DEF Entries
    <3>3. usage'[s] = entry
      BY <2>1
    <3> QED BY <2>1, <3>1, <3>2, <3>3 DEF EntryKept, LongUnused
  <2> QED BY <2>1, <2>2 DEF UsageKept
<1> QED BY <1>1, <1>2, <1>3, <1>4, <1>5 DEF Skilling

LEMMA UsageSafe ==
  ASSUME UsageKept
  PROVE  SkillsKept
<1>1. \A s \in Skills : usage[s].firstSeen # Never =>
          /\ usage[s].pinned => usage[s].archived = "no"
          /\ usage[s].archived = "sweep" =>
                \A d \in {usage[s].lastUsed, usage[s].restored} : day - d >= 2 * DecayDays \/ d = Never
  BY DEF UsageKept, EntryKept, LongUnused
<1>2. TaskServed
  <2>1. CASE retrieval = NoRetrieval
    <3>1. retrieval.selected = <<>> /\ retrieval.ranked = <<>>
      BY <2>1 DEF NoRetrieval
    <3>2. Len(<<>>) = 0 /\ DOMAIN <<>> = {}
      OBVIOUS
    <3>3. {i \in DOMAIN retrieval.selected : retrieval.selected[i].body} = {}
      BY <3>1, <3>2
    <3>4. {retrieval.selected[i].skill : i \in DOMAIN retrieval.selected} = {}
      BY <3>1, <3>2
    <3>5. Cardinality({}) = 0 /\ RuleTopK >= 0 /\ Budget >= 0
      BY FS_EmptySet, SkillMemoryAssumption
    <3>6. Len(retrieval.selected) = 0 /\ 0 + 2 * 0 <= Budget /\ DOMAIN retrieval.ranked = {}
      BY <3>1, <3>2, <3>5, SkillMemoryAssumption
    <3> QED BY <3>3, <3>4, <3>5, <3>6 DEF TaskServed
  <2> QED BY <2>1 DEF UsageKept
<1> QED BY <1>1, <1>2 DEF SkillsKept, TaskServed

(***************************************************************************)
(* The rules                                                               *)
(***************************************************************************)

StandingFor(text, pattern) == \E n \in 1..Len(text) : text[n].pattern = pattern

(* A proposal adds one rule of its pattern to the text it was made on.      *)
ProposalRight(p) ==
  /\ DOMAIN p = {"pattern", "row", "before", "after"}
  /\ p.pattern \in Patterns
  /\ \E S : p.before \in Seq(S)
  /\ \E rule : p.after = Append(p.before, rule) /\ rule.pattern = p.pattern
  /\ p.row.status = "open"

ProposalsRight ==
  /\ IsFiniteSet(proposals)
  /\ approvals \subseteq proposals
  /\ \A p \in proposals : ProposalRight(p)

LedgerRight ==
  /\ DOMAIN ledger = Patterns
  /\ \A p \in Patterns : ledger[p] = NoRow \/ DOMAIN ledger[p] = {"status", "sources"}

ApprovedText(text) == \A n \in 1..Len(text) : \E p \in approvals : p.after = SubSeq(text, 1, n)

Promoted(text) == \A p \in Patterns : ledger[p].status = "promoted" => StandingFor(text, p)

StandingRight ==
  /\ \E S : standing \in Seq(S)
  /\ ApprovedText(standing)
  /\ promoting = NobodyPromotes => Promoted(standing)

PromotingRight ==
  promoting # NobodyPromotes =>
    \E p \in approvals : /\ promoting = [stage |-> "ledger", proposal |-> p]
                         /\ standing = p.after /\ ledger[p.pattern] = p.row
                         /\ Promoted(p.before)

RulesInv == ProposalsRight /\ LedgerRight /\ StandingRight /\ PromotingRight

ExtendedBy(more, text, rule) ==
  /\ \E R : more \in Seq(R)
  /\ Len(text) \in Nat /\ Len(more) = Len(text) + 1
  /\ more[Len(text) + 1] = rule
  /\ \A n \in 1..Len(text) : more[n] = text[n]
  /\ \A n \in 1..Len(text) : SubSeq(more, 1, n) = SubSeq(text, 1, n)
  /\ SubSeq(more, 1, Len(text) + 1) = more

LEMMA PartOfSequence ==
  ASSUME NEW S, NEW s \in Seq(S), NEW n \in 1..Len(s)
  PROVE  SubSeq(s, 1, n) = [i \in 1..n |-> s[i]]
OBVIOUS

LEMMA SequenceIsFunction ==
  ASSUME NEW S, NEW s \in Seq(S)
  PROVE  s = [i \in 1..Len(s) |-> s[i]]
OBVIOUS

LEMMA AppendedText ==
  ASSUME NEW S, NEW text \in Seq(S), NEW rule
  PROVE  ExtendedBy(Append(text, rule), text, rule)
<1> PICK R : R = S \cup {rule}
  OBVIOUS
<1>1. text \in Seq(R) /\ rule \in R
  OBVIOUS
<1>2. Append(text, rule) \in Seq(R)
  BY <1>1
<1> PICK more \in Seq(R) : more = Append(text, rule)
  BY <1>2
<1> PICK k \in Nat : k = Len(text)
  OBVIOUS
<1>3. /\ Len(more) = k + 1 /\ more[k + 1] = rule
      /\ \A n \in 1..k : more[n] = text[n]
  OBVIOUS
<1>4. ASSUME NEW n \in 1..k PROVE SubSeq(more, 1, n) = SubSeq(text, 1, n)
  <2>1. SubSeq(more, 1, n) = [i \in 1..n |-> more[i]]
    BY <1>3, PartOfSequence
  <2>2. SubSeq(text, 1, n) = [i \in 1..n |-> text[i]]
    BY PartOfSequence
  <2>3. \A i \in 1..n : more[i] = text[i]
    BY <1>3
  <2> QED BY <2>1, <2>2, <2>3
<1>5. SubSeq(more, 1, k + 1) = more
  <2>1. SubSeq(more, 1, k + 1) = [i \in 1..(k + 1) |-> more[i]]
    BY <1>3, PartOfSequence
  <2>2. more = [i \in 1..(k + 1) |-> more[i]]
    BY <1>3, SequenceIsFunction
  <2> QED BY <2>1, <2>2
<1> QED BY <1>3, <1>4, <1>5 DEF ExtendedBy

LEMMA RulesBegin ==
  ASSUME SkillMemoryInit
  PROVE  RulesInv
<1>1. IsFiniteSet(proposals) /\ approvals \subseteq proposals /\ proposals = {}
  BY FS_EmptySet DEF SkillMemoryInit
<1>2. standing = <<>> /\ Len(standing) = 0 /\ \E S : standing \in Seq(S)
  <2>1. <<>> \in Seq({})
    OBVIOUS
  <2> QED BY <2>1 DEF SkillMemoryInit
<1>3. LedgerRight /\ Promoted(standing)
  BY DEF SkillMemoryInit, LedgerRight, Promoted, NoRow
<1>4. ApprovedText(standing)
  BY <1>2 DEF ApprovedText
<1> QED BY <1>1, <1>2, <1>3, <1>4
    DEF SkillMemoryInit, RulesInv, ProposalsRight, StandingRight, PromotingRight

LEMMA LearningKeepsRules ==
  ASSUME RulesInv, Learning
  PROVE  RulesInv'
<1> USE DEF RulesInv
<1>1. ASSUME NEW p \in Patterns, NEW source \in Sources, Capture(p, source)
      PROVE  RulesInv'
  <2>1. /\ promoting = NobodyPromotes
        /\ ledger' = [ledger EXCEPT ![p] = WithSource(@, source)]
        /\ UNCHANGED <<standing, proposals, approvals, promoting>>
    BY <1>1 DEF Capture
  <2> DEFINE row == WithSource(ledger[p], source)
  <2>2. /\ DOMAIN row = {"status", "sources"}
        /\ row.status = IF ledger[p] = NoRow THEN "open" ELSE ledger[p].status
    BY DEF LedgerRight, WithSource
  <2>3. ledger' = [ledger EXCEPT ![p] = row]
    BY <2>1
  <2> HIDE DEF row
  <2>4. /\ DOMAIN ledger' = Patterns /\ ledger'[p] = row
        /\ \A q \in Patterns \ {p} : ledger'[q] = ledger[q]
    BY <2>3 DEF LedgerRight
  <2>5. LedgerRight'
    BY <2>2, <2>4 DEF LedgerRight
  <2>6. Promoted(standing)'
    BY <2>1, <2>2, <2>4 DEF StandingRight, Promoted, StandingFor
  <2>7. ProposalsRight'
    BY <2>1 DEF ProposalsRight, ProposalRight
  <2> QED BY <2>1, <2>5, <2>6, <2>7 DEF StandingRight, PromotingRight, ApprovedText
<1>2. ASSUME NEW p \in Patterns, Propose(p)
      PROVE  RulesInv'
  <2> DEFINE new == [pattern |-> p, row |-> ledger[p], before |-> standing,
                     after |-> Append(standing, Rule(p))]
  <2>1. /\ promoting = NobodyPromotes /\ ledger[p].status = "open"
        /\ proposals' = proposals \cup {new}
        /\ UNCHANGED <<ledger, standing, approvals, promoting>>
    BY <1>2 DEF Propose
  <2>2. Rule(p).pattern = p
    BY DEF Rule
  <2>3. ProposalRight(new)
    BY <2>1, <2>2 DEF ProposalRight, StandingRight
  <2> HIDE DEF new
  <2>4. IsFiniteSet(proposals')
    BY <2>1, FS_AddElement DEF ProposalsRight
  <2>5. ProposalsRight'
    BY <2>1, <2>3, <2>4 DEF ProposalsRight, ProposalRight
  <2> QED BY <2>1, <2>5 DEF LedgerRight, StandingRight, PromotingRight, ApprovedText, Promoted
<1>3. ASSUME NEW p \in proposals, Review(p)
      PROVE  RulesInv'
  <2>1. /\ promoting = NobodyPromotes /\ approvals' = approvals \cup {p}
        /\ UNCHANGED <<ledger, standing, proposals, promoting>>
    BY <1>3 DEF Review
  <2>2. ProposalsRight' /\ LedgerRight'
    BY <2>1 DEF ProposalsRight, ProposalRight, LedgerRight
  <2> QED BY <2>1, <2>2 DEF StandingRight, PromotingRight, ApprovedText, Promoted
<1>4. ASSUME NEW p \in proposals, BeginPromote(p)
      PROVE  RulesInv'
  <2>1. /\ promoting = NobodyPromotes /\ p \in approvals /\ standing = p.before
        /\ ledger[p.pattern] = p.row
        /\ standing' = p.after /\ promoting' = [stage |-> "ledger", proposal |-> p]
        /\ UNCHANGED <<ledger, proposals, approvals>>
    BY <1>4 DEF BeginPromote, StillReviewed
  <2>2. PICK S, rule : standing \in Seq(S) /\ p.after = Append(standing, rule)
    BY <2>1 DEF ProposalsRight, ProposalRight
  <2>3. promoting' # NobodyPromotes
    <3>1. promoting'.stage # NobodyPromotes.stage
      BY <2>1 DEF NobodyPromotes
    <3> QED BY <3>1
  <2>4. /\ \E R : standing' \in Seq(R)
        /\ Len(standing') = Len(standing) + 1
        /\ \A n \in 1..Len(standing) : SubSeq(standing', 1, n) = SubSeq(standing, 1, n)
        /\ SubSeq(standing', 1, Len(standing) + 1) = p.after
    <3>1. ExtendedBy(Append(standing, rule), standing, rule)
      BY <2>2, AppendedText
    <3>2. ExtendedBy(p.after, standing, rule)
      BY <2>2, <3>1
    <3> QED BY <2>1, <3>2 DEF ExtendedBy
  <2>5. ApprovedText(standing)'
    <3>1. \A n \in 1..(Len(standing) + 1) : n \in 1..Len(standing) \/ n = Len(standing) + 1
      BY <2>2
    <3> QED BY <2>1, <2>4, <3>1 DEF StandingRight, ApprovedText
  <2>6. Promoted(p.before)'
    BY <2>1 DEF StandingRight, Promoted
  <2>7. ProposalsRight' /\ LedgerRight'
    BY <2>1 DEF ProposalsRight, ProposalRight, LedgerRight
  <2> QED BY <2>1, <2>3, <2>4, <2>5, <2>6, <2>7 DEF StandingRight, PromotingRight
<1>5. ASSUME EndPromote \/ PromoteFails \/ PromoteDies
      PROVE  RulesInv'
  <2> PICK p \in approvals : /\ promoting.proposal = p /\ standing = p.after
                             /\ ledger[p.pattern] = p.row
                             /\ Promoted(p.before) /\ ProposalRight(p)
    BY <1>5 DEF EndPromote, PromoteFails, PromoteDies, PromotingRight, ProposalsRight
  <2>1. promoting' = NobodyPromotes /\ UNCHANGED <<proposals, approvals>>
    BY <1>5 DEF EndPromote, PromoteFails, PromoteDies
  <2>2. ProposalsRight' /\ PromotingRight'
    BY <2>1 DEF ProposalsRight, ProposalRight, PromotingRight
  <2>3. PICK S, rule : p.before \in Seq(S) /\ standing = Append(p.before, rule) /\ rule.pattern = p.pattern
    BY DEF ProposalRight
  <2>4. /\ Len(standing) = Len(p.before) + 1 /\ Len(p.before) \in Nat
        /\ standing[Len(p.before) + 1] = rule
        /\ \A n \in 1..Len(p.before) : standing[n] = p.before[n]
        /\ \A n \in 1..Len(p.before) : SubSeq(standing, 1, n) = SubSeq(p.before, 1, n)
    BY <2>3, AppendedText DEF ExtendedBy
  <2>5. \A n \in 1..Len(p.before) : n \in 1..Len(standing)
    BY <2>4
  <2>6. Promoted(standing) /\ StandingFor(standing, p.pattern)
    <3>1. Len(p.before) + 1 \in 1..Len(standing)
      BY <2>4
    <3> QED BY <2>3, <2>4, <2>5, <3>1 DEF Promoted, StandingFor
  <2>7. CASE PromoteDies
    <3>1. UNCHANGED <<standing, ledger>>
      BY <2>7 DEF PromoteDies
    <3> QED BY <2>1, <2>2, <2>6, <3>1 DEF StandingRight, ApprovedText, Promoted, LedgerRight
  <2>8. CASE PromoteFails
    <3>1. standing' = p.before /\ UNCHANGED ledger
      BY <2>8 DEF PromoteFails
    <3>2. ApprovedText(standing)'
      BY <2>1, <2>4, <2>5, <3>1 DEF ApprovedText, StandingRight
    <3>3. Promoted(standing)'
      BY <3>1 DEF Promoted
    <3>4. \E R : standing' \in Seq(R)
      BY <2>3, <3>1
    <3> QED BY <2>1, <2>2, <3>1, <3>2, <3>3, <3>4 DEF StandingRight, LedgerRight
  <2>9. CASE EndPromote
    <3>1. ledger' = [ledger EXCEPT ![p.pattern].status = "promoted"] /\ UNCHANGED standing
      BY <2>9 DEF EndPromote
    <3> DEFINE row == [ledger[p.pattern] EXCEPT !.status = "promoted"]
    <3>2. DOMAIN row = DOMAIN ledger[p.pattern]
      OBVIOUS
    <3>3. ledger' = [ledger EXCEPT ![p.pattern] = row] /\ p.pattern \in Patterns
      BY <3>1 DEF ProposalRight
    <3>4. ledger[p.pattern] # NoRow
      <4>1. ledger[p.pattern].status # NoRow.status
        BY DEF ProposalRight, NoRow
      <4> QED BY <4>1
    <3> HIDE DEF row
    <3>5. /\ DOMAIN ledger' = Patterns /\ ledger'[p.pattern] = row
          /\ \A q \in Patterns \ {p.pattern} : ledger'[q] = ledger[q]
      BY <3>3 DEF LedgerRight
    <3>6. LedgerRight'
      BY <3>2, <3>4, <3>5 DEF LedgerRight
    <3>7. Promoted(standing)'
      BY <2>6, <3>1, <3>5 DEF Promoted, StandingFor
    <3> QED BY <2>1, <2>2, <3>1, <3>6, <3>7 DEF StandingRight, ApprovedText
  <2> QED BY <1>5, <2>7, <2>8, <2>9
<1> QED BY <1>1, <1>2, <1>3, <1>4, <1>5 DEF Learning

(* A rule stands at most as often as a proposal for it was approved: every  *)
(* standing rule is the last one of an approved text of its own length.     *)
LEMMA RulesSafe ==
  ASSUME RulesInv
  PROVE  RulesReviewed
<1>1. PICK S : standing \in Seq(S)
  BY DEF RulesInv, StandingRight
<1> PICK k \in Nat : k = Len(standing) /\ DOMAIN standing = 1..k
  BY <1>1
<1>2. \A n \in 1..k : \E p \in approvals : p.after = SubSeq(standing, 1, n)
  BY DEF RulesInv, StandingRight, ApprovedText
<1>3. ASSUME NEW p \in Patterns
      PROVE  Cardinality({n \in DOMAIN standing : standing[n].pattern = p})
               <= Cardinality({q \in approvals : q.pattern = p})
  <2> DEFINE A == {n \in 1..k : standing[n].pattern = p}
             B == {q \in approvals : q.pattern = p}
             g == [n \in A |-> CHOOSE q \in approvals : q.after = SubSeq(standing, 1, n)]
  <2>1. ASSUME NEW n \in 1..k
        PROVE  /\ Len(SubSeq(standing, 1, n)) = n /\ SubSeq(standing, 1, n)[n] = standing[n]
    <3>1. SubSeq(standing, 1, n) = [i \in 1..n |-> standing[i]]
      BY <1>1, PartOfSequence
    <3>2. [i \in 1..n |-> standing[i]] \in Seq(S) /\ n \in Nat /\ n \in 1..n
      BY <1>1
    <3> QED BY <3>1, <3>2
  <2>2. ASSUME NEW n \in A
        PROVE  g[n] \in approvals /\ g[n].after = SubSeq(standing, 1, n)
    BY <1>2
  <2>3. ASSUME NEW n \in A PROVE g[n] \in B
    <3>1. g[n] \in approvals /\ g[n].after = SubSeq(standing, 1, n)
      BY <2>2
    <3> PICK q \in approvals : q = g[n] /\ q.after = SubSeq(standing, 1, n)
      BY <3>1
    <3>2. PICK R, rule : /\ q.before \in Seq(R)
                         /\ q.after = Append(q.before, rule) /\ rule.pattern = q.pattern
      BY DEF RulesInv, ProposalsRight, ProposalRight
    <3>3. ExtendedBy(Append(q.before, rule), q.before, rule)
      BY <3>2, AppendedText
    <3>4. Len(q.after) = n /\ q.after[n] = standing[n]
      BY <2>1
    <3>5. Len(q.after) = Len(q.before) + 1 /\ q.after[Len(q.before) + 1] = rule
      BY <3>2, <3>3 DEF ExtendedBy
    <3>6. rule = standing[n]
      BY <3>4, <3>5
    <3> QED BY <3>2, <3>6
  <2>4. ASSUME NEW m \in A, NEW n \in A, g[m] = g[n] PROVE m = n
    <3>1. SubSeq(standing, 1, m) = SubSeq(standing, 1, n)
      BY <2>2, <2>4
    <3> QED BY <2>1, <3>1
  <2>5. IsFiniteSet(B)
    <3>1. IsFiniteSet(approvals)
      BY FS_Subset DEF RulesInv, ProposalsRight
    <3> QED BY <3>1, FS_Subset
  <2>6. DOMAIN g = A
    OBVIOUS
  <2>7. g = [n \in A |-> g[n]]
    OBVIOUS
  <2> HIDE DEF g
  <2>8. g \in [A -> B]
    BY <2>3, <2>7
  <2>9. g \in Injection(A, B)
    BY <2>4, <2>8 DEF Injection, IsInjective
  <2> HIDE DEF A, B
  <2>10. Cardinality(A) <= Cardinality(B)
    BY <2>5, <2>9, FS_Injection
  <2> QED BY <2>10 DEF A, B
<1>4. promoting = NobodyPromotes =>
        \A p \in Patterns : ledger[p].status = "promoted" =>
          \E n \in DOMAIN standing : standing[n].pattern = p
  BY DEF RulesInv, StandingRight, Promoted, StandingFor
<1> QED BY <1>2, <1>3, <1>4 DEF RulesReviewed

GovernedInv == UsageKept /\ RulesInv

LEMMA GovernedHolds ==
  ASSUME GovernedInv, [SkillMemoryNext]_skillMemoryVars
  PROVE  GovernedInv'
<1>1. CASE UNCHANGED skillMemoryVars
  BY <1>1 DEF skillMemoryVars, GovernedInv, UsageKept, TaskServed, EntryKept, LongUnused,
     RulesInv, ProposalsRight, ProposalRight, LedgerRight, StandingRight, PromotingRight,
     ApprovedText, Promoted
<1>2. CASE Skilling
  <2>1. UNCHANGED promotionVars
    BY <1>2 DEF Skilling, TaskStarted, Retrieve, Sweep, Restore, Pin, Unpin, Archive, NextDay
  <2>2. RulesInv'
    BY <2>1 DEF GovernedInv, promotionVars, RulesInv, ProposalsRight, ProposalRight, LedgerRight,
                StandingRight, PromotingRight, ApprovedText, Promoted
  <2> QED BY <1>2, <2>2, SkillingKeepsUsage DEF GovernedInv
<1>3. CASE Learning
  <2>1. UNCHANGED lifecycleVars
    BY <1>3 DEF Learning, Capture, Propose, Review, BeginPromote, EndPromote, PromoteFails,
                PromoteDies
  <2>2. UsageKept'
    BY <2>1 DEF GovernedInv, lifecycleVars, UsageKept, TaskServed, EntryKept, LongUnused
  <2> QED BY <1>3, <2>2, LearningKeepsRules DEF GovernedInv
<1> QED BY <1>1, <1>2, <1>3 DEF SkillMemoryNext

LEMMA GovernedBegins ==
  ASSUME SkillMemoryInit
  PROVE  GovernedInv
<1>1. UsageKept
  <2>1. \A s \in Skills : usage[s] \in Entries /\ EntryKept(usage[s])
    <3> SUFFICES ASSUME NEW s \in Skills PROVE usage[s] \in Entries /\ EntryKept(usage[s])
      OBVIOUS
    <3>1. usage[s] = [firstSeen |-> Never, lastUsed |-> Never, restored |-> Never,
                      archived |-> "no", pinned |-> s \in PinnedSkills]
      BY DEF SkillMemoryInit
    <3>2. (s \in PinnedSkills) \in BOOLEAN
      OBVIOUS
    <3>3. usage[s] \in Entries
      BY <3>1, <3>2 DEF Entries, Never
    <3> QED BY <3>1, <3>3 DEF EntryKept
  <2>2. usage \in [Skills -> Entries]
    BY <2>1 DEF SkillMemoryInit
  <2> QED BY <2>1, <2>2 DEF SkillMemoryInit, UsageKept
<1> QED BY <1>1, RulesBegin DEF GovernedInv

(***************************************************************************)
(* The settings of an image request                                        *)
(***************************************************************************)

(* A choice of every setting.                                               *)
SettingRecords ==
  [output_format : {None, "png", "jpeg", "webp", "gif"},
   frame_count : {0, 9, 16, 20}, frame_duration_ms : {0, 10, 20, 23},
   output_compression : {0, 50}, background : {None, "transparent", "opaque"},
   size : {None, "fit", "strip", "wrong"}, complexity : {None, "low"},
   input_fidelity : {None, "high"}, moderation : {None, "low"}]

LEMMA SettingsAre ==
  SettingNames = {"output_format", "frame_count", "frame_duration_ms", "output_compression",
                  "background", "size", "complexity", "input_fidelity", "moderation"}
BY DEF SettingNames, Unset

LEMMA UnsetFits == Unset \in SettingRecords
BY DEF Unset, SettingRecords, None

LEMMA WithoutFits ==
  ASSUME NEW o \in SettingRecords, NEW dropped
  PROVE  SettingWithout(o, dropped) \in SettingRecords
BY SettingsAre DEF SettingWithout, SettingRecords, Unset, None

LEMMA OverFits ==
  ASSUME NEW o \in SettingRecords, NEW base \in SettingRecords
  PROVE  Over(o, base) \in SettingRecords
BY SettingsAre DEF Over, SetIn, SettingRecords, Unset, None

LEMMA OverHas ==
  ASSUME NEW o \in SettingRecords, NEW base \in SettingRecords, NEW k \in SettingNames
  PROVE  Over(o, base)[k] = IF o[k] # Unset[k] THEN o[k] ELSE base[k]
BY DEF Over, SetIn

LEMMA WithoutHas ==
  ASSUME NEW o \in SettingRecords, NEW dropped, NEW k \in SettingNames
  PROVE  SettingWithout(o, dropped)[k] = IF k \in dropped THEN Unset[k] ELSE o[k]
BY DEF SettingWithout

LEMMA NormalizedFits ==
  ASSUME NEW model, NEW o \in SettingRecords, NEW mode
  PROVE  Normalized(model, o, mode) \in SettingRecords
<1> DEFINE r == IF Animated(o) THEN [o EXCEPT !.frame_duration_ms = SettingRounded(@)] ELSE o
<1> DEFINE w == SettingWithout(r, Dropped(model, o, mode))
<1>1. r \in SettingRecords
  BY DEF SettingRecords, SettingRounded
<1>2. w \in SettingRecords
  BY <1>1, WithoutFits
<1>3. Alpha(w) \in SettingRecords
  BY <1>2 DEF Alpha, SettingRecords, None
<1>4. Uncompressed(Alpha(w)) \in SettingRecords
  BY <1>3 DEF Uncompressed, SettingRecords, None
<1> QED BY <1>4 DEF Normalized

LEMMA InheritedFits ==
  ASSUME NEW parent \in SettingRecords, NEW requested \in SettingRecords, NEW mode
  PROVE  Inherited(parent, requested, mode) \in SettingRecords
<1> DEFINE still == \/ requested.output_format \notin {None, "gif"}
                    \/ requested.output_format = None /\ requested.background = "transparent"
           base == IF Animated(parent) /\ still
                   THEN SettingWithout(parent, {"output_format", "frame_count",
                                                "frame_duration_ms", "size"})
                   ELSE parent
           moving == \/ requested.output_format = "gif"
                     \/ requested.output_format = None /\ Animated(base)
           opaque == IF moving /\ base.background = "transparent"
                     THEN [base EXCEPT !.background = None] ELSE base
           few == IF moving /\ mode = "edit" /\ opaque.frame_count > 16
                  THEN [opaque EXCEPT !.frame_count = 16] ELSE opaque
<1>1. base \in SettingRecords
  BY WithoutFits
<1> HIDE DEF base
<1>2. opaque \in SettingRecords
  BY <1>1 DEF SettingRecords, None
<1> HIDE DEF opaque
<1>3. few \in SettingRecords
  BY <1>2 DEF SettingRecords
<1> HIDE DEF few
<1>4. Inherited(parent, requested, mode) = Over(requested, few)
  BY DEF Inherited, few, opaque, base
<1> QED BY <1>3, <1>4, OverFits

LEMMA NormalizedHas ==
  ASSUME NEW model, NEW o \in SettingRecords, NEW mode
  PROVE  LET p == Normalized(model, o, mode)
         IN  /\ p.background = o.background /\ p.frame_count = o.frame_count /\ p.size = o.size
             /\ p.output_format =
                  IF o.background = "transparent" /\ o.output_format \notin {"png", "webp"}
                  THEN "png" ELSE o.output_format
             /\ p.frame_duration_ms =
                  IF Animated(o) THEN SettingRounded(o.frame_duration_ms) ELSE o.frame_duration_ms
             /\ p.output_compression =
                  IF Animated(o) \/ p.output_format \in {None, "png", "gif"} THEN 0
                  ELSE o.output_compression
             /\ p.complexity = IF model # Sunburst26 THEN None ELSE o.complexity
             /\ p.input_fidelity =
                  IF model \in {Sunburst25, Sunburst26} \/ mode = "generate" THEN None
                  ELSE o.input_fidelity
             /\ p.moderation = IF mode = "edit" THEN None ELSE o.moderation
<1> DEFINE r == IF Animated(o) THEN [o EXCEPT !.frame_duration_ms = SettingRounded(@)] ELSE o
<1> DEFINE w == SettingWithout(r, Dropped(model, o, mode))
<1> DEFINE a == Alpha(w)
<1> DEFINE p == Uncompressed(a)
<1>1. r \in SettingRecords
  BY DEF SettingRecords, SettingRounded
<1>2. /\ r.frame_duration_ms =
           IF Animated(o) THEN SettingRounded(o.frame_duration_ms) ELSE o.frame_duration_ms
      /\ \A k \in SettingNames \ {"frame_duration_ms"} : r[k] = o[k]
  BY SettingsAre DEF SettingRecords
<1> HIDE DEF r
<1>3. \A k \in SettingNames : w[k] = IF k \in Dropped(model, o, mode) THEN Unset[k] ELSE r[k]
  BY <1>1, WithoutHas
<1>4. w \in SettingRecords
  BY <1>1, WithoutFits
<1>5. /\ w.background = o.background /\ w.frame_count = o.frame_count /\ w.size = o.size
      /\ w.output_format = o.output_format
      /\ w.frame_duration_ms = r.frame_duration_ms
      /\ w.output_compression = IF Animated(o) THEN 0 ELSE o.output_compression
      /\ w.complexity = IF model # Sunburst26 THEN None ELSE o.complexity
      /\ w.input_fidelity =
           IF model \in {Sunburst25, Sunburst26} \/ mode = "generate" THEN None
           ELSE o.input_fidelity
      /\ w.moderation = IF mode = "edit" THEN None ELSE o.moderation
  BY <1>2, <1>3, SettingsAre DEF Dropped, Unset
<1> HIDE DEF w
<1>6. /\ a \in SettingRecords
      /\ a.output_format =
           IF w.background = "transparent" /\ w.output_format \notin {"png", "webp"}
           THEN "png" ELSE w.output_format
      /\ \A k \in SettingNames \ {"output_format"} : a[k] = w[k]
  BY <1>4, SettingsAre DEF Alpha, SettingRecords, None
<1> HIDE DEF a
<1>7. /\ p.output_compression =
           IF a.output_format \in {None, "png", "gif"} THEN 0 ELSE a.output_compression
      /\ \A k \in SettingNames \ {"output_compression"} : p[k] = a[k]
  BY <1>6, SettingsAre DEF Uncompressed, SettingRecords, None
<1> HIDE DEF p
<1>8. p = Normalized(model, o, mode)
  BY DEF Normalized, p, a, w, r
<1> QED BY <1>2, <1>5, <1>6, <1>7, <1>8, SettingsAre

LEMMA RoundedIs ==
  /\ SettingRounded(0) = 0 /\ SettingRounded(10) = 10 /\ SettingRounded(20) = 20
  /\ SettingRounded(23) = 20
BY DEF SettingRounded

LEMMA AcceptableIs ==
  ASSUME NEW model, NEW o, NEW mode
  PROVE  Acceptable(model, o, mode) <=>
           /\ o.output_format = "gif" =>
                model = Sunburst26 /\ (mode = "edit" => o.frame_count <= 16)
           /\ model \in {Sunburst25, Sunburst26} => ValidOptions(o)
BY DEF Acceptable, Animated

LEMMA NormalizedIsAcceptable ==
  ASSUME NEW model, NEW o \in SettingRecords, NEW mode, Acceptable(model, o, mode)
  PROVE  Acceptable(model, Normalized(model, o, mode), mode)
<1> DEFINE p == Normalized(model, o, mode)
<1>1. /\ p.background = o.background /\ p.frame_count = o.frame_count /\ p.size = o.size
      /\ p.output_format =
           IF o.background = "transparent" /\ o.output_format \notin {"png", "webp"}
           THEN "png" ELSE o.output_format
      /\ p.frame_duration_ms =
           IF Animated(o) THEN SettingRounded(o.frame_duration_ms) ELSE o.frame_duration_ms
  BY NormalizedHas
<1>2. p.frame_duration_ms \in 1..19 => o.frame_duration_ms \in 1..19
  <2>1. o.frame_duration_ms \in {0, 10, 20, 23}
    BY DEF SettingRecords
  <2> QED BY <1>1, <2>1, RoundedIs
<1> HIDE DEF p
<1>3. ValidOptions(o) => ValidOptions(p)
  BY <1>1, <1>2 DEF ValidOptions, Animated, None
<1>4. Acceptable(model, p, mode)
  BY <1>1, <1>3, AcceptableIs DEF None
<1> QED BY <1>4 DEF p

LEMMA PrunedHas ==
  ASSUME NEW o \in SettingRecords, NEW mode
  PROVE  LET p == Pruned(o, mode)
         IN  /\ p \in SettingRecords
             /\ p.output_format =
                  IF o.background = "transparent" /\ o.output_format \notin {"png", "webp"}
                  THEN "png" ELSE o.output_format
             /\ p.output_compression =
                  IF o.background = "transparent" /\ p.output_format = "png" THEN 0
                  ELSE o.output_compression
             /\ p.input_fidelity = IF mode = "generate" THEN None ELSE o.input_fidelity
             /\ p.moderation = IF mode = "generate" THEN o.moderation ELSE None
             /\ \A k \in {"background", "frame_count", "frame_duration_ms", "size",
                           "complexity"} : p[k] = o[k]
<1> DEFINE dropped == IF mode = "generate" THEN {"input_fidelity"} ELSE {"moderation"}
           w == SettingWithout(o, dropped)
           kept == Alpha(w)
<1>1. w \in SettingRecords /\ \A k \in SettingNames : w[k] = IF k \in dropped THEN Unset[k] ELSE o[k]
  BY WithoutFits, WithoutHas
<1>2. Pruned(o, mode) = IF o.background = "transparent" /\ kept.output_format = "png"
                        THEN [kept EXCEPT !.output_compression = 0] ELSE kept
  BY DEF Pruned
<1> HIDE DEF w
<1>3. /\ kept \in SettingRecords
      /\ kept.output_format =
           IF w.background = "transparent" /\ w.output_format \notin {"png", "webp"}
           THEN "png" ELSE w.output_format
      /\ \A k \in SettingNames \ {"output_format"} : kept[k] = w[k]
  BY <1>1, SettingsAre DEF Alpha, SettingRecords, None
<1>4. /\ w.background = o.background /\ w.output_format = o.output_format
      /\ w.input_fidelity = IF mode = "generate" THEN None ELSE o.input_fidelity
      /\ w.moderation = IF mode = "generate" THEN o.moderation ELSE None
      /\ w.output_compression = o.output_compression
      /\ \A k \in {"background", "frame_count", "frame_duration_ms", "size", "complexity"} :
           w[k] = o[k]
  BY <1>1, SettingsAre DEF Unset
<1> HIDE DEF kept
<1>5. CASE o.background = "transparent" /\ kept.output_format = "png"
  <2>1. Pruned(o, mode) = [kept EXCEPT !.output_compression = 0]
    BY <1>2, <1>5
  <2> QED BY <1>3, <1>4, <1>5, <2>1, SettingsAre DEF SettingRecords
<1>6. CASE ~(o.background = "transparent" /\ kept.output_format = "png")
  <2>1. Pruned(o, mode) = kept
    BY <1>2, <1>6
  <2> QED BY <1>3, <1>4, <1>6, <2>1, SettingsAre
<1> QED BY <1>5, <1>6

LEMMA SameSettings ==
  ASSUME NEW o \in SettingRecords, NEW p \in SettingRecords, \A k \in SettingNames : o[k] = p[k]
  PROVE  o = p
BY SettingsAre DEF SettingRecords

LEMMA NormalizedIsSent ==
  ASSUME NEW model, NEW o \in SettingRecords, NEW mode \in {"generate", "edit"},
         Acceptable(model, o, mode)
  PROVE  LET p == Normalized(model, o, mode) IN SettingSent(model, p, mode) = p
<1> DEFINE p == Normalized(model, o, mode)
           q == Normalized(model, p, mode)
           s == Pruned(q, mode)
<1>1. p \in SettingRecords /\ q \in SettingRecords
  BY NormalizedFits
<1>2. s \in SettingRecords
  BY <1>1, PrunedHas
<1>3. q.background = p.background /\ q.frame_count = p.frame_count /\ q.size = p.size
  BY <1>1, NormalizedHas
<1>4. p.frame_duration_ms =
        IF Animated(o) THEN SettingRounded(o.frame_duration_ms) ELSE o.frame_duration_ms
  BY NormalizedHas
<1>5. q.frame_duration_ms = p.frame_duration_ms
  <2>1. q.frame_duration_ms =
          IF Animated(p) THEN SettingRounded(p.frame_duration_ms) ELSE p.frame_duration_ms
    BY <1>1, NormalizedHas
  <2>2. Animated(p) => Animated(o)
    BY NormalizedHas DEF Animated
  <2>3. o.frame_duration_ms \in {0, 10, 20, 23}
    BY DEF SettingRecords
  <2> QED BY <1>4, <2>1, <2>2, <2>3, RoundedIs
<1>6. /\ q.output_format = p.output_format
      /\ p.background = "transparent" => p.output_format \in {"png", "webp"}
  BY <1>1, NormalizedHas DEF None
<1>7. /\ q.output_compression = p.output_compression
      /\ p.output_format = "png" => p.output_compression = 0
  <2>1. p.output_compression = IF Animated(o) \/ p.output_format \in {None, "png", "gif"} THEN 0
                               ELSE o.output_compression
    BY NormalizedHas
  <2>2. q.output_compression = IF Animated(p) \/ q.output_format \in {None, "png", "gif"} THEN 0
                               ELSE p.output_compression
    BY <1>1, NormalizedHas
  <2> QED BY <1>6, <2>1, <2>2 DEF Animated
<1>8. /\ q.complexity = p.complexity /\ q.input_fidelity = p.input_fidelity
      /\ q.moderation = p.moderation
      /\ mode = "generate" => p.input_fidelity = None
      /\ mode = "edit" => p.moderation = None
  BY <1>1, NormalizedHas
<1> HIDE DEF p, q
<1>9. \A k \in SettingNames : s[k] = p[k]
  BY <1>1, <1>3, <1>5, <1>6, <1>7, <1>8, PrunedHas, SettingsAre
<1>10. s = p
  BY <1>1, <1>2, <1>9, SameSettings
<1> QED BY <1>10 DEF SettingSent, q, p

(* What an edit leaves behind of an animation, and whether it is one.       *)
Stills(parent, requested) ==
  /\ Animated(parent)
  /\ \/ requested.output_format \notin {None, "gif"}
     \/ requested.output_format = None /\ requested.background = "transparent"
Moves(parent, requested) ==
  \/ requested.output_format = "gif"
  \/ requested.output_format = None /\ Animated(parent) /\ ~Stills(parent, requested)
Left(parent, requested, k) == IF Stills(parent, requested) THEN Unset[k] ELSE parent[k]

LEMMA InheritedHas ==
  ASSUME NEW parent \in SettingRecords, NEW requested \in SettingRecords, NEW mode
  PROVE  \E few \in SettingRecords :
           /\ Inherited(parent, requested, mode) = Over(requested, few)
           /\ few.output_format = Left(parent, requested, "output_format")
           /\ few.frame_duration_ms = Left(parent, requested, "frame_duration_ms")
           /\ few.size = Left(parent, requested, "size")
           /\ few.frame_count =
                IF Moves(parent, requested) /\ mode = "edit"
                     /\ Left(parent, requested, "frame_count") > 16
                THEN 16 ELSE Left(parent, requested, "frame_count")
           /\ few.background =
                IF Moves(parent, requested) /\ parent.background = "transparent" THEN None
                ELSE parent.background
<1> DEFINE still == \/ requested.output_format \notin {None, "gif"}
                    \/ requested.output_format = None /\ requested.background = "transparent"
           dropped == {"output_format", "frame_count", "frame_duration_ms", "size"}
           base == IF Animated(parent) /\ still THEN SettingWithout(parent, dropped) ELSE parent
           moving == \/ requested.output_format = "gif"
                     \/ requested.output_format = None /\ Animated(base)
           opaque == IF moving /\ base.background = "transparent"
                     THEN [base EXCEPT !.background = None] ELSE base
           few == IF moving /\ mode = "edit" /\ opaque.frame_count > 16
                  THEN [opaque EXCEPT !.frame_count = 16] ELSE opaque
<1>1. /\ base \in SettingRecords
      /\ \A k \in SettingNames :
           base[k] = IF Animated(parent) /\ still /\ k \in dropped THEN Unset[k] ELSE parent[k]
  BY WithoutFits, WithoutHas
<1> HIDE DEF base
<1>2. /\ opaque \in SettingRecords
      /\ opaque.background = IF moving /\ base.background = "transparent" THEN None
                             ELSE base.background
      /\ \A k \in SettingNames \ {"background"} : opaque[k] = base[k]
  BY <1>1, SettingsAre DEF SettingRecords, None
<1> HIDE DEF opaque
<1>3. /\ few \in SettingRecords
      /\ few.frame_count = IF moving /\ mode = "edit" /\ opaque.frame_count > 16 THEN 16
                           ELSE opaque.frame_count
      /\ \A k \in SettingNames \ {"frame_count"} : few[k] = opaque[k]
  BY <1>2, SettingsAre DEF SettingRecords
<1> HIDE DEF few
<1>4. Inherited(parent, requested, mode) = Over(requested, few)
  BY DEF Inherited, few, opaque, base
<1>5. \A k \in dropped : base[k] = Left(parent, requested, k)
  BY <1>1, SettingsAre DEF Left, Stills
<1>6. base.background = parent.background
  BY <1>1, SettingsAre
<1>7. moving <=> Moves(parent, requested)
  <2>1. Animated(base) <=> Animated(parent) /\ ~still
    BY <1>1, SettingsAre DEF Animated, Unset, None
  <2> QED BY <2>1 DEF Moves, Stills
<1>8. /\ few.output_format = Left(parent, requested, "output_format")
      /\ few.frame_duration_ms = Left(parent, requested, "frame_duration_ms")
      /\ few.size = Left(parent, requested, "size")
      /\ few.frame_count =
           IF Moves(parent, requested) /\ mode = "edit"
                /\ Left(parent, requested, "frame_count") > 16
           THEN 16 ELSE Left(parent, requested, "frame_count")
  BY <1>2, <1>3, <1>5, <1>7, SettingsAre
<1>9. few.background =
        IF Moves(parent, requested) /\ parent.background = "transparent" THEN None
        ELSE parent.background
  BY <1>2, <1>3, <1>6, <1>7, SettingsAre
<1> QED BY <1>3, <1>4, <1>8, <1>9

LEMMA InheritedIsAcceptable ==
  ASSUME NEW model, NEW parent \in SettingRecords, NEW before, Acceptable(model, parent, before),
         NEW requested \in SettingRecords, NEW mode, Acceptable(model, requested, mode)
  PROVE  Acceptable(model, Inherited(parent, requested, mode), mode)
<1>1. PICK few \in SettingRecords :
        /\ Inherited(parent, requested, mode) = Over(requested, few)
        /\ few.output_format = Left(parent, requested, "output_format")
        /\ few.frame_duration_ms = Left(parent, requested, "frame_duration_ms")
        /\ few.size = Left(parent, requested, "size")
        /\ few.frame_count =
             IF Moves(parent, requested) /\ mode = "edit"
                  /\ Left(parent, requested, "frame_count") > 16
             THEN 16 ELSE Left(parent, requested, "frame_count")
        /\ few.background =
             IF Moves(parent, requested) /\ parent.background = "transparent" THEN None
             ELSE parent.background
  BY InheritedHas
<1> DEFINE o == Over(requested, few)
<1>2. /\ o.output_format = IF requested.output_format # None THEN requested.output_format
                           ELSE few.output_format
      /\ o.frame_count = IF requested.frame_count # 0 THEN requested.frame_count
                         ELSE few.frame_count
      /\ o.frame_duration_ms = IF requested.frame_duration_ms # 0
                               THEN requested.frame_duration_ms ELSE few.frame_duration_ms
      /\ o.size = IF requested.size # None THEN requested.size ELSE few.size
      /\ o.background = IF requested.background # None THEN requested.background
                        ELSE few.background
  BY OverHas, SettingsAre DEF Unset
<1>3. /\ few.frame_count \in {0, 9, 16, 20} /\ parent.frame_count \in {0, 9, 16, 20}
      /\ requested.frame_count \in {0, 9, 16, 20}
  BY DEF SettingRecords
<1> HIDE DEF o
<1>4. ASSUME o.output_format = "gif"
      PROVE  model = Sunburst26 /\ (mode = "edit" => o.frame_count <= 16)
  <2>1. CASE requested.output_format = "gif"
    <3>1. model = Sunburst26 /\ (mode = "edit" => requested.frame_count <= 16)
      BY <2>1, AcceptableIs
    <3>2. Moves(parent, requested)
      BY <2>1 DEF Moves
    <3>3. mode = "edit" => few.frame_count <= 16
      BY <1>1, <1>3, <3>2
    <3> QED BY <1>2, <3>1, <3>3
  <2>2. CASE requested.output_format # "gif"
    <3>1. /\ requested.output_format = None /\ few.output_format = "gif"
          /\ Animated(parent) /\ ~Stills(parent, requested)
      BY <1>1, <1>2, <1>4, <2>2 DEF Left, Unset, None, Animated
    <3>2. model = Sunburst26 /\ ValidOptions(requested)
      BY <3>1, AcceptableIs DEF Animated
    <3>3. requested.frame_count = 0
      BY <2>2, <3>2 DEF ValidOptions, Animated
    <3>4. Moves(parent, requested)
      BY <3>1 DEF Moves
    <3> QED BY <1>1, <1>2, <1>3, <3>2, <3>3, <3>4
  <2> QED BY <2>1, <2>2
<1>5. ASSUME model \in {Sunburst25, Sunburst26}
      PROVE  ValidOptions(o)
  <2>1. ValidOptions(parent) /\ ValidOptions(requested)
    BY <1>5, AcceptableIs
  <2>2. Animated(o) \/ (o.frame_count = 0 /\ o.frame_duration_ms = 0)
    BY <1>1, <1>2, <2>1 DEF ValidOptions, Animated, Unset, None, Moves, Stills, Left
  <2>3. Animated(o) => o.background # "transparent"
    BY <1>1, <1>2, <2>1 DEF ValidOptions, Animated, Unset, None, Moves, Stills, Left
  <2>4. o.size \in {None, "fit"} \/ (Animated(o) /\ o.size = "strip")
    BY <1>1, <1>2, <2>1 DEF ValidOptions, Animated, Unset, None, Moves, Stills, Left
  <2>5. o.frame_duration_ms \notin 1..19
    BY <1>1, <1>2, <2>1 DEF ValidOptions, Unset, Left
  <2> QED BY <2>2, <2>3, <2>4, <2>5 DEF ValidOptions
<1> QED BY <1>1, <1>4, <1>5, AcceptableIs DEF o

(* Settings set one after the other, as many as a caller sets.              *)
LEMMA OneMoreFits ==
  ASSUME NEW o \in SettingRecords, NEW k \in SettingNames, NEW v \in SettingValues[k]
  PROVE  [o EXCEPT ![k] = v] \in SettingRecords
<1>1. \/ k = "output_format" /\ v \in {None, "png", "jpeg", "webp", "gif"}
      \/ k = "frame_count" /\ v \in {0, 9, 16, 20}
      \/ k = "frame_duration_ms" /\ v \in {0, 10, 20, 23}
      \/ k = "output_compression" /\ v \in {0, 50}
      \/ k = "background" /\ v \in {None, "transparent", "opaque"}
      \/ k = "size" /\ v \in {None, "fit", "strip", "wrong"}
      \/ k = "complexity" /\ v \in {None, "low"}
      \/ k = "input_fidelity" /\ v \in {None, "high"}
      \/ k = "moderation" /\ v \in {None, "low"}
  BY SettingsAre DEF SettingValues
<1> QED BY <1>1 DEF SettingRecords

LEMMA ChoicesFit == SettingChoices \subseteq SettingRecords
<1> DEFINE D == SUBSET SettingRecords
           Grown(S) == UNION {{[o EXCEPT ![k] = v] : v \in SettingValues[k]} :
                                o \in S, k \in SettingNames}
           G == [n \in 1..MaxChosen |-> [S \in D |-> Grown(S)]]
<1>1. {Unset} \in D
  BY UnsetFits
<1>2. \A S \in D : Grown(S) \in D
  BY OneMoreFits
<1>3. PICK f \in [0..MaxChosen -> D] :
        f = [n \in 0..MaxChosen |-> IF n = 0 THEN {Unset} ELSE G[n][f[n - 1]]]
  <2>1. G \in [1..MaxChosen -> [D -> D]]
    <3> HIDE DEF D, Grown
    <3> QED BY <1>2
  <2> HIDE DEF G, D
  <2>2. StepByStep(D, MaxChosen, {Unset}, G)
    BY <1>1, <2>1, SettingsAssumption, StepsDefineAFunction
  <2> QED BY <2>2 DEF StepByStep
<1> HIDE DEF Grown
<1>4. f = [n \in 0..MaxChosen |-> IF n = 0 THEN {Unset} ELSE Grown(f[n - 1])]
  <2>1. ASSUME NEW n \in 0..MaxChosen, n # 0 PROVE n - 1 \in 0..MaxChosen /\ n \in 1..MaxChosen
    BY <2>1, SettingsAssumption
  <2> QED BY <1>3, <2>1
<1> DEFINE g == CHOOSE e : e = [n \in 0..MaxChosen |-> IF n = 0 THEN {Unset} ELSE Grown(e[n - 1])]
<1>5. g = [n \in 0..MaxChosen |-> IF n = 0 THEN {Unset} ELSE Grown(g[n - 1])]
  BY <1>4
<1>6. SettingsUpTo = g
  BY DEF SettingsUpTo, Grown
<1> HIDE DEF g
<1> DEFINE Wrong == {n \in 0..MaxChosen : g[n] \notin D}
<1>7. ASSUME Wrong # {}
      PROVE  FALSE
  <2>1. PICK n \in Wrong : \A k \in Wrong : n <= k
    <3>1. Wrong \subseteq Nat
      BY SettingsAssumption
    <3> HIDE DEF Wrong
    <3> QED BY <1>7, <3>1, LeastOfNaturals
  <2>2. n # 0
    BY <1>1, <1>5, SettingsAssumption
  <2>3. n - 1 \in 0..MaxChosen /\ n - 1 \notin Wrong
    BY <2>1, <2>2, SettingsAssumption
  <2>4. g[n - 1] \in D
    BY <2>3
  <2>5. g[n] = Grown(g[n - 1])
    BY <1>5, <2>1, <2>2
  <2> QED BY <1>2, <2>1, <2>4, <2>5
<1>8. g[MaxChosen] \in D
  BY <1>7, SettingsAssumption
<1> QED BY <1>6, <1>8 DEF SettingChoices

SettingModes == {"generate", "edit"}

(* The image edited next carries settings that some request prepared.       *)
SettingsInv ==
  /\ context \in SettingRecords
  /\ \E mode \in SettingModes : Acceptable(Model(mode), context, mode)
  /\ SettingsHonoured

LEMMA UnsetIsAcceptable ==
  ASSUME NEW model, NEW mode PROVE Acceptable(model, Unset, mode)
BY AcceptableIs DEF ValidOptions, Animated, Unset, None

LEMMA NothingToHonour ==
  ASSUME last = NoRequest PROVE SettingsHonoured
BY DEF SettingsHonoured, ValidIsPrepared, PreparedIsSent, ChoiceIsHonoured, NoRequest

LEMMA SettingsStart == SettingsInit => SettingsInv
BY UnsetFits, UnsetIsAcceptable, NothingToHonour DEF SettingsInit, SettingsInv, SettingModes

LEMMA PrepareIsSound ==
  ASSUME SettingsInv, NEW mode \in SettingModes, NEW chosen \in SettingRecords,
         NEW brief \in SettingRecords, NEW planned \in BOOLEAN,
         Prepare(mode, chosen, brief, planned)
  PROVE  SettingsInv'
<1> DEFINE parent == IF mode = "edit" THEN context ELSE Unset
           model == Model(mode)
           full == Inherited(parent, Over(chosen, brief), mode)
           bare == Inherited(parent, chosen, mode)
           source == IF planned /\ ~Acceptable(model, full, mode) THEN bare ELSE full
           prepared == Acceptable(model, chosen, mode) /\ Acceptable(model, source, mode)
           params == IF prepared THEN Normalized(model, source, mode) ELSE Unset
<1>1. /\ context' = IF prepared THEN params ELSE context
      /\ last' = [mode |-> mode, chosen |-> chosen, brief |-> brief, planned |-> planned,
                  params |-> params, outcome |-> IF prepared THEN "prepared" ELSE "refused"]
  BY DEF Prepare
<1>2. parent \in SettingRecords /\ \E before \in SettingModes : Acceptable(Model(before), parent, before)
  BY UnsetFits, UnsetIsAcceptable DEF SettingsInv, SettingModes
<1>3. /\ Over(chosen, brief) \in SettingRecords
      /\ full \in SettingRecords /\ bare \in SettingRecords /\ source \in SettingRecords
  BY <1>2, OverFits, InheritedFits
<1>4. ASSUME prepared
      PROVE  /\ params \in SettingRecords /\ Acceptable(model, params, mode)
             /\ SettingSent(model, params, mode) = params
  BY <1>3, <1>4, NormalizedFits, NormalizedIsAcceptable, NormalizedIsSent DEF SettingModes
<1>5. ASSUME ~prepared, GenerationModel = EditModel
      PROVE  \/ ~Acceptable(model, chosen, mode)
             \/ ~planned /\ ~Acceptable(model, Over(chosen, brief), mode)
  <2>1. PICK before \in SettingModes : Acceptable(model, parent, before)
    BY <1>2, <1>5 DEF Model
  <2>2. Acceptable(model, chosen, mode) => Acceptable(model, bare, mode)
    BY <1>2, <2>1, InheritedIsAcceptable
  <2>3. Acceptable(model, Over(chosen, brief), mode) => Acceptable(model, full, mode)
    BY <1>2, <1>3, <2>1, InheritedIsAcceptable
  <2> QED BY <1>5, <2>2, <2>3
<1>6. ASSUME prepared
      PROVE  /\ chosen.background # None => params.background = chosen.background
             /\ chosen.output_format \notin {None, params.output_format} =>
                  /\ chosen.output_format = "jpeg" /\ params.output_format = "png"
                  /\ params.background = "transparent"
  <2>1. PICK requested \in SettingRecords :
          /\ source = Inherited(parent, requested, mode)
          /\ chosen.output_format # None => requested.output_format = chosen.output_format
          /\ chosen.background # None => requested.background = chosen.background
    <3>1. CASE source = bare
      BY <3>1
    <3>2. CASE source = full
      <4>1. /\ chosen.output_format # None => Over(chosen, brief).output_format = chosen.output_format
            /\ chosen.background # None => Over(chosen, brief).background = chosen.background
        BY OverHas, SettingsAre DEF Unset
      <4> QED BY <1>3, <3>2, <4>1
    <3> QED BY <3>1, <3>2
  <2>2. /\ requested.output_format # None => source.output_format = requested.output_format
        /\ requested.background # None => source.background = requested.background
    <3>1. PICK few \in SettingRecords : source = Over(requested, few)
      BY <1>2, <2>1, InheritedHas
    <3> QED BY <3>1, OverHas, SettingsAre DEF Unset
  <2>3. /\ params.background = source.background
        /\ params.output_format =
             IF source.background = "transparent" /\ source.output_format \notin {"png", "webp"}
             THEN "png" ELSE source.output_format
    BY <1>3, <1>6, NormalizedHas
  <2>4. /\ source.output_format \in {None, "png", "jpeg", "webp", "gif"}
        /\ source.output_format = "gif" => source.background # "transparent"
    <3> HIDE DEF source
    <3> QED BY <1>3, <1>6 DEF Acceptable, ValidOptions, Animated, SettingRecords, Sunburst25, Sunburst26
  <2> HIDE DEF params, source, prepared
  <2> QED BY <2>1, <2>2, <2>3, <2>4 DEF None
<1> HIDE DEF params, prepared, source, full, bare, parent
<1>7. context' \in SettingRecords /\ \E m \in SettingModes : Acceptable(Model(m), context', m)
  BY <1>1, <1>4 DEF SettingsInv
<1>8. /\ last'.mode = mode /\ last'.chosen = chosen /\ last'.brief = brief
      /\ last'.planned = planned /\ last'.params = params
      /\ last'.outcome = IF prepared THEN "prepared" ELSE "refused"
  BY <1>1
<1>9. ValidIsPrepared'
  BY <1>5, <1>8 DEF ValidIsPrepared
<1>10. PreparedIsSent'
  BY <1>4, <1>8 DEF PreparedIsSent
<1>11. ChoiceIsHonoured'
  BY <1>6, <1>8 DEF ChoiceIsHonoured
<1>12. Acceptable(Model(mode), context, mode)' <=> Acceptable(Model(mode), context', mode)
  BY DEF Acceptable, Model, ValidOptions
<1> QED BY <1>7, <1>9, <1>10, <1>11 DEF SettingsInv, SettingsHonoured, Acceptable, Model, ValidOptions

LEMMA SettingsHold == SettingsInv /\ [SettingsNext]_settingVars => SettingsInv'
<1> SUFFICES ASSUME SettingsInv, [SettingsNext]_settingVars
             PROVE  SettingsInv'
  OBVIOUS
<1>1. ASSUME NEW mode \in {"generate", "edit"}, NEW chosen \in SettingChoices,
             Prepare(mode, chosen, Unset, FALSE)
      PROVE  SettingsInv'
  BY <1>1, UnsetFits, ChoicesFit, PrepareIsSound DEF SettingModes
<1>2. ASSUME NEW mode \in {"generate", "edit"}, NEW chosen \in SettingChoices,
             NEW brief \in Plans, NEW planned \in BOOLEAN, Prepare(mode, chosen, brief, planned)
      PROVE  SettingsInv'
  <2>1. brief \in SettingRecords
    BY DEF Plans, SettingRecords, Unset, None
  <2> QED BY <1>2, <2>1, ChoicesFit, PrepareIsSound DEF SettingModes
<1>3. CASE SettingReported
  <2>1. context' = context \/ context' = Unset
    BY <1>3 DEF SettingReported
  <2>2. SettingsHonoured'
    BY <1>3 DEF SettingReported, SettingsHonoured, ValidIsPrepared, PreparedIsSent,
                ChoiceIsHonoured, NoRequest
  <2> QED BY <2>1, <2>2, UnsetFits, UnsetIsAcceptable DEF SettingsInv, SettingModes
<1>4. CASE UNCHANGED settingVars
  BY <1>4 DEF settingVars, SettingsInv, SettingsHonoured, ValidIsPrepared, PreparedIsSent,
              ChoiceIsHonoured
<1> QED BY <1>1, <1>2, <1>3, <1>4 DEF SettingsNext

(***************************************************************************)
(* Image requests                                                          *)
(***************************************************************************)

(* The numbers up to n, and the greatest of some of them.                   *)
LEMMA GreatestIs ==
  ASSUME NEW n \in Nat, NEW s \in SUBSET (1..n), n \in s
  PROVE  Max(s) = n
<1>1. \A y \in s : n >= y
  OBVIOUS
<1>2. \A x \in s : (\A y \in s : x >= y) => x = n
  <2> TAKE x \in s
  <2>1. x \in Int /\ n \in Int /\ n >= x
    BY <1>1
  <2> QED BY <2>1
<1> QED BY <1>1, <1>2 DEF Max

(* The folds of Images and Documents share one argument: a fold has a step  *)
(* and a start, and is the recursive function over index sets that FoldLeft *)
(* stands for.                                                              *)
SizeFold == [fold |-> "size", start |-> 0]
PngFold == [fold |-> "png", start |-> [at |-> "start", alpha |-> FALSE]]

(* DedupEntries: entry i against the ones after it, and all of them in turn.*)
AgainstFold(e, i, D) == [fold |-> "against", start |-> D, e |-> e, i |-> i]
DedupFold(e) == [fold |-> "dedup", start |-> {}, e |-> e]
AgainstStep(e, i, d, j) ==
  IF j \in d \/ ~SimilarTexts(e[i], e[j]) THEN d
  ELSE d \cup {IF e[i].quality >= e[j].quality THEN j ELSE i}
Against(e, i, D) ==
  FoldLeft(LAMBDA d, j : IF j \in d \/ ~SimilarTexts(e[i], e[j]) THEN d
                         ELSE d \cup {IF e[i].quality >= e[j].quality THEN j ELSE i},
           D, [k \in 1..(Len(e) - i) |-> i + k])

RunStep(kind, scan, x) ==
  IF kind.fold = "size" THEN scan + x.size
  ELSE IF kind.fold = "png" THEN Chunk(scan, x)
  ELSE IF kind.fold = "against" THEN AgainstStep(kind.e, kind.i, scan, x)
  ELSE IF x \in scan THEN scan ELSE Against(kind.e, x, scan)
RunStart(kind) == kind.start
RunDef(kind, xs, n, f) ==
  f = [s \in SUBSET (1..n) |->
         IF s = {} THEN RunStart(kind) ELSE RunStep(kind, f[s \ {Max(s)}], xs[Max(s)])]
RunOf(kind, xs, n) == CHOOSE f : RunDef(kind, xs, n, f)

LEMMA SizeIs ==
  ASSUME NEW parts, NEW n \in Nat, DOMAIN parts = 1..n
  PROVE  SizeOf(parts) = RunOf(SizeFold, parts, n)[1..n]
BY DEF SizeOf, FoldLeft, MapThenFoldSet, RunOf, RunDef, RunStep, RunStart, SizeFold

LEMMA PngIs ==
  ASSUME NEW file, NEW n \in Nat, DOMAIN file = 1..n
  PROVE  PngMetadata(file) = RunOf(PngFold, file, n)[1..n]
BY DEF PngMetadata, FoldLeft, MapThenFoldSet, RunOf, RunDef, RunStep, RunStart, PngFold

LEMMA AgainstIs ==
  ASSUME NEW e, NEW i, NEW D, NEW n \in Nat, n = Len(e) - i
  PROVE  Against(e, i, D) = RunOf(AgainstFold(e, i, D), [k \in 1..n |-> i + k], n)[1..n]
<1> DEFINE xs == [k \in 1..n |-> i + k]
<1>1. DOMAIN xs = 1..n
  OBVIOUS
<1>2. Against(e, i, D) = FoldLeft(LAMBDA d, j : AgainstStep(e, i, d, j), D, xs)
  BY DEF Against, AgainstStep
<1> HIDE DEF xs
<1>3. FoldLeft(LAMBDA d, j : AgainstStep(e, i, d, j), D, xs) = RunOf(AgainstFold(e, i, D), xs, n)[1..n]
  BY <1>1 DEF FoldLeft, MapThenFoldSet, RunOf, RunDef, RunStep, RunStart, AgainstFold
<1> QED BY <1>2, <1>3 DEF xs

LEMMA DedupIs ==
  ASSUME NEW e, NEW n \in Nat, DOMAIN e = 1..n
  PROVE  DedupEntries(e) = RunOf(DedupFold(e), [k \in 1..n |-> k], n)[1..n]
<1> DEFINE xs == [k \in 1..n |-> k]
<1>1. DOMAIN xs = 1..n
  OBVIOUS
<1>2. DedupEntries(e) = FoldLeft(LAMBDA d, j : IF j \in d THEN d ELSE Against(e, j, d), {}, xs)
  BY DEF DedupEntries, Against
<1> HIDE DEF xs
<1>3. FoldLeft(LAMBDA d, j : IF j \in d THEN d ELSE Against(e, j, d), {}, xs)
        = RunOf(DedupFold(e), xs, n)[1..n]
  BY <1>1 DEF FoldLeft, MapThenFoldSet, RunOf, RunDef, RunStep, RunStart, DedupFold
<1> QED BY <1>2, <1>3 DEF xs

LEMMA RunStarts == ASSUME NEW kind, NEW xs PROVE \E f : RunDef(kind, xs, 0, f)
<1> DEFINE f == [s \in SUBSET (1..0) |-> RunStart(kind)]
<1>1. \A s \in SUBSET (1..0) : s = {}
  OBVIOUS
<1>2. f = [s \in SUBSET (1..0) |->
             IF s = {} THEN RunStart(kind) ELSE RunStep(kind, f[s \ {Max(s)}], xs[Max(s)])]
  BY <1>1
<1> QED BY <1>2 DEF RunDef

LEMMA RunGrows ==
  ASSUME NEW kind, NEW xs, NEW n \in Nat, NEW g, RunDef(kind, xs, n, g)
  PROVE  \E f : RunDef(kind, xs, n + 1, f)
<1> DEFINE f == [s \in SUBSET (1..(n + 1)) |->
                   IF n + 1 \in s THEN RunStep(kind, g[s \ {n + 1}], xs[n + 1]) ELSE g[s]]
<1>1. \A s \in SUBSET (1..n) :
        g[s] = IF s = {} THEN RunStart(kind) ELSE RunStep(kind, g[s \ {Max(s)}], xs[Max(s)])
  BY DEF RunDef
<1>2. \A s \in SUBSET (1..(n + 1)) : n + 1 \notin s => s \in SUBSET (1..n) /\ f[s] = g[s]
  OBVIOUS
<1>3. \A s \in SUBSET (1..(n + 1)) : f[s \ {n + 1}] = g[s \ {n + 1}]
  BY <1>2
<1>4. ASSUME NEW s \in SUBSET (1..(n + 1))
      PROVE  f[s] = IF s = {} THEN RunStart(kind)
                    ELSE RunStep(kind, f[s \ {Max(s)}], xs[Max(s)])
  <2>1. CASE n + 1 \in s
    <3>1. Max(s) = n + 1
      BY <2>1, GreatestIs
    <3>2. f[s] = RunStep(kind, g[s \ {n + 1}], xs[n + 1])
      BY <2>1
    <3> QED BY <1>3, <2>1, <3>1, <3>2
  <2>2. CASE n + 1 \notin s
    <3>1. s \in SUBSET (1..n) /\ f[s] = g[s]
      BY <1>2, <2>2
    <3>2. f[s \ {Max(s)}] = g[s \ {Max(s)}]
      BY <1>2, <2>2
    <3> QED BY <1>1, <3>1, <3>2
  <2> QED BY <2>1, <2>2
<1>5. f = [s \in SUBSET (1..(n + 1)) |->
             IF s = {} THEN RunStart(kind) ELSE RunStep(kind, f[s \ {Max(s)}], xs[Max(s)])]
  BY <1>4
<1> QED BY <1>5 DEF RunDef

LEMMA RunDefined ==
  ASSUME NEW kind, NEW xs, NEW n \in Nat
  PROVE  RunDef(kind, xs, n, RunOf(kind, xs, n))
<1> DEFINE Without == {m \in Nat : ~ \E f : RunDef(kind, xs, m, f)}
<1>1. ASSUME Without # {}
      PROVE  FALSE
  <2>1. PICK m \in Without : \A k \in Without : m <= k
    BY <1>1, LeastOfNaturals
  <2>2. m # 0
    BY RunStarts
  <2>3. m - 1 \in Nat /\ m - 1 \notin Without
    BY <2>1, <2>2
  <2>4. PICK g : RunDef(kind, xs, m - 1, g)
    BY <2>3
  <2>5. \E f : RunDef(kind, xs, (m - 1) + 1, f)
    BY <2>3, <2>4, RunGrows
  <2> QED BY <2>1, <2>5
<1>2. \E f : RunDef(kind, xs, n, f)
  BY <1>1
<1> QED BY <1>2 DEF RunOf

(* A fold runs: its values on the prefixes, in order.                       *)
RunsTo(kind, xs, n, h) ==
  /\ h[0] = RunStart(kind)
  /\ \A i \in 1..n : h[i] = RunStep(kind, h[i - 1], xs[i])
  /\ RunOf(kind, xs, n)[1..n] = h[n]

LEMMA Runs ==
  ASSUME NEW kind, NEW xs, NEW n \in Nat
  PROVE  \E h : RunsTo(kind, xs, n, h)
<1> DEFINE f == RunOf(kind, xs, n)
           h == [i \in 0..n |-> f[1..i]]
<1>7. RunDef(kind, xs, n, f)
  BY RunDefined
<1>2. \A i \in 0..n : h[i] = f[1..i]
  OBVIOUS
<1> HIDE DEF f, h
<1>1. \A s \in SUBSET (1..n) :
        f[s] = IF s = {} THEN RunStart(kind) ELSE RunStep(kind, f[s \ {Max(s)}], xs[Max(s)])
  BY <1>7 DEF RunDef
<1>3. h[0] = RunStart(kind)
  <2>1. h[0] = f[1..0]
    BY <1>2
  <2>2. 1..0 = {} /\ {} \in SUBSET (1..n)
    OBVIOUS
  <2>3. f[{}] = RunStart(kind)
    BY <1>1, <2>2
  <2> QED BY <2>1, <2>2, <2>3
<1>4. ASSUME NEW i \in 1..n
      PROVE  h[i] = RunStep(kind, h[i - 1], xs[i])
  <2>1. h[i] = f[1..i] /\ h[i - 1] = f[1..(i - 1)]
    BY <1>2
  <2>2. Max(1..i) = i
    BY GreatestIs
  <2>3. (1..i) \ {i} = 1..(i - 1) /\ 1..i \in SUBSET (1..n) /\ 1..i # {}
    OBVIOUS
  <2>4. f[1..i] = RunStep(kind, f[(1..i) \ {Max(1..i)}], xs[Max(1..i)])
    BY <1>1, <2>3
  <2> QED BY <2>1, <2>2, <2>3, <2>4
<1>5. f[1..n] = h[n]
  BY <1>2
<1>6. RunsTo(kind, xs, n, h)
  BY <1>3, <1>4, <1>5 DEF RunsTo, f
<1> QED BY <1>6

(* What the start has and every step keeps, the fold has.                   *)
LEMMA RunKeeps ==
  ASSUME NEW kind, NEW xs, NEW n \in Nat, NEW S, RunStart(kind) \in S,
         \A scan \in S, i \in 1..n : RunStep(kind, scan, xs[i]) \in S
  PROVE  RunOf(kind, xs, n)[1..n] \in S
<1>1. PICK h : RunsTo(kind, xs, n, h)
  BY Runs
<1> DEFINE Wrong == {m \in 0..n : h[m] \notin S}
<1>2. ASSUME Wrong # {}
      PROVE  FALSE
  <2>1. PICK m \in Wrong : \A k \in Wrong : m <= k
    <3>1. Wrong \subseteq Nat
      OBVIOUS
    <3> HIDE DEF Wrong
    <3> QED BY <1>2, <3>1, LeastOfNaturals
  <2>2. m # 0
    BY <1>1 DEF RunsTo
  <2>3. m \in 1..n /\ m - 1 \notin Wrong /\ m - 1 \in 0..n
    BY <2>1, <2>2
  <2>4. h[m - 1] \in S
    BY <2>3
  <2>5. h[m] = RunStep(kind, h[m - 1], xs[m])
    BY <1>1, <2>3 DEF RunsTo
  <2> QED BY <2>1, <2>3, <2>4, <2>5
<1>3. h[n] \in S
  BY <1>2
<1> QED BY <1>1, <1>3 DEF RunsTo

(* SizeOf is a running total: the totals of the prefixes, in order.         *)
Totals(parts, n, h) == h[0] = 0 /\ \A i \in 1..n : h[i] = h[i - 1] + parts[i].size

LEMMA SizeRuns ==
  ASSUME NEW parts, NEW n \in Nat, DOMAIN parts = 1..n
  PROVE  \E h : Totals(parts, n, h) /\ SizeOf(parts) = h[n]
<1>1. PICK h : RunsTo(SizeFold, parts, n, h)
  BY Runs
<1>2. SizeOf(parts) = h[n]
  BY <1>1, SizeIs DEF RunsTo
<1>3. Totals(parts, n, h)
  BY <1>1 DEF RunStart, RunStep, RunsTo, Totals, SizeFold
<1> QED BY <1>2, <1>3

(* Two running totals of the same sizes agree.                              *)
LEMMA TotalsAgree ==
  ASSUME NEW n \in Nat, NEW parts, NEW g, NEW h, Totals(parts, n, g), Totals(parts, n, h)
  PROVE  g[n] = h[n]
<1> DEFINE Apart == {m \in 0..n : g[m] # h[m]}
<1>1. ASSUME Apart # {}
      PROVE  FALSE
  <2>1. PICK m \in Apart : \A k \in Apart : m <= k
    <3>1. Apart \subseteq Nat
      OBVIOUS
    <3> HIDE DEF Apart
    <3> QED BY <1>1, <3>1, LeastOfNaturals
  <2>2. m \in 1..n /\ m - 1 \in 0..n /\ m - 1 \notin Apart
    BY <2>1 DEF Totals
  <2> QED BY <2>1, <2>2 DEF Totals
<1> QED BY <1>1

LEMMA EmptySize == SizeOf(<<>>) = 0
<1>1. DOMAIN <<>> = 1..0
  OBVIOUS
<1>2. PICK h : Totals(<<>>, 0, h) /\ SizeOf(<<>>) = h[0]
  BY <1>1, SizeRuns
<1> QED BY <1>2 DEF Totals

LEMMA AppendedSize ==
  ASSUME NEW T, NEW parts \in Seq(T), NEW part \in T
  PROVE  SizeOf(Append(parts, part)) = SizeOf(parts) + part.size
<1> DEFINE n == Len(parts)
           all == Append(parts, part)
<1>1. n \in Nat /\ DOMAIN parts = 1..n /\ DOMAIN all = 1..(n + 1)
  OBVIOUS
<1>2. all[n + 1] = part /\ \A i \in 1..n : parts[i] = all[i]
  OBVIOUS
<1> HIDE DEF n, all
<1>3. PICK g : Totals(parts, n, g) /\ SizeOf(parts) = g[n]
  BY <1>1, SizeRuns
<1>4. PICK h : Totals(all, n + 1, h) /\ SizeOf(all) = h[n + 1]
  BY <1>1, SizeRuns
<1>5. Totals(parts, n, h)
  BY <1>1, <1>2, <1>4 DEF Totals
<1>6. g[n] = h[n]
  BY <1>1, <1>3, <1>5, TotalsAgree
<1>7. h[n + 1] = h[n] + all[n + 1].size
  <2>1. n + 1 \in 1..(n + 1) /\ (n + 1) - 1 = n
    BY <1>1
  <2> QED BY <1>4, <2>1 DEF Totals
<1>8. SizeOf(all) = SizeOf(parts) + part.size
  BY <1>2, <1>3, <1>4, <1>6, <1>7
<1> QED BY <1>8 DEF all

(* The mask check.  So far: nothing, the header, or the header and only      *)
(* chunks of a body; once it ends, it ended at an IEND after such a body.    *)
WholeUpTo(file, e) ==
  /\ file[1] \in Headers
  /\ \A k \in 2..e : file[k] \in {"tRNS", "IDAT"}
HasAlpha(file, e) == file[1] = "IHDR_alpha" \/ \E k \in 2..e : file[k] = "tRNS"
Scans == [at : {"start", "headless", "body", "bad", "end"}, alpha : BOOLEAN]
Scanned(file, i, scan) ==
  /\ scan \in Scans
  /\ scan.at = "start" => i = 0 /\ ~scan.alpha
  /\ scan.at \in {"headless", "body"} => i > 0
  /\ scan.at = "body" => WholeUpTo(file, i) /\ (scan.alpha => HasAlpha(file, i))
  /\ scan.at = "end" => \E e \in 2..i : /\ file[e] = "IEND" /\ WholeUpTo(file, e - 1)
                                        /\ scan.alpha => HasAlpha(file, e - 1)

LEMMA ScanStarts == ASSUME NEW file PROVE Scanned(file, 0, RunStart(PngFold))
BY DEF Scanned, RunStart, Scans, PngFold

LEMMA BodyGrows ==
  ASSUME NEW file, NEW i \in Nat, i > 0, WholeUpTo(file, i), file[i + 1] \in {"tRNS", "IDAT"}
  PROVE  WholeUpTo(file, i + 1)
<1>1. \A k \in 2..(i + 1) : k \in 2..i \/ k = i + 1
  OBVIOUS
<1> QED BY <1>1 DEF WholeUpTo

LEMMA AlphaStays ==
  ASSUME NEW file, NEW i \in Nat, i > 0
  PROVE  /\ HasAlpha(file, i) => HasAlpha(file, i + 1)
         /\ file[i + 1] = "tRNS" => HasAlpha(file, i + 1)
<1>1. \A k \in 2..i : k \in 2..(i + 1)
  OBVIOUS
<1>2. i + 1 \in 2..(i + 1)
  OBVIOUS
<1> QED BY <1>1, <1>2 DEF HasAlpha

LEMMA ScanStep ==
  ASSUME NEW file, NEW i \in Nat, NEW scan, Scanned(file, i, scan), file[i + 1] \in Chunks
  PROVE  Scanned(file, i + 1, Chunk(scan, file[i + 1]))
<1> DEFINE c == file[i + 1]
           next == Chunk(scan, c)
<1> USE DEF Headers
<1>1. next \in Scans
  BY DEF Scanned, Scans, Chunk
<1>2. CASE scan.at = "start"
  <2>1. i = 0 /\ i + 1 = 1
    BY <1>2 DEF Scanned
  <2>2. next.at # "start" /\ next.at # "end"
    BY <1>2 DEF Scanned, Scans, Chunk, Chunks
  <2>3. next.at = "body" => c \in Headers /\ (next.alpha <=> c = "IHDR_alpha")
    BY <1>2 DEF Scanned, Scans, Chunk, Chunks
  <2>4. next.at = "body" => WholeUpTo(file, i + 1) /\ (next.alpha => HasAlpha(file, i + 1))
    <3>1. c = file[1] /\ \A k \in 2..(i + 1) : FALSE
      BY <2>1
    <3> QED BY <2>3, <3>1 DEF WholeUpTo, HasAlpha
  <2> QED BY <1>1, <2>1, <2>2, <2>4 DEF Scanned
<1>3. CASE scan.at = "headless"
  <2>1. next.at \in {"headless", "bad"}
    BY <1>3 DEF Scanned, Scans, Chunk, Chunks
  <2> QED BY <1>1, <2>1 DEF Scanned
<1>4. CASE scan.at = "bad"
  <2>1. next.at = "bad"
    BY <1>4 DEF Chunk
  <2> QED BY <1>1, <2>1 DEF Scanned
<1>5. CASE scan.at = "end"
  <2>1. next = scan
    BY <1>5 DEF Scanned, Scans, Chunk
  <2>2. \A e \in 2..i : e \in 2..(i + 1)
    OBVIOUS
  <2>3. PICK e \in 2..i : /\ file[e] = "IEND" /\ WholeUpTo(file, e - 1)
                          /\ scan.alpha => HasAlpha(file, e - 1)
    BY <1>5 DEF Scanned
  <2> QED BY <1>1, <1>5, <2>1, <2>2, <2>3 DEF Scanned
<1>6. CASE scan.at = "body"
  <2>1. WholeUpTo(file, i) /\ (scan.alpha => HasAlpha(file, i)) /\ i > 0
    BY <1>6 DEF Scanned
  <2>2. CASE c \in {"tRNS", "IDAT"}
    <3>1. next.at = "body" /\ (next.alpha => scan.alpha \/ c = "tRNS")
      BY <1>6, <2>2 DEF Scanned, Scans, Chunk
    <3>2. WholeUpTo(file, i + 1) /\ (next.alpha => HasAlpha(file, i + 1))
      BY <2>1, <2>2, <3>1, BodyGrows, AlphaStays
    <3> QED BY <1>1, <3>1, <3>2 DEF Scanned
  <2>3. CASE c = "IEND"
    <3>1. next.at = "end" /\ next.alpha = scan.alpha
      BY <1>6, <2>3 DEF Scanned, Scans, Chunk
    <3>2. i + 1 \in 2..(i + 1) /\ (i + 1) - 1 = i
      BY <2>1
    <3> QED BY <1>1, <2>1, <2>3, <3>1, <3>2 DEF Scanned
  <2>4. CASE c \notin {"tRNS", "IDAT", "IEND"}
    <3>1. next.at = "bad"
      BY <1>6, <2>4 DEF Scanned, Scans, Chunk, Chunks
    <3> QED BY <1>1, <3>1 DEF Scanned
  <2> QED BY <2>2, <2>3, <2>4
<1> QED BY <1>2, <1>3, <1>4, <1>5, <1>6 DEF Scanned, Scans

ScanRuns(file, n, h) ==
  h[0] = RunStart(PngFold) /\ \A i \in 1..n : h[i] = Chunk(h[i - 1], file[i])

LEMMA PngRuns ==
  ASSUME NEW file, NEW n \in Nat, DOMAIN file = 1..n
  PROVE  \E h : ScanRuns(file, n, h) /\ PngMetadata(file) = h[n]
<1>1. PICK h : RunsTo(PngFold, file, n, h)
  BY Runs
<1>2. PngMetadata(file) = h[n]
  BY <1>1, PngIs DEF RunsTo
<1>3. ScanRuns(file, n, h)
  BY <1>1 DEF RunStep, RunsTo, ScanRuns, PngFold
<1> QED BY <1>2, <1>3

(* What _png_metadata accepts, for a file of any length.                    *)
LEMMA PngIsWhole ==
  ASSUME NEW n \in Nat, NEW file \in [1..n -> Chunks], IsPng(file), PngMetadata(file).alpha
  PROVE  \E e \in 2..n : /\ file[e] = "IEND" /\ WholeUpTo(file, e - 1)
                         /\ HasAlpha(file, e - 1)
<1>1. DOMAIN file = 1..n
  OBVIOUS
<1>2. PICK h : ScanRuns(file, n, h) /\ PngMetadata(file) = h[n]
  BY <1>1, PngRuns
<1> DEFINE Wrong == {m \in 0..n : ~Scanned(file, m, h[m])}
<1>3. ASSUME Wrong # {}
      PROVE  FALSE
  <2>1. PICK m \in Wrong : \A k \in Wrong : m <= k
    <3>1. Wrong \subseteq Nat
      OBVIOUS
    <3> HIDE DEF Wrong
    <3> QED BY <1>3, <3>1, LeastOfNaturals
  <2>2. m # 0
    BY <1>2, ScanStarts DEF ScanRuns
  <2>3. m - 1 \in Nat /\ (m - 1) + 1 = m /\ m \in 1..n /\ m - 1 \notin Wrong
    BY <2>1, <2>2
  <2>4. Scanned(file, m - 1, h[m - 1])
    BY <2>3
  <2>5. h[m] = Chunk(h[m - 1], file[m])
    BY <1>2, <2>3 DEF ScanRuns
  <2>6. Scanned(file, (m - 1) + 1, Chunk(h[m - 1], file[(m - 1) + 1]))
    BY <2>3, <2>4, ScanStep
  <2> QED BY <2>1, <2>3, <2>5, <2>6
<1>4. Scanned(file, n, h[n])
  BY <1>3
<1> QED BY <1>2, <1>4 DEF Scanned, IsPng

LEMMA SentMaskIsPng ==
  ASSUME NEW source, NEW n \in Nat, NEW file \in [1..n -> Chunks], MaskFits(source, file)
  PROVE  \E e \in 1..Len(file) :
           /\ file[e] = "IEND" /\ file[1] \in Headers
           /\ \A k \in 2..(e - 1) : file[k] \in {"tRNS", "IDAT"}
           /\ file[1] = "IHDR_alpha" \/ \E k \in 2..(e - 1) : file[k] = "tRNS"
<1>1. PICK e \in 2..n : /\ file[e] = "IEND" /\ WholeUpTo(file, e - 1)
                        /\ HasAlpha(file, e - 1)
  BY PngIsWhole DEF MaskFits
<1>2. Len(file) = n /\ e \in 1..n
  OBVIOUS
<1> QED BY <1>1, <1>2 DEF WholeUpTo, HasAlpha

(* The state of a request, and what every step of it keeps.                 *)
PictureRecords ==
  [place : {"none", "upload", "generated", "expired"}, owner : ImageUsers \cup {NoOwner},
   size : Nat, signed : BOOLEAN, origin : {"none", "preview", "completed"}]
PartRecords == [id : Pictures, size : Nat]
Outcomes == {"none", "refused", "failed", "answered", "completed"}
AskRecords ==
  [pc : {"idle", "read", "prepare", "look", "store", "stream", "done"},
   user : ImageUsers \cup {NoOwner}, mode : {"none", "generate", "edit", "analyze"},
   streamed : BOOLEAN, refs : Seq(Refs), mask : BOOLEAN, cache : SUBSET Refs,
   parts : Seq(PartRecords), decoded : Nat, first : {"none", "png", "other"},
   file : MaskFiles, left : Int, ids : SUBSET Pictures, outcome : Outcomes]

PartsOwned(p, parts, user) ==
  \A k \in 1..Len(parts) : p[parts[k].id].owner = user /\ p[parts[k].id].place # "none"
FinalIs(p, i, user) ==
  /\ p[i].place # "none" /\ p[i].owner = user /\ p[i].origin = "completed"
  /\ p[i].signed <=> SignFinal
MaskWhole(file) ==
  file # <<>> =>
    \E e \in 1..Len(file) :
      /\ file[e] = "IEND" /\ file[1] \in Headers
      /\ \A k \in 2..(e - 1) : file[k] \in {"tRNS", "IDAT"}
      /\ file[1] = "IHDR_alpha" \/ \E k \in 2..(e - 1) : file[k] = "tRNS"

RequestOk(p, a) ==
  /\ p \in [Pictures -> PictureRecords] /\ a \in AskRecords
  /\ PartsOwned(p, a.parts, a.user)
  /\ \A i \in a.ids : FinalIs(p, i, a.user)
  /\ \A i \in Pictures : p[i].signed => p[i].origin = "completed"
  /\ a.outcome = "completed" => a.ids # {}
  /\ SizeOf(a.parts) <= ImageMaxBytes /\ a.decoded <= ImageMaxBytes
  /\ MaskWhole(a.file)
ImagesInv == RequestOk(pictures, ask)

LEMMA RequestIsKept == ImagesInv => ImagesKept
BY DEF ImagesInv, RequestOk, ImagesKept, OnlyOwnImages, PartsOwned, WithinBudget, Charged,
       OnlyCompletedIsFinal, FinalIs, MaskIsPng, MaskWhole

LEMMA NothingInMask == <<>> \in MaskFiles /\ MaskWhole(<<>>)
<1>1. <<>> \in [1..0 -> Chunks] /\ 0 \in 0..MaxChunks
  BY ImagesAssumption
<1> QED BY <1>1 DEF MaskFiles, MaskWhole

LEMMA PartIsPicture ==
  ASSUME NEW parts \in Seq(PartRecords), NEW k \in 1..Len(parts)
  PROVE  parts[k] \in PartRecords /\ parts[k].id \in Pictures
<1>1. parts[k] \in PartRecords
  OBVIOUS
<1> QED BY <1>1 DEF PartRecords

(* A new request has read nothing and made nothing.                         *)
LEMMA FreshIsOk ==
  ASSUME NEW p, NEW a, RequestOk(p, a), NEW b \in AskRecords, b.parts = <<>>, b.ids = {},
         b.decoded = 0, b.file = <<>>, b.outcome # "completed"
  PROVE  RequestOk(p, b)
<1>1. PartsOwned(p, b.parts, b.user)
  BY DEF PartsOwned
<1>2. SizeOf(b.parts) <= ImageMaxBytes /\ b.decoded <= ImageMaxBytes
  BY EmptySize, ImagesAssumption
<1> QED BY <1>1, <1>2, NothingInMask DEF RequestOk

(* A request that goes on keeps what it made, and what it read or nothing.  *)
LEMMA GoesOnOk ==
  ASSUME NEW p, NEW a, RequestOk(p, a), NEW b \in AskRecords, b.user = a.user,
         b.parts = a.parts \/ b.parts = <<>>, b.ids = a.ids, b.decoded <= ImageMaxBytes,
         b.file = a.file \/ b.file = <<>>, b.outcome = "completed" => b.ids # {}
  PROVE  RequestOk(p, b)
<1>1. PartsOwned(p, b.parts, b.user)
  BY DEF PartsOwned, RequestOk
<1>2. SizeOf(b.parts) <= ImageMaxBytes
  BY EmptySize, ImagesAssumption DEF RequestOk
<1>3. MaskWhole(b.file)
  BY NothingInMask DEF RequestOk
<1> QED BY <1>1, <1>2, <1>3 DEF RequestOk

(* One more part of its user fits the budget.                               *)
LEMMA PartTakenOk ==
  ASSUME NEW p, NEW a, RequestOk(p, a), NEW part \in PartRecords,
         p[part.id].owner = a.user, p[part.id].place # "none",
         SizeOf(a.parts) + part.size <= ImageMaxBytes,
         NEW b \in AskRecords, b.user = a.user, b.parts = Append(a.parts, part),
         b.ids = a.ids, b.decoded <= ImageMaxBytes, MaskWhole(b.file), b.outcome = a.outcome
  PROVE  RequestOk(p, b)
<1>1. a.parts \in Seq(PartRecords)
  BY DEF RequestOk, AskRecords
<1>2. SizeOf(b.parts) <= ImageMaxBytes
  BY <1>1, AppendedSize
<1>3. PartsOwned(p, b.parts, b.user)
  <2>1. SUFFICES ASSUME NEW k \in 1..Len(b.parts)
                 PROVE  p[b.parts[k].id].owner = b.user /\ p[b.parts[k].id].place # "none"
    BY DEF PartsOwned
  <2>2. \/ k \in 1..Len(a.parts) /\ b.parts[k] = a.parts[k]
        \/ b.parts[k] = part
    BY <1>1
  <2> QED BY <2>2 DEF RequestOk, PartsOwned
<1> QED BY <1>2, <1>3 DEF RequestOk

(* What is stored takes a free place; nothing a request holds is free.      *)
LEMMA StoredOk ==
  ASSUME NEW p, NEW a, RequestOk(p, a), NEW i \in Pictures, p[i].place = "none",
         NEW r \in PictureRecords, r.signed => r.origin = "completed"
  PROVE  RequestOk([p EXCEPT ![i] = r], a)
<1> DEFINE q == [p EXCEPT ![i] = r]
<1>1. q \in [Pictures -> PictureRecords] /\ \A j \in Pictures : j # i => q[j] = p[j]
  BY DEF RequestOk
<1>2. q[i] = r
  BY DEF RequestOk
<1>3. a.parts \in Seq(PartRecords) /\ a.ids \subseteq Pictures
  BY DEF RequestOk, AskRecords
<1> HIDE DEF q
<1>4. PartsOwned(q, a.parts, a.user)
  <2>1. \A k \in 1..Len(a.parts) : a.parts[k].id \in Pictures /\ a.parts[k].id # i
    BY <1>3, PartIsPicture DEF RequestOk, PartsOwned
  <2> QED BY <1>1, <2>1 DEF RequestOk, PartsOwned
<1>5. \A j \in a.ids : FinalIs(q, j, a.user)
  <2>1. \A j \in a.ids : j \in Pictures /\ j # i
    BY <1>3 DEF RequestOk, FinalIs
  <2> QED BY <1>1, <2>1 DEF RequestOk, FinalIs
<1>6. \A j \in Pictures : q[j].signed => q[j].origin = "completed"
  BY <1>1, <1>2 DEF RequestOk
<1>7. RequestOk(q, a)
  BY <1>1, <1>4, <1>5, <1>6 DEF RequestOk
<1> QED BY <1>7 DEF q

LEMMA ExpiredOk ==
  ASSUME NEW p, NEW a, RequestOk(p, a), NEW i \in Pictures
  PROVE  RequestOk([p EXCEPT ![i] = [@ EXCEPT !.place = "expired"]], a)
<1> DEFINE q == [p EXCEPT ![i] = [@ EXCEPT !.place = "expired"]]
<1>1. q \in [Pictures -> PictureRecords]
  BY DEF RequestOk, PictureRecords
<1>2. ASSUME NEW j \in Pictures
      PROVE  /\ q[j].owner = p[j].owner /\ q[j].origin = p[j].origin
             /\ q[j].signed = p[j].signed /\ (p[j].place # "none" => q[j].place # "none")
  BY DEF RequestOk, PictureRecords
<1>3. a.parts \in Seq(PartRecords) /\ a.ids \subseteq Pictures
  BY DEF RequestOk, AskRecords
<1> HIDE DEF q
<1>4. PartsOwned(q, a.parts, a.user)
  <2>1. \A k \in 1..Len(a.parts) : a.parts[k].id \in Pictures
    BY <1>3, PartIsPicture
  <2> QED BY <1>2, <2>1 DEF RequestOk, PartsOwned
<1>5. \A j \in a.ids : FinalIs(q, j, a.user)
  <2>1. \A j \in a.ids : j \in Pictures /\ FinalIs(p, j, a.user)
    BY <1>3 DEF RequestOk
  <2> QED BY <1>2, <2>1 DEF FinalIs
<1>6. \A j \in Pictures : q[j].signed => q[j].origin = "completed"
  BY <1>2 DEF RequestOk
<1>7. RequestOk(q, a)
  BY <1>1, <1>4, <1>5, <1>6 DEF RequestOk
<1> QED BY <1>7 DEF q

(* A stored final is one of the request's.                                  *)
LEMMA FinalAddedOk ==
  ASSUME NEW p, NEW a, RequestOk(p, a), NEW i \in Pictures, FinalIs(p, i, a.user),
         NEW b \in AskRecords, b.user = a.user, b.parts = a.parts,
         b.ids = a.ids \cup {i}, b.decoded = a.decoded, b.file = a.file
  PROVE  RequestOk(p, b)
BY DEF RequestOk

LEMMA ImageIdleIs == ImageIdle \in AskRecords
<1>1. <<>> \in Seq(Refs) /\ <<>> \in Seq(PartRecords)
  OBVIOUS
<1>2. 0 \in Nat /\ 0 \in Int
  OBVIOUS
<1> QED BY <1>1, <1>2, NothingInMask DEF ImageIdle, AskRecords, Outcomes

LEMMA ImagesStart == ImagesInit => ImagesInv
<1>1. SUFFICES ASSUME ImagesInit PROVE ImagesInv
  OBVIOUS
<1>2. pictures \in [Pictures -> PictureRecords] /\ \A i \in Pictures : ~pictures[i].signed
  BY <1>1 DEF ImagesInit, Absent, PictureRecords
<1>3. SizeOf(ask.parts) <= ImageMaxBytes /\ ask.decoded <= ImageMaxBytes
  BY <1>1, EmptySize, ImagesAssumption DEF ImagesInit, ImageIdle
<1>4. PartsOwned(pictures, ask.parts, ask.user) /\ ask.ids = {} /\ ask.outcome = "none"
  BY <1>1 DEF ImagesInit, ImageIdle, PartsOwned
<1>5. MaskWhole(ask.file) /\ ask \in AskRecords
  BY <1>1, NothingInMask, ImageIdleIs DEF ImagesInit, ImageIdle
<1> QED BY <1>2, <1>3, <1>4, <1>5 DEF ImagesInv, RequestOk

(* The ends of a request, and its new beginnings.                           *)
LEMMA EndOk ==
  ASSUME NEW p, RequestOk(p, ask), NEW outcome \in Outcomes, End(outcome),
         outcome = "completed" => ask.ids # {}
  PROVE  RequestOk(p, ask')
<1>1. ask.user \in ImageUsers \cup {NoOwner} /\ ask.ids \subseteq Pictures
  BY DEF RequestOk, AskRecords
<1>2. ask' \in AskRecords
  BY <1>1, ImageIdleIs DEF End, AskRecords
<1>3. /\ ask'.user = ask.user /\ ask'.parts = <<>> /\ ask'.ids = ask.ids
      /\ ask'.decoded = 0 /\ ask'.file = <<>> /\ ask'.outcome = outcome
  BY DEF End, ImageIdle
<1>4. ask'.decoded <= ImageMaxBytes
  BY <1>3, ImagesAssumption
<1> HIDE DEF End
<1> QED BY <1>2, <1>3, <1>4, GoesOnOk

LEMMA RefuseOk == ImagesInv /\ Refuse => ImagesInv'
BY EndOk DEF Refuse, ImagesInv, Outcomes

LEMMA UploadOk ==
  ASSUME ImagesInv, NEW i \in Pictures, NEW user \in ImageUsers, NEW size \in 1..MaxFileSize,
         Upload(i, user, size)
  PROVE  ImagesInv'
<1> DEFINE r == [Absent EXCEPT !.place = "upload", !.owner = user, !.size = size]
<1>1. Absent \in PictureRecords /\ size \in Nat
  BY ImagesAssumption DEF Absent, PictureRecords
<1>3. r \in PictureRecords /\ r.signed = FALSE
  BY <1>1 DEF PictureRecords, Absent
<1>2. pictures[i].place = "none" /\ pictures' = [pictures EXCEPT ![i] = r] /\ ask' = ask
  BY DEF Upload, Free
<1> HIDE DEF r
<1> QED BY <1>2, <1>3, StoredOk DEF ImagesInv

LEMMA ExpireOk ==
  ASSUME ImagesInv, NEW i \in Pictures, Expire(i)
  PROVE  ImagesInv'
BY ExpiredOk DEF ImagesInv, Expire

LEMMA GenerateOk ==
  ASSUME ImagesInv, NEW user \in ImageUsers, NEW streamed \in BOOLEAN, Generate(user, streamed)
  PROVE  ImagesInv'
<1>1. ask' \in AskRecords
  BY ImageIdleIs DEF Generate, AskRecords, Outcomes
<1>2. /\ ask'.parts = <<>> /\ ask'.ids = {} /\ ask'.decoded = 0 /\ ask'.file = <<>>
      /\ ask'.outcome = "none" /\ pictures' = pictures
  BY DEF Generate, ImageIdle
<1> QED BY <1>1, <1>2, FreshIsOk DEF ImagesInv

LEMMA EditOk ==
  ASSUME ImagesInv, NEW user \in ImageUsers, NEW refs \in Seq(Refs), NEW mask \in BOOLEAN,
         NEW streamed \in BOOLEAN, Edit(user, refs, mask, streamed)
  PROVE  ImagesInv'
<1>1. ask' \in AskRecords
  BY ImageIdleIs DEF Edit, AskRecords, Outcomes
<1>2. /\ ask'.parts = <<>> /\ ask'.ids = {} /\ ask'.decoded = 0 /\ ask'.file = <<>>
      /\ ask'.outcome = "none" /\ pictures' = pictures
  BY DEF Edit, ImageIdle
<1> QED BY <1>1, <1>2, FreshIsOk DEF ImagesInv

LEMMA AnalyzeUrlOk ==
  ASSUME ImagesInv, NEW user \in ImageUsers, NEW public \in BOOLEAN, AnalyzeUrl(user, public)
  PROVE  ImagesInv'
<1>1. ask' \in AskRecords
  BY ImageIdleIs DEF AnalyzeUrl, AskRecords, Outcomes
<1>2. /\ ask'.parts = <<>> /\ ask'.ids = {} /\ ask'.decoded = 0 /\ ask'.file = <<>>
      /\ ask'.outcome # "completed" /\ pictures' = pictures
  BY DEF AnalyzeUrl, ImageIdle
<1> QED BY <1>1, <1>2, FreshIsOk DEF ImagesInv

LEMMA ImageAnsweredOk == ImagesInv /\ ImageAnswered => ImagesInv'
<1>1. /\ ImageIdle.parts = <<>> /\ ImageIdle.ids = {} /\ ImageIdle.decoded = 0
      /\ ImageIdle.file = <<>> /\ ImageIdle.outcome = "none"
  BY DEF ImageIdle
<1> QED BY <1>1, ImageIdleIs, FreshIsOk DEF ImagesInv, ImageAnswered

LEMMA AnalyzeOk ==
  ASSUME ImagesInv, NEW user \in ImageUsers, NEW ref \in Refs, Analyze(user, ref)
  PROVE  ImagesInv'
<1> DEFINE looks == [ImageIdle EXCEPT !.pc = "look", !.user = user, !.mode = "analyze"]
           part == [id |-> ref.id, size |-> 0]
<1>1. part \in PartRecords /\ ref.id \in Pictures
  BY DEF Refs, PartRecords
<1>2. CASE /\ Readable(user, ref)
           /\ ask' = [ImageIdle EXCEPT !.pc = "look", !.user = user, !.mode = "analyze",
                                       !.parts = <<part>>]
  <2>1. looks \in AskRecords
    BY ImageIdleIs DEF AskRecords, Outcomes
  <2>2. /\ looks.parts = <<>> /\ looks.ids = {} /\ looks.decoded = 0 /\ looks.file = <<>>
        /\ looks.outcome = "none" /\ looks.user = user
    BY DEF ImageIdle
  <2>3. RequestOk(pictures, looks)
    BY <2>1, <2>2, FreshIsOk DEF ImagesInv
  <2>4. <<part>> \in Seq(PartRecords) /\ <<part>> = Append(<<>>, part)
    BY <1>1
  <2>5. ask' \in AskRecords
    BY <1>2, <2>4, ImageIdleIs DEF AskRecords, Outcomes
  <2>6. /\ ask'.user = user /\ ask'.parts = <<part>> /\ ask'.ids = {} /\ ask'.decoded = 0
        /\ ask'.file = <<>> /\ ask'.outcome = "none"
    BY <1>2 DEF ImageIdle
  <2>7. pictures[part.id].owner = user /\ pictures[part.id].place # "none"
    BY <1>2 DEF Readable
  <2>8. SizeOf(looks.parts) + part.size <= ImageMaxBytes /\ 0 <= ImageMaxBytes
    BY <2>2, EmptySize, ImagesAssumption
  <2> HIDE DEF looks, part
  <2>9. RequestOk(pictures, ask')
    BY <1>1, <2>2, <2>3, <2>4, <2>5, <2>6, <2>7, <2>8, NothingInMask, PartTakenOk
  <2> QED BY <2>9 DEF Analyze, ImagesInv
<1>3. CASE ask' = [ImageIdle EXCEPT !.pc = "done", !.user = user, !.mode = "analyze",
                                    !.outcome = "refused"]
  <2>1. ask' \in AskRecords
    BY <1>3, ImageIdleIs DEF AskRecords, Outcomes
  <2>2. /\ ask'.parts = <<>> /\ ask'.ids = {} /\ ask'.decoded = 0 /\ ask'.file = <<>>
        /\ ask'.outcome # "completed"
    BY <1>3 DEF ImageIdle
  <2> QED BY <2>1, <2>2, FreshIsOk DEF ImagesInv, Analyze
<1> QED BY <1>2, <1>3 DEF Analyze

LEMMA RouteIsRef == ASSUME NEW i \in Pictures PROVE GeneratedRoute(i) \in Refs
BY DEF GeneratedRoute, Refs

(* Reading: a source from the cache or from storage, and the mask.          *)
LEMMA ReadableIsOwned ==
  ASSUME NEW user, NEW ref, Readable(user, ref)
  PROVE  pictures[ref.id].owner = user /\ pictures[ref.id].place # "none"
BY DEF Readable

LEMMA TookOk ==
  ASSUME ImagesInv, ask.refs # <<>>, NEW size \in Nat, AddPart(size),
         pictures[Head(ask.refs).id].owner = ask.user,
         pictures[Head(ask.refs).id].place # "none",
         NEW decoded \in Nat, decoded <= ImageMaxBytes, NEW first \in {"none", "png", "other"}
  PROVE  RequestOk(pictures, [Took(Head(ask.refs), size) EXCEPT !.decoded = decoded,
                                                               !.first = first])
<1> DEFINE ref == Head(ask.refs)
           part == [id |-> ref.id, size |-> size]
           b == [Took(ref, size) EXCEPT !.decoded = decoded, !.first = first]
<1>1. ask \in AskRecords /\ ask.refs \in Seq(Refs) /\ ask.parts \in Seq(PartRecords)
  BY DEF ImagesInv, RequestOk, AskRecords
<1>2. ref \in Refs /\ Tail(ask.refs) \in Seq(Refs)
  BY <1>1
<1>3. ref.id \in Pictures
  BY <1>2 DEF Refs
<1> HIDE DEF ref
<1>4. part \in PartRecords
  BY <1>3 DEF PartRecords
<1>5. Append(ask.parts, part) \in Seq(PartRecords)
  BY <1>1, <1>4
<1>6. b \in AskRecords
  BY <1>1, <1>2, <1>5 DEF Took, AskRecords
<1>7. /\ b.user = ask.user /\ b.parts = Append(ask.parts, part) /\ b.ids = ask.ids
      /\ b.decoded = decoded /\ b.file = ask.file /\ b.outcome = ask.outcome
  BY <1>1 DEF Took, AskRecords
<1>8. SizeOf(ask.parts) + part.size <= ImageMaxBytes
  BY DEF AddPart, Charged
<1>9. pictures[part.id].owner = ask.user /\ pictures[part.id].place # "none"
  BY DEF ref
<1>10. MaskWhole(b.file)
  BY <1>7 DEF ImagesInv, RequestOk
<1> HIDE DEF b, part
<1>11. RequestOk(pictures, b)
  BY <1>4, <1>6, <1>7, <1>8, <1>9, <1>10, PartTakenOk DEF ImagesInv
<1> QED BY <1>11 DEF b, ref

LEMMA ReadSourceOk == ImagesInv /\ ReadSource => ImagesInv'
<1> SUFFICES ASSUME ImagesInv, ReadSource PROVE ImagesInv'
  OBVIOUS
<1> DEFINE ref == Head(ask.refs)
           same == {k \in 1..Len(ask.parts) : ask.parts[k].id = ref.id}
<1>1. ask \in AskRecords /\ ask.refs \in Seq(Refs) /\ ask.parts \in Seq(PartRecords)
  BY DEF ImagesInv, RequestOk, AskRecords
<1>2. ask.refs # <<>> /\ ref \in Refs /\ ref.id \in Pictures
  <2>1. ask.refs # <<>>
    BY DEF ReadSource
  <2>2. ref \in Refs
    BY <1>1, <2>1
  <2> HIDE DEF ref
  <2> QED BY <2>1, <2>2 DEF Refs
<1>3. /\ ask.decoded \in Nat /\ ask.decoded <= ImageMaxBytes
      /\ ask.first \in {"none", "png", "other"}
  BY DEF ImagesInv, RequestOk, AskRecords
<1>4. CASE Refuse
  BY <1>4, RefuseOk
<1>5. ASSUME NEW k \in same, AddPart(ask.parts[k].size),
             ask' = Took(ref, ask.parts[k].size), pictures' = pictures
      PROVE  ImagesInv'
  <2>1. k \in 1..Len(ask.parts) /\ ask.parts[k].id = ref.id
    OBVIOUS
  <2>2. ask.parts[k] \in PartRecords
    BY <1>1, <2>1
  <2>3. ask.parts[k].size \in Nat
    BY <2>2 DEF PartRecords
  <2>4. pictures[ref.id].owner = ask.user /\ pictures[ref.id].place # "none"
    BY <2>1 DEF ImagesInv, RequestOk, PartsOwned
  <2>5. Took(ref, ask.parts[k].size)
          = [Took(ref, ask.parts[k].size) EXCEPT !.decoded = ask.decoded, !.first = ask.first]
    BY <1>1 DEF Took, AskRecords
  <2> HIDE DEF ref
  <2>6. RequestOk(pictures, [Took(ref, ask.parts[k].size) EXCEPT !.decoded = ask.decoded,
                                                                !.first = ask.first])
    BY <1>2, <1>3, <1>5, <2>3, <2>4, TookOk DEF ref
  <2> QED BY <1>5, <2>5, <2>6 DEF ImagesInv
<1>6. ASSUME Readable(ask.user, ref), Decodes(pictures[ref.id].size),
             NEW still \in NormalizeEditSource(pictures[ref.id].size), AddPart(still.size),
             ask' = [Took(ref, still.size) EXCEPT
                       !.decoded = @ + pictures[ref.id].size,
                       !.first = IF ask.parts = <<>> THEN still.kind ELSE @],
             pictures' = pictures
      PROVE  ImagesInv'
  <2>1. pictures[ref.id].size \in Nat
    BY <1>2 DEF ImagesInv, RequestOk, PictureRecords
  <2>2. still.size \in Nat /\ still.kind \in {"png", "other"}
    BY <1>6, <2>1 DEF NormalizeEditSource
  <2> DEFINE decoded == ask.decoded + pictures[ref.id].size
             first == IF ask.parts = <<>> THEN still.kind ELSE ask.first
  <2>3. decoded \in Nat /\ decoded <= ImageMaxBytes /\ first \in {"none", "png", "other"}
    BY <1>3, <1>6, <2>1, <2>2 DEF Decodes
  <2>4. pictures[ref.id].owner = ask.user /\ pictures[ref.id].place # "none"
    BY <1>6, ReadableIsOwned
  <2>5. ask' = [Took(ref, still.size) EXCEPT !.decoded = decoded, !.first = first]
    BY <1>1, <1>6 DEF Took, AskRecords
  <2> HIDE DEF ref, decoded, first
  <2>6. RequestOk(pictures, [Took(ref, still.size) EXCEPT !.decoded = decoded, !.first = first])
    BY <1>2, <1>6, <2>2, <2>3, <2>4, TookOk DEF ref
  <2> QED BY <1>6, <2>5, <2>6 DEF ImagesInv
<1>7. CASE ref \in ask.cache
  <2>1. PICK k \in same : IF AddPart(ask.parts[k].size)
                           THEN ask' = Took(ref, ask.parts[k].size) /\ UNCHANGED pictures
                           ELSE Refuse
    BY <1>7 DEF ReadSource
  <2> QED BY <1>4, <1>5, <2>1
<1>8. CASE ref \notin ask.cache
  <2>1. CASE /\ Readable(ask.user, ref) /\ Decodes(pictures[ref.id].size)
             /\ \E still \in NormalizeEditSource(pictures[ref.id].size) :
                  IF AddPart(still.size)
                  THEN /\ ask' = [Took(ref, still.size) EXCEPT
                                    !.decoded = @ + pictures[ref.id].size,
                                    !.first = IF ask.parts = <<>> THEN still.kind ELSE @]
                       /\ UNCHANGED pictures
                  ELSE Refuse
    <3>1. PICK still \in NormalizeEditSource(pictures[ref.id].size) :
            IF AddPart(still.size)
            THEN /\ ask' = [Took(ref, still.size) EXCEPT
                              !.decoded = @ + pictures[ref.id].size,
                              !.first = IF ask.parts = <<>> THEN still.kind ELSE @]
                 /\ UNCHANGED pictures
            ELSE Refuse
      BY <2>1
    <3> QED BY <1>4, <1>6, <2>1, <3>1
  <2> QED BY <1>4, <1>8, <2>1 DEF ReadSource
<1> QED BY <1>7, <1>8

LEMMA ReadMaskOk == ImagesInv /\ ReadMask => ImagesInv'
<1> SUFFICES ASSUME ImagesInv, ReadMask PROVE ImagesInv'
  OBVIOUS
<1>1. ask \in AskRecords /\ ask.parts \in Seq(PartRecords) /\ ask.decoded \in Nat
  BY DEF ImagesInv, RequestOk, AskRecords
<1>2. CASE Refuse
  BY <1>2, RefuseOk
<1>3. CASE ask' = [ask EXCEPT !.pc = "prepare"] /\ pictures' = pictures
  <2>1. ask' \in AskRecords
    BY <1>1, <1>3 DEF AskRecords
  <2>2. /\ ask'.user = ask.user /\ ask'.parts = ask.parts /\ ask'.ids = ask.ids
        /\ ask'.decoded = ask.decoded /\ ask'.file = ask.file /\ ask'.outcome = ask.outcome
    BY <1>1, <1>3 DEF AskRecords
  <2>3. ask.decoded <= ImageMaxBytes /\ (ask.outcome = "completed" => ask.ids # {})
    BY DEF ImagesInv, RequestOk
  <2> QED BY <1>3, <2>1, <2>2, <2>3, GoesOnOk DEF ImagesInv
<1>4. ASSUME NEW i \in Pictures, NEW file \in MaskFiles,
             Readable(ask.user, [id |-> i, claim |-> NoOwner]),
             Decodes(pictures[i].size), AddPart(pictures[i].size), MaskFits(ask.first, file),
             ask' = [ask EXCEPT !.pc = "prepare", !.file = file,
                                !.decoded = @ + pictures[i].size,
                                !.parts = Append(@, [id |-> i, size |-> pictures[i].size])],
             pictures' = pictures
      PROVE  ImagesInv'
  <2> DEFINE part == [id |-> i, size |-> pictures[i].size]
             ref == [id |-> i, claim |-> NoOwner]
  <2>1. pictures[i].size \in Nat
    BY DEF ImagesInv, RequestOk, PictureRecords
  <2>2. part \in PartRecords
    BY <2>1 DEF PartRecords
  <2>3. Append(ask.parts, part) \in Seq(PartRecords)
    BY <1>1, <2>2
  <2>4. ask' \in AskRecords
    <3> DEFINE parts == Append(ask.parts, part)
               decoded == ask.decoded + pictures[i].size
    <3>1. decoded \in Nat /\ parts \in Seq(PartRecords)
      BY <1>1, <2>1, <2>3
    <3>2. ask' = [ask EXCEPT !.pc = "prepare", !.file = file, !.decoded = decoded,
                             !.parts = parts]
      BY <1>4
    <3> HIDE DEF parts, decoded
    <3> QED BY <1>1, <3>1, <3>2 DEF AskRecords
  <2>5. /\ ask'.user = ask.user /\ ask'.parts = Append(ask.parts, part)
        /\ ask'.ids = ask.ids /\ ask'.decoded = ask.decoded + pictures[i].size
        /\ ask'.file = file /\ ask'.outcome = ask.outcome
    BY <1>1, <1>4 DEF AskRecords
  <2>6. pictures[part.id].owner = ask.user /\ pictures[part.id].place # "none"
    BY <1>4 DEF Readable
  <2>7. SizeOf(ask.parts) + part.size <= ImageMaxBytes /\ ask'.decoded <= ImageMaxBytes
    BY <1>4, <2>5 DEF AddPart, Charged, Decodes
  <2>8. PICK n \in 0..MaxChunks : file \in [1..n -> Chunks]
    BY DEF MaskFiles
  <2>9. MaskWhole(file)
    <3>1. n \in Nat
      BY ImagesAssumption
    <3> QED BY <1>4, <2>8, <3>1, SentMaskIsPng DEF MaskWhole
  <2> HIDE DEF part
  <2>10. RequestOk(pictures, ask')
    BY <2>2, <2>4, <2>5, <2>6, <2>7, <2>9, PartTakenOk DEF ImagesInv
  <2> QED BY <1>4, <2>10 DEF ImagesInv
<1> QED BY <1>2, <1>3, <1>4 DEF ReadMask

(* The call and what is stored of its reply.                                *)
LEMMA AskIs ==
  ASSUME ImagesInv
  PROVE  /\ ask \in AskRecords /\ pictures \in [Pictures -> PictureRecords]
         /\ ask.ids \subseteq Pictures /\ ask.left \in Int
         /\ ask.decoded <= ImageMaxBytes /\ (ask.outcome = "completed" => ask.ids # {})
BY DEF ImagesInv, RequestOk, AskRecords

LEMMA OutcomesAre == {"refused", "failed", "answered", "completed"} \subseteq Outcomes
BY DEF Outcomes

LEMMA LookOk == ImagesInv /\ Look => ImagesInv'
BY EndOk, OutcomesAre DEF Look, ImagesInv

LEMMA NotCalledOk == ImagesInv /\ NotCalled => ImagesInv'
BY EndOk, OutcomesAre DEF NotCalled, ImagesInv

LEMMA InterruptedOk == ImagesInv /\ Interrupted => ImagesInv'
BY EndOk, OutcomesAre DEF Interrupted, ImagesInv

LEMMA EndStreamOk == ImagesInv /\ EndStream => ImagesInv'
BY EndOk, OutcomesAre DEF EndStream, ImagesInv

(* Sent with a new position and count, whatever they are.                   *)
LEMMA SentOk ==
  ASSUME ImagesInv, NEW pc \in {"store", "stream"}, NEW left \in Int,
         ask' = [Sent EXCEPT !.pc = pc, !.left = left], pictures' = pictures
  PROVE  ImagesInv'
<1>1. <<>> \in Seq(PartRecords) /\ <<>> \in MaskFiles /\ {} \in SUBSET Refs
  BY NothingInMask
<1>2. ask' \in AskRecords
  BY <1>1, AskIs DEF Sent, AskRecords
<1>3. /\ ask'.user = ask.user /\ ask'.parts = <<>> /\ ask'.ids = ask.ids
      /\ ask'.decoded = 0 /\ ask'.file = <<>> /\ ask'.outcome = ask.outcome
  BY AskIs DEF Sent, AskRecords
<1>4. ask'.decoded <= ImageMaxBytes
  BY <1>3, ImagesAssumption
<1> QED BY <1>2, <1>3, <1>4, AskIs, GoesOnOk DEF ImagesInv

LEMMA ReplyOk ==
  ASSUME ImagesInv, NEW n \in Nat, NEW items \in [1..n -> BOOLEAN], Reply(items),
         pictures' = pictures
  PROVE  ImagesInv'
<1> DEFINE some == {k \in DOMAIN items : items[k]}
<1>1. CASE End("failed")
  BY <1>1, EndOk, OutcomesAre DEF ImagesInv
<1>2. CASE ask' = [Sent EXCEPT !.pc = "store", !.left = Cardinality(some)]
  <2>1. some \subseteq 1..n /\ IsFiniteSet(1..n)
    BY FS_Interval
  <2>2. Cardinality(some) \in Int
    BY <2>1, FS_Subset, FS_CardinalityType
  <2> HIDE DEF some
  <2> QED BY <1>2, <2>2, SentOk
<1> QED BY <1>1, <1>2 DEF Reply

LEMMA GenerateOnceOk ==
  ASSUME ImagesInv, NEW n \in Nat, NEW items \in [1..n -> BOOLEAN], NEW gif \in BOOLEAN,
         GenerateOnce(items, gif)
  PROVE  ImagesInv'
BY ReplyOk DEF GenerateOnce

LEMMA EditOnceOk ==
  ASSUME ImagesInv, NEW n \in Nat, NEW items \in [1..n -> BOOLEAN], NEW gif \in BOOLEAN,
         EditOnce(items, gif)
  PROVE  ImagesInv'
<1>1. CASE End("refused")
  BY <1>1, EndOk, OutcomesAre DEF ImagesInv, EditOnce
<1>2. CASE Reply(items)
  BY <1>2, ReplyOk DEF EditOnce
<1> QED BY <1>1, <1>2 DEF EditOnce

LEMMA OpenedOk == ImagesInv /\ Opened /\ pictures' = pictures => ImagesInv'
<1>1. MaxEvents \in Int /\ "stream" \in {"store", "stream"}
  BY ImagesAssumption
<1> QED BY <1>1, SentOk DEF Opened

LEMMA StreamGenerateOk ==
  ASSUME ImagesInv, NEW gif \in BOOLEAN, StreamGenerate(gif)
  PROVE  ImagesInv'
BY OpenedOk DEF StreamGenerate

LEMMA StreamEditOk ==
  ASSUME ImagesInv, NEW gif \in BOOLEAN, StreamEdit(gif)
  PROVE  ImagesInv'
BY OpenedOk DEF StreamEdit

LEMMA CountedOk ==
  ASSUME ImagesInv, ask' = [ask EXCEPT !.left = @ - 1]
  PROVE  /\ ask' \in AskRecords
         /\ ask'.user = ask.user /\ ask'.parts = ask.parts /\ ask'.ids = ask.ids
         /\ ask'.decoded = ask.decoded /\ ask'.file = ask.file /\ ask'.outcome = ask.outcome
<1> DEFINE left == ask.left - 1
<1>1. left \in Int /\ ask' = [ask EXCEPT !.left = left]
  BY AskIs
<1> HIDE DEF left
<1> QED BY <1>1, AskIs DEF AskRecords

LEMMA IgnoredOk == ImagesInv /\ Ignored => ImagesInv'
<1> SUFFICES ASSUME ImagesInv, Ignored PROVE ImagesInv'
  OBVIOUS
<1>1. /\ ask' \in AskRecords
      /\ ask'.user = ask.user /\ ask'.parts = ask.parts /\ ask'.ids = ask.ids
      /\ ask'.decoded = ask.decoded /\ ask'.file = ask.file /\ ask'.outcome = ask.outcome
  BY CountedOk DEF Ignored
<1> QED BY <1>1, AskIs, GoesOnOk DEF Ignored, ImagesInv

(* A picture is stored in a free place, signed only as a final.             *)
LEMMA StoredIs ==
  ASSUME ImagesInv, NEW i \in Free, NEW partial \in BOOLEAN,
         NEW origin \in {"preview", "completed"}, partial \/ origin = "completed",
         NEW p, p = Stored(i, ask.user, partial, origin)
  PROVE  /\ RequestOk(p, ask)
         /\ ~partial => FinalIs(p, i, ask.user)
<1> DEFINE r == [place |-> "generated", owner |-> ask.user, size |-> 1,
                 signed |-> ~partial /\ SignFinal, origin |-> origin]
<1>1. i \in Pictures /\ pictures[i].place = "none"
  BY DEF Free
<1>2. ask.user \in ImageUsers \cup {NoOwner}
  BY AskIs DEF AskRecords
<1>3. r \in PictureRecords /\ (r.signed => r.origin = "completed")
  BY <1>2 DEF PictureRecords, SignFinal
<1>4. p = [pictures EXCEPT ![i] = r]
  BY DEF Stored
<1>5. ASSUME ~partial
      PROVE  FinalIs(p, i, ask.user)
  <2>1. p[i] = r
    BY <1>1, <1>4, AskIs
  <2>2. origin = "completed"
    BY <1>5
  <2>3. p[i].signed <=> SignFinal
    <3>1. p[i].signed = (~partial /\ SignFinal)
      BY <2>1
    <3> QED BY <1>5, <3>1 DEF SignFinal
  <2> QED BY <2>1, <2>2, <2>3 DEF FinalIs
<1> HIDE DEF r
<1>6. RequestOk([pictures EXCEPT ![i] = r], ask)
  BY <1>1, <1>3, StoredOk DEF ImagesInv
<1> QED BY <1>4, <1>5, <1>6

LEMMA PreviewOk == ImagesInv /\ Preview => ImagesInv'
<1> SUFFICES ASSUME ImagesInv, Preview PROVE ImagesInv'
  OBVIOUS
<1>1. PICK i \in Free : pictures' = Stored(i, ask.user, TRUE, "preview")
  BY DEF Preview
<1>2. RequestOk(pictures', ask)
  BY <1>1, StoredIs
<1>3. /\ ask' \in AskRecords
      /\ ask'.user = ask.user /\ ask'.parts = ask.parts /\ ask'.ids = ask.ids
      /\ ask'.decoded = ask.decoded /\ ask'.file = ask.file /\ ask'.outcome = ask.outcome
  BY CountedOk DEF Preview
<1>5. RequestOk(pictures', ask')
  BY <1>2, <1>3, AskIs, GoesOnOk
<1> QED BY <1>5 DEF ImagesInv

LEMMA FinalOk ==
  ASSUME ImagesInv, NEW i \in Free, pictures' = Stored(i, ask.user, FALSE, "completed"),
         ask' \in AskRecords, ask'.user = ask.user, ask'.parts = ask.parts,
         ask'.ids = ask.ids \cup {i}, ask'.decoded = ask.decoded, ask'.file = ask.file
  PROVE  ImagesInv'
<1>1. RequestOk(pictures', ask) /\ FinalIs(pictures', i, ask.user) /\ i \in Pictures
  BY StoredIs DEF Free
<1>2. RequestOk(pictures', ask')
  BY <1>1, FinalAddedOk
<1> QED BY <1>2 DEF ImagesInv

LEMMA CompletedOk == ImagesInv /\ Completed => ImagesInv'
<1> SUFFICES ASSUME ImagesInv, Completed PROVE ImagesInv'
  OBVIOUS
<1>1. PICK i \in Free : /\ pictures' = Stored(i, ask.user, FALSE, "completed")
                        /\ ask' = [ask EXCEPT !.left = @ - 1, !.ids = @ \cup {i}]
  BY DEF Completed
<1>2. i \in Pictures
  BY DEF Free
<1>3. ask' \in AskRecords
  <2> DEFINE left == ask.left - 1
             ids == ask.ids \cup {i}
  <2>1. left \in Int /\ ids \in SUBSET Pictures
    BY <1>2, AskIs
  <2>2. ask' = [ask EXCEPT !.left = left, !.ids = ids]
    BY <1>1
  <2> HIDE DEF left, ids
  <2> QED BY <2>1, <2>2, AskIs DEF AskRecords
<1>4. /\ ask'.user = ask.user /\ ask'.parts = ask.parts /\ ask'.ids = ask.ids \cup {i}
      /\ ask'.decoded = ask.decoded /\ ask'.file = ask.file
  BY <1>1, AskIs DEF AskRecords
<1> QED BY <1>1, <1>3, <1>4, FinalOk

LEMMA StoreResultOk == ImagesInv /\ StoreResult => ImagesInv'
<1> SUFFICES ASSUME ImagesInv, StoreResult PROVE ImagesInv'
  OBVIOUS
<1>1. CASE End("failed") /\ pictures' = pictures
  BY <1>1, EndOk, OutcomesAre DEF ImagesInv
<1>2. ASSUME NEW i \in Free, pictures' = Stored(i, ask.user, FALSE, "completed"),
             ask' = [ask EXCEPT !.ids = @ \cup {i}, !.left = @ - 1,
                                !.pc = IF ask.left = 1 THEN "done" ELSE "store",
                                !.outcome = IF ask.left = 1 THEN "completed" ELSE @]
      PROVE  ImagesInv'
  <2>1. i \in Pictures
    BY DEF Free
  <2>2. ask' \in AskRecords
    <3> DEFINE left == ask.left - 1
               ids == ask.ids \cup {i}
               pc == IF ask.left = 1 THEN "done" ELSE "store"
               outcome == IF ask.left = 1 THEN "completed" ELSE ask.outcome
    <3>1. left \in Int /\ ids \in SUBSET Pictures /\ pc \in {"done", "store"}
      BY <2>1, AskIs
    <3>2. outcome \in Outcomes
      BY AskIs DEF AskRecords, Outcomes
    <3>3. ask' = [ask EXCEPT !.ids = ids, !.left = left, !.pc = pc, !.outcome = outcome]
      BY <1>2
    <3> HIDE DEF left, ids, pc, outcome
    <3> QED BY <3>1, <3>2, <3>3, AskIs DEF AskRecords
  <2>3. /\ ask'.user = ask.user /\ ask'.parts = ask.parts /\ ask'.ids = ask.ids \cup {i}
        /\ ask'.decoded = ask.decoded /\ ask'.file = ask.file
    BY <1>2, AskIs DEF AskRecords
  <2> QED BY <1>2, <2>2, <2>3, FinalOk
<1> QED BY <1>1, <1>2 DEF StoreResult

LEMMA ImagesHold == ImagesInv /\ [ImagesNext]_imageVars => ImagesInv'
<1> SUFFICES ASSUME ImagesInv, [ImagesNext]_imageVars PROVE ImagesInv'
  OBVIOUS
<1>1. ASSUME NEW user \in ImageUsers, NEW i \in Pictures, NEW size \in 1..MaxFileSize,
             Upload(i, user, size)
      PROVE  ImagesInv'
  BY <1>1, UploadOk
<1>2. ASSUME NEW user \in ImageUsers, NEW streamed \in BOOLEAN, Generate(user, streamed)
      PROVE  ImagesInv'
  BY <1>2, GenerateOk
<1>3. ASSUME NEW user \in ImageUsers, NEW streamed \in BOOLEAN, NEW n \in 1..MaxRefs,
             NEW mask \in BOOLEAN, NEW refs \in [1..n -> Refs], Edit(user, refs, mask, streamed)
      PROVE  ImagesInv'
  <2>1. refs \in Seq(Refs)
    OBVIOUS
  <2> QED BY <1>3, <2>1, EditOk
<1>4. ASSUME NEW user \in ImageUsers, ChatGenerate(user)
      PROVE  ImagesInv'
  BY <1>4, GenerateOk DEF ChatGenerate
<1>5. ASSUME NEW user \in ImageUsers, NEW n \in 1..MaxRefs, NEW refs \in [1..n -> Refs],
             ChatEdit(user, refs)
      PROVE  ImagesInv'
  <2>1. refs \in Seq(Refs)
    OBVIOUS
  <2> QED BY <1>5, <2>1, EditOk DEF ChatEdit
<1>6. ASSUME NEW user \in ImageUsers, NEW ref \in Refs, Analyze(user, ref)
      PROVE  ImagesInv'
  BY <1>6, AnalyzeOk
<1>7. ASSUME NEW user \in ImageUsers, NEW i \in Pictures, Analyze(user, GeneratedRoute(i))
      PROVE  ImagesInv'
  BY <1>7, AnalyzeOk, RouteIsRef
<1>8. ASSUME NEW user \in ImageUsers, NEW public \in BOOLEAN, AnalyzeUrl(user, public)
      PROVE  ImagesInv'
  BY <1>8, AnalyzeUrlOk
<1>9. ASSUME NEW i \in Pictures, Expire(i)
      PROVE  ImagesInv'
  BY <1>9, ExpireOk
<1>10. CASE Look \/ ReadSource \/ ReadMask \/ NotCalled \/ StoreResult
  BY <1>10, LookOk, ReadSourceOk, ReadMaskOk, NotCalledOk, StoreResultOk
<1>11. ASSUME NEW n \in 1..MaxEvents, NEW gif \in BOOLEAN, NEW items \in [1..n -> BOOLEAN],
              GenerateOnce(items, gif) \/ EditOnce(items, gif)
       PROVE  ImagesInv'
  <2>1. n \in Nat
    OBVIOUS
  <2> QED BY <1>11, <2>1, GenerateOnceOk, EditOnceOk
<1>12. ASSUME NEW gif \in BOOLEAN, StreamGenerate(gif) \/ StreamEdit(gif)
       PROVE  ImagesInv'
  BY <1>12, StreamGenerateOk, StreamEditOk
<1>13. CASE Preview \/ Completed \/ Ignored \/ EndStream \/ Interrupted \/ ImageAnswered
  BY <1>13, PreviewOk, CompletedOk, IgnoredOk, EndStreamOk, InterruptedOk, ImageAnsweredOk
<1>14. CASE UNCHANGED imageVars
  BY <1>14 DEF imageVars, ImagesInv
<1> QED BY <1>1, <1>2, <1>3, <1>4, <1>5, <1>6, <1>7, <1>8, <1>9, <1>10, <1>11, <1>12, <1>13,
           <1>14 DEF ImagesNext

(***************************************************************************)
(* Documents                                                               *)
(***************************************************************************)

(* Where a request stands: what it may load, and what it loaded.            *)
OwnOrLegacy(owner, user) == owner = user \/ (owner = "" /\ user = "anonymous")
StorageFits ==
  /\ record \in [Uploads -> Records \cup {NoRecord}]
  /\ object \in [DocumentReaders \X Uploads -> Nat]
Asking == read.stage = "get" => read.doc \in Uploads
Loading ==
  read.stage = "load" =>
    /\ read.doc \in Uploads /\ read.rec \in Records
    /\ OwnOrLegacy(read.rec.owner, read.user)
Loaded == read.stage = "extract" => read.bytes <= MaxDocBytes /\ OwnOrLegacy(read.of, read.user)
ReadingInv == StorageFits /\ Asking /\ Loading /\ Loaded /\ OwnDocumentsOnly

LEMMA ReadingStarts == DocumentsInit => ReadingInv
BY DEF DocumentsInit, ReadingInv, StorageFits, Asking, Loading, Loaded, OwnDocumentsOnly, NotReading

(* What is stored or vanishes changes no request.                           *)
LEMMA StorageMoves ==
  ASSUME ReadingInv, read' = read, StorageFits'
  PROVE  ReadingInv'
BY DEF ReadingInv, Asking, Loading, Loaded, OwnDocumentsOnly

LEMMA StoresFit ==
  ASSUME ReadingInv, NEW u \in DocumentReaders, NEW d \in Uploads,
         \/ \E size \in Sizes : StoreObject(u, d, size)
         \/ \E r \in Records : StoreRecord(d, r)
         \/ Vanish(u, d)
  PROVE  ReadingInv'
<1>1. StorageFits
  BY DEF ReadingInv
<1>2. CASE \E size \in Sizes : StoreObject(u, d, size)
  BY <1>1, <1>2, StorageMoves, DocumentsAssumption DEF StoreObject, StorageFits, Sizes
<1>3. CASE \E r \in Records : StoreRecord(d, r)
  BY <1>1, <1>3, StorageMoves DEF StoreRecord, StorageFits
<1>4. CASE Vanish(u, d)
  BY <1>1, <1>4, StorageMoves DEF Vanish, StorageFits
<1> QED BY <1>2, <1>3, <1>4

(* A request that ends without an answer gives nothing.                     *)
LEMMA NothingGiven ==
  ASSUME ReadingInv, record' = record, object' = object, read'.stage = "done", read'.code # 200
  PROVE  ReadingInv'
BY DEF ReadingInv, StorageFits, Asking, Loading, Loaded, OwnDocumentsOnly

LEMMA AskForOk ==
  ASSUME ReadingInv, NEW u, NEW kind, NEW d \in Uploads, NEW matches \in BOOLEAN,
         AskFor(u, kind, d, matches)
  PROVE  ReadingInv'
<1>1. CASE matches
  BY <1>1 DEF AskFor, ReadingInv, StorageFits, Asking, Loading, Loaded, OwnDocumentsOnly
<1>2. CASE ~matches
  BY <1>2, NothingGiven DEF AskFor
<1> QED BY <1>1, <1>2

LEMMA GetOk ==
  ASSUME ReadingInv, NEW up \in BOOLEAN, Get(up)
  PROVE  ReadingInv'
<1> DEFINE r == record[read.doc]
<1>1. read.stage = "get" /\ read.doc \in Uploads /\ r \in Records \cup {NoRecord}
  BY DEF Get, ReadingInv, Asking, StorageFits
<1>2. CASE ~up \/ r = NoRecord \/ ~CanAccess(r, read.user)
  BY <1>2, NothingGiven DEF Get, Done
<1>3. CASE up /\ r # NoRecord /\ CanAccess(r, read.user)
  <2>1. read' = [stage |-> "load", kind |-> read.kind, user |-> read.user,
                 doc |-> read.doc, rec |-> r] /\ record' = record /\ object' = object
    BY <1>3 DEF Get
  <2>2. OwnOrLegacy(r.owner, read.user)
    BY <1>3 DEF CanAccess, OwnOrLegacy
  <2> HIDE DEF r
  <2> QED BY <1>1, <1>3, <2>1, <2>2
          DEF ReadingInv, StorageFits, Asking, Loading, Loaded, OwnDocumentsOnly
<1> QED BY <1>2, <1>3

LEMMA DocumentLoadOk ==
  ASSUME ReadingInv, NEW settings \in Settings, DocumentLoad(settings)
  PROVE  ReadingInv'
<1> DEFINE r == read.rec
           found == IF r.storage = "inline" THEN 0 ELSE object[<<r.key, read.doc>>]
           got == LoadBytes(r, read.user, found, settings)
<1>1. /\ read.stage = "load" /\ read.doc \in Uploads /\ r \in Records
      /\ OwnOrLegacy(r.owner, read.user)
  BY DEF DocumentLoad, ReadingInv, Loading
<1>2. CASE got.code # 200
  BY <1>2, NothingGiven DEF DocumentLoad, Done
<1>3. CASE got.code = 200
  <2>1. read' = [stage |-> "extract", kind |-> read.kind, user |-> read.user,
                 bytes |-> got.bytes, of |-> got.of] /\ record' = record /\ object' = object
    BY <1>3 DEF DocumentLoad
  <2>2. got.bytes <= MaxDocBytes /\ OwnOrLegacy(got.of, read.user)
    <3>1. CASE r.storage = "inline"
      <4>1. r.chars \in Int
        <5>1. r.chars \in 1..(2 * MaxDocBytes)
          BY <1>1, <3>1 DEF Records
        <5> HIDE DEF r
        <5> QED BY <5>1
      <4>2. got = Inline(r)
        BY <3>1 DEF LoadBytes
      <4>3. ~((r.chars * 3) \div 4 > MaxDocBytes) /\ (r.chars * 3) \div 4 \in Int
        BY <1>3, <4>1, <4>2 DEF Inline
      <4> QED BY <1>1, <4>2, <4>3, DocumentsAssumption DEF Inline
    <3>2. CASE r.storage # "inline"
      <4>1. r.key \in DocumentReaders
        BY <1>1, <3>2 DEF Records
      <4>2. found \in Nat
        BY <1>1, <3>2, <4>1 DEF ReadingInv, StorageFits
      <4> HIDE DEF found
      <4>3. got = FromObject(r, read.user, found, settings)
        BY <3>2 DEF LoadBytes
      <4>4. KeyExpected(r, read.user) /\ ~(found > MaxDocBytes)
        BY <1>3, <4>3 DEF FromObject, Settings
      <4>5. got.bytes = found /\ got.of = r.key
        BY <4>3 DEF FromObject
      <4> QED BY <4>2, <4>4, <4>5, DocumentsAssumption DEF KeyExpected, OwnOrLegacy
    <3> QED BY <3>1, <3>2
  <2> HIDE DEF got
  <2> QED BY <2>1, <2>2
          DEF ReadingInv, StorageFits, Asking, Loading, Loaded, OwnDocumentsOnly
<1> QED BY <1>2, <1>3

(* What a cut text keeps: all of it, or both ends within the limit.         *)
LEMMA CutKeepsEnds ==
  ASSUME NEW len \in Nat, NEW limit \in Nat, NEW got, got = ApplyCharLimit(len, limit)
  PROVE  /\ got.truncated <=> len > limit
         /\ got.out <= limit /\ got.head + got.tail <= len
         /\ ~got.truncated => got.head = len
         /\ limit > MarkerLen + 1 /\ got.truncated => got.head > 0 /\ got.tail > 0
<1>1. CASE len <= limit
  BY <1>1 DEF ApplyCharLimit
<1>2. CASE len > limit /\ limit <= MarkerLen
  BY <1>2, DocumentsAssumption DEF ApplyCharLimit
<1>3. CASE len > limit /\ limit > MarkerLen
  <2> DEFINE room == limit - MarkerLen
             head == (room + 1) \div 2
  <2>1. room \in Nat /\ room > 0
    BY <1>3, DocumentsAssumption
  <2>2. head \in Nat /\ head > 0 /\ head <= room /\ (room > 1 => head < room)
    <3> HIDE DEF room
    <3> QED BY <2>1
  <2>3. got = [head |-> head, tail |-> room - head, out |-> limit, truncated |-> TRUE]
    BY <1>3, DocumentsAssumption DEF ApplyCharLimit
  <2>4. room <= limit /\ (limit > MarkerLen + 1 => room > 1)
    BY DocumentsAssumption
  <2> HIDE DEF room, head
  <2> QED BY <1>3, <2>1, <2>2, <2>3, <2>4
<1> QED BY <1>1, <1>2, <1>3, DocumentsAssumption

LEMMA ExtractedOk ==
  ASSUME ReadingInv, NEW len \in 0..MaxExtracted, NEW limit \in 1..InlineLimit,
         Extracted(len, limit)
  PROVE  ReadingInv'
<1> DEFINE cut == IF read.kind = "markdown" THEN len ELSE limit
           got == ApplyCharLimit(len, cut)
           code == IF read.kind = "markdown" THEN MarkdownWhole(len, got) ELSE 200
<1>1. len \in Nat /\ limit \in Nat /\ cut \in Nat
  BY DocumentsAssumption
<1>2. read.stage = "extract" /\ read.bytes <= MaxDocBytes /\ OwnOrLegacy(read.of, read.user)
  BY DEF Extracted, ReadingInv, Loaded
<1>3. CASE code # 200
  BY <1>3, NothingGiven DEF Extracted, Done
<1>4. CASE code = 200
  <2>1. /\ read' = [stage |-> "done", kind |-> read.kind, user |-> read.user, code |-> 200,
                    len |-> len, limit |-> limit, bytes |-> read.bytes, of |-> read.of,
                    got |-> got]
        /\ record' = record /\ object' = object
    BY <1>4 DEF Extracted
  <2>2. /\ got.truncated <=> len > cut
        /\ got.out <= cut /\ got.head + got.tail <= len
        /\ ~got.truncated => got.head = len
        /\ cut > MarkerLen + 1 /\ got.truncated => got.head > 0 /\ got.tail > 0
    <3> HIDE DEF cut
    <3> QED BY <1>1, CutKeepsEnds
  <2>3. read.kind = "markdown" => len > 0 /\ ~got.truncated
    BY <1>1, <1>4 DEF MarkdownWhole
  <2>4. OwnDocumentsOnly'
    <3>1. CASE read.kind = "markdown"
      <4> HIDE DEF got
      <4> QED BY <1>2, <2>1, <2>2, <2>3, <3>1 DEF OwnDocumentsOnly, OwnOrLegacy
    <3>2. CASE read.kind # "markdown"
      <4>1. cut = limit
        BY <3>2
      <4> HIDE DEF got, cut
      <4> QED BY <1>2, <2>1, <2>2, <3>2, <4>1 DEF OwnDocumentsOnly, OwnOrLegacy
    <3> QED BY <3>1, <3>2
  <2> QED BY <2>1, <2>4 DEF ReadingInv, StorageFits, Asking, Loading, Loaded
<1> QED BY <1>3, <1>4

LEMMA ReadingHolds == ReadingInv /\ [DocumentsNext]_documentVars => ReadingInv'
<1> SUFFICES ASSUME ReadingInv, [DocumentsNext]_documentVars PROVE ReadingInv'
  OBVIOUS
<1>1. CASE record' = record /\ object' = object /\ read' = read
  BY <1>1, StorageMoves DEF ReadingInv, StorageFits
<1>2. ASSUME NEW u \in DocumentReaders, NEW d \in Uploads,
             \/ \E size \in Sizes : StoreObject(u, d, size)
             \/ Vanish(u, d)
      PROVE  ReadingInv'
  BY <1>2, StoresFit
<1>3. ASSUME NEW d \in Uploads, NEW r \in Records, StoreRecord(d, r)
      PROVE  ReadingInv'
  <2>1. StorageFits'
    BY <1>3 DEF StoreRecord, ReadingInv, StorageFits
  <2> QED BY <1>3, <2>1, StorageMoves DEF StoreRecord
<1>4. ASSUME NEW u \in DocumentReaders, NEW d \in Uploads, NEW kind \in Kinds,
             NEW matches \in BOOLEAN, AskFor(u, kind, d, matches)
      PROVE  ReadingInv'
  BY <1>4, AskForOk
<1>5. ASSUME NEW up \in BOOLEAN, Get(up) PROVE ReadingInv'
  BY <1>5, GetOk
<1>6. ASSUME NEW settings \in Settings, DocumentLoad(settings) PROVE ReadingInv'
  BY <1>6, DocumentLoadOk
<1>7. ASSUME NEW code \in {500, 504}, ExtractFails(code) PROVE ReadingInv'
  BY <1>7, NothingGiven DEF ExtractFails, Done
<1>8. ASSUME NEW len \in 0..MaxExtracted, NEW limit \in 1..InlineLimit, Extracted(len, limit)
      PROVE  ReadingInv'
  BY <1>8, ExtractedOk
<1>9. CASE DocumentReturned
  BY <1>9 DEF DocumentReturned, NotReading, ReadingInv, StorageFits, Asking, Loading, Loaded,
              OwnDocumentsOnly
<1> QED BY <1>1, <1>2, <1>3, <1>4, <1>5, <1>6, <1>7, <1>8, <1>9
        DEF DocumentsNext, documentVars

(* The greatest and the least of some positions.                            *)
LEMMA LeastIs ==
  ASSUME NEW S, S \subseteq Nat, S # {}
  PROVE  Min(S) \in S /\ \A k \in S : Min(S) <= k
<1>1. \E i \in S : \A k \in S : i <= k
  BY LeastOfNaturals
<1> QED BY <1>1 DEF Min

LEMMA GreatestExists ==
  ASSUME NEW n \in Nat, NEW S \in SUBSET (1..n), S # {}
  PROVE  Max(S) \in S /\ \A k \in S : Max(S) >= k
<1> DEFINE T == {n - k : k \in S}
<1>1. T \subseteq Nat /\ T # {}
  <2>1. \A k \in S : n - k \in Nat
    OBVIOUS
  <2>2. PICK k \in S : TRUE
    OBVIOUS
  <2>3. n - k \in T
    BY <2>2
  <2>4. T \subseteq Nat
    BY <2>1
  <2> QED BY <2>3, <2>4
<1>2. PICK t \in T : \A u \in T : t <= u
  <2> HIDE DEF T
  <2> QED BY <1>1, LeastOfNaturals
<1>3. PICK i \in S : t = n - i
  BY <1>2
<1>4. \A k \in S : i >= k
  <2> TAKE k \in S
  <2>1. n - k \in T /\ k \in Int /\ i \in Int
    OBVIOUS
  <2> HIDE DEF T
  <2>2. t <= n - k
    BY <1>2, <2>1
  <2> QED BY <1>3, <2>1, <2>2
<1> QED BY <1>4 DEF Max

(* Of similar passages the best one stays: what is dropped so far.          *)
BestOf(e) ==
  {i \in DOMAIN e : \A j \in DOMAIN e :
     \/ e[j].quality < e[i].quality
     \/ (e[j].quality = e[i].quality /\ i <= j)}
DroppedRight(e, n) ==
  {d \in SUBSET (1..n) :
     /\ d \cap BestOf(e) = {}
     /\ \A i \in d : \E j \in (1..n) \ {i} :
          SimilarTexts(e[i], e[j]) /\ e[j].quality >= e[i].quality}

LEMMA SimilarBothWays == ASSUME NEW a, NEW b, SimilarTexts(a, b) PROVE SimilarTexts(b, a)
<1>1. a.words \cap b.words = b.words \cap a.words /\ a.words \cup b.words = b.words \cup a.words
  OBVIOUS
<1> QED BY <1>1 DEF SimilarTexts

LEMMA AgainstDrops ==
  ASSUME NEW n \in Nat, NEW e \in [1..n -> DocumentEntries], NEW d \in DroppedRight(e, n),
         NEW i \in 1..n, NEW j \in 1..n, i < j
  PROVE  AgainstStep(e, i, d, j) \in DroppedRight(e, n)
<1>1. e[i].quality \in Int /\ e[j].quality \in Int
  <2>1. e[i] \in DocumentEntries /\ e[j] \in DocumentEntries
    OBVIOUS
  <2> QED BY <2>1 DEF DocumentEntries
<1>2. CASE j \in d \/ ~SimilarTexts(e[i], e[j])
  BY <1>2 DEF AgainstStep
<1>3. CASE j \notin d /\ SimilarTexts(e[i], e[j])
  <2> DEFINE gone == IF e[i].quality >= e[j].quality THEN j ELSE i
             stays == IF e[i].quality >= e[j].quality THEN i ELSE j
  <2>1. /\ gone \in 1..n /\ stays \in (1..n) \ {gone}
        /\ e[stays].quality >= e[gone].quality
    BY <1>1
  <2>2. SimilarTexts(e[gone], e[stays])
    BY <1>3, SimilarBothWays
  <2>3. gone \notin BestOf(e)
    BY <1>1 DEF BestOf
  <2>4. AgainstStep(e, i, d, j) = d \cup {gone}
    BY <1>3 DEF AgainstStep
  <2> HIDE DEF gone, stays
  <2> QED BY <2>1, <2>2, <2>3, <2>4 DEF DroppedRight
<1> QED BY <1>2, <1>3

LEMMA AgainstRight ==
  ASSUME NEW n \in Nat, NEW e \in [1..n -> DocumentEntries], NEW D \in DroppedRight(e, n),
         NEW i \in 1..n
  PROVE  Against(e, i, D) \in DroppedRight(e, n)
<1> DEFINE m == n - i
           fold == AgainstFold(e, i, D)
           xs == [k \in 1..m |-> i + k]
           S == DroppedRight(e, n)
<1>1. m \in Nat /\ m = Len(e) - i
  <2>1. Len(e) = n
    OBVIOUS
  <2>2. n - i \in Nat
    OBVIOUS
  <2> QED BY <2>1, <2>2
<1>2. RunStart(fold) \in S
  BY DEF RunStart, AgainstFold
<1>3. ASSUME NEW scan \in S, NEW k \in 1..m
      PROVE  RunStep(fold, scan, xs[k]) \in S
  <2>1. xs[k] = i + k /\ i + k \in 1..n /\ i < i + k
    OBVIOUS
  <2>2. RunStep(fold, scan, xs[k]) = AgainstStep(e, i, scan, xs[k])
    BY DEF RunStep, AgainstFold
  <2> QED BY <2>1, <2>2, AgainstDrops
<1>4. Against(e, i, D) = RunOf(fold, xs, m)[1..m]
  BY <1>1, AgainstIs
<1> HIDE DEF m, fold, xs, S
<1>5. RunOf(fold, xs, m)[1..m] \in S
  BY <1>1, <1>2, <1>3, RunKeeps
<1> QED BY <1>4, <1>5 DEF S

LEMMA DedupRight ==
  ASSUME NEW n \in Nat, NEW e \in [1..n -> DocumentEntries]
  PROVE  DedupEntries(e) \in DroppedRight(e, n)
<1> DEFINE fold == DedupFold(e)
           xs == [k \in 1..n |-> k]
           S == DroppedRight(e, n)
<1>1. RunStart(fold) \in S
  BY DEF RunStart, DedupFold, DroppedRight
<1>2. ASSUME NEW scan \in S, NEW k \in 1..n
      PROVE  RunStep(fold, scan, xs[k]) \in S
  <2>1. RunStep(fold, scan, xs[k]) = IF k \in scan THEN scan ELSE Against(e, k, scan)
    BY DEF RunStep, DedupFold
  <2> QED BY <2>1, AgainstRight
<1>3. DedupEntries(e) = RunOf(fold, xs, n)[1..n]
  BY DedupIs
<1> HIDE DEF fold, xs, S
<1>4. RunOf(fold, xs, n)[1..n] \in S
  BY <1>1, <1>2, RunKeeps
<1> QED BY <1>3, <1>4 DEF S

(* A repaired table has the columns of its header.                          *)
LEMMA RepairRight ==
  ASSUME NEW n \in Nat, NEW rows \in [1..n -> Nat], NEW i \in DOMAIN RepairTable(rows)
  PROVE  RepairTable(rows)[i] = rows[1]
<1> DEFINE full == {k \in DOMAIN rows : rows[k] > 0}
<1>1. CASE full = {}
  BY <1>1 DEF RepairTable
<1>2. CASE full # {}
  <2>1. full \in SUBSET (1..n)
    OBVIOUS
  <2>2. Max(full) \in 1..n
    <3> HIDE DEF full
    <3> QED BY <1>2, <2>1, GreatestExists
  <2>3. RepairTable(rows) = [k \in DOMAIN SubSeq(rows, 1, Max(full)) |->
                               SubSeq(rows, 1, Max(full))[1]]
    BY <1>2 DEF RepairTable
  <2> HIDE DEF full
  <2>4. SubSeq(rows, 1, Max(full))[1] = rows[1]
    BY <2>2
  <2> QED BY <2>3, <2>4
<1> QED BY <1>1, <1>2

LEMMA ProgressRight ==
  ASSUME NEW total \in Nat \ {0}, NEW done \in Nat, NEW w \in Nat, done <= total
  PROVE  PercentFor(done, total, w) = 100 <=> done = total
<1>1. CASE done = total
  BY <1>1 DEF PercentFor
<1>2. CASE done < total
  <2> DEFINE x == (done * 100 + w) \div total
  <2>1. x \in Nat
    OBVIOUS
  <2> HIDE DEF x
  <2>2. Min({99, x}) \in {99, x} /\ Min({99, x}) <= 99
    BY <2>1, LeastIs
  <2>3. PercentFor(done, total, w) = Min({99, x})
    BY <1>2 DEF PercentFor, x
  <2> QED BY <1>2, <2>1, <2>2, <2>3
<1> QED BY <1>1, <1>2

(* The status of a batch is that all, none or some were indexed.            *)
LEMMA BatchRight ==
  ASSUME NEW n \in Nat \ {0}, NEW o \in [1..n -> DocumentOutcomes], NEW status,
         status = ClassifyStatus(BatchMessage(o))
  PROVE  /\ status = "success" <=> Count(o, {"failure"}) = 0
         /\ status = "failure" <=> Count(o, {"failure"}) = Len(o)
<1> DEFINE F == {i \in DOMAIN o : o[i] \in {"failure"}}
           G == {i \in DOMAIN o : o[i] \in {"success", "partial"}}
           none == Count(o, {"failure"}) = 0
           some == Count(o, {"success", "partial"}) > 0
<1>1. F \subseteq 1..n /\ G \subseteq 1..n /\ F \cup G = 1..n /\ F \cap G = {} /\ Len(o) = n
  BY DEF DocumentOutcomes
<1>2. IsFiniteSet(1..n) /\ Cardinality(1..n) = n
  BY FS_Interval
<1> HIDE DEF F, G
<1>3. IsFiniteSet(F) /\ IsFiniteSet(G) /\ Cardinality(F) \in Nat /\ Cardinality(G) \in Nat
  BY <1>1, <1>2, FS_Subset, FS_CardinalityType
<1>4. Cardinality(F) = n <=> F = 1..n
  BY <1>1, <1>2, FS_Subset
<1>5. Cardinality(G) = 0 <=> G = {}
  BY <1>3, FS_EmptySet
<1>6. Cardinality(G) > 0 <=> Cardinality(F) # n
  <2>1. G = {} <=> F = 1..n
    BY <1>1
  <2>2. Cardinality(G) > 0 <=> Cardinality(G) # 0
    BY <1>3
  <2> QED BY <1>4, <1>5, <2>1, <2>2
<1>7. Count(o, {"failure"}) = Cardinality(F) /\ Count(o, {"success", "partial"}) = Cardinality(G)
  BY DEF Count, F, G
<1>8. /\ status = "success" <=> none
      /\ status = "failure" <=> ~none /\ ~some
  BY DEF ClassifyStatus, BatchMessage
<1> QED BY <1>1, <1>3, <1>6, <1>7, <1>8

LEMMA SingleRight ==
  ASSUME NEW o \in DocumentOutcomes, NEW markdown \in BOOLEAN
  PROVE  SingleMessage(o, markdown) = "error" <=> o = "failure"
BY DEF SingleMessage, DocumentOutcomes

LEMMA DimensionRight ==
  ASSUME NEW n \in Nat, NEW fields \in [1..n -> [name : {"vector", "other"}, dim : Nat]],
         NEW exists \in BOOLEAN, NEW readable \in BOOLEAN, NEW expected \in Nat
  PROVE  /\ ~DimensionFits(exists, readable, fields, expected) => exists /\ readable
         /\ DimensionFits(exists, readable, fields, expected) /\ exists /\ readable
               /\ expected > 0 =>
              \A i \in 1..n : fields[i].name = "vector" /\ fields[i].dim > 0 =>
                \E j \in 1..i : fields[j].name = "vector" /\ fields[j].dim = expected
<1>1. ~DimensionFits(exists, readable, fields, expected) => exists /\ readable
  BY DEF DimensionFits
<1>2. ASSUME DimensionFits(exists, readable, fields, expected), exists, readable, expected > 0,
             NEW i \in 1..n, fields[i].name = "vector", fields[i].dim > 0
      PROVE  \E j \in 1..i : fields[j].name = "vector" /\ fields[j].dim = expected
  <2> DEFINE declaring == {k \in DOMAIN fields : fields[k].dim > 0}
             named == {k \in declaring : fields[k].name = "vector"}
  <2>1. i \in named /\ named \subseteq Nat
    BY <1>2
  <2>2. PICK j \in named : j = Min(named) /\ j <= i
    <3> HIDE DEF named
    <3> QED BY <2>1, LeastIs
  <2>3. DenseDim(fields) = fields[j].dim
    BY <2>1, <2>2 DEF DenseDim
  <2>4. DenseDim(fields) \in {0, expected}
    BY <1>2 DEF DimensionFits
  <2>5. j \in 1..i /\ fields[j].name = "vector" /\ fields[j].dim > 0
    BY <2>2
  <2> HIDE DEF named, declaring
  <2> QED BY <2>3, <2>4, <2>5
<1> QED BY <1>1, <1>2

LEMMA LoginRight ==
  ASSUME NEW token \in DocumentTokens, NEW user, NEW password,
         token.kind = Missing \/ (token.kind = "pair" /\ user = Missing /\ password = Missing)
  PROVE  ClientLogin(token, user, password) = SdkLogin(token, user, password)
BY DEF DocumentTokens, ClientLogin, SdkLogin, Missing

(* Every computation, whatever its input.                                   *)
LEMMA ComputeRight == Compute => SamplesRight'
<1>1. ASSUME NEW n \in 1..DocumentMaxEntries, NEW e \in [1..n -> DocumentEntries],
             sample' = [kind |-> "dedup", e |-> e, dropped |-> DedupEntries(e)]
      PROVE  SamplesRight'
  <2>1. n \in Nat /\ DOMAIN e = 1..n
    OBVIOUS
  <2>2. DedupEntries(e) \in DroppedRight(e, n)
    BY <2>1, DedupRight
  <2>3. sample'.kind = "dedup" /\ sample'.e = e /\ sample'.dropped = DedupEntries(e)
    BY <1>1
  <2> QED BY <2>1, <2>2, <2>3 DEF SamplesRight, DroppedRight, BestOf
<1>2. ASSUME NEW n \in 1..DocumentMaxEntries, NEW rows \in [1..n -> 0..2],
             sample' = [kind |-> "table", rows |-> rows, out |-> RepairTable(rows)]
      PROVE  SamplesRight'
  <2>1. n \in Nat /\ rows \in [1..n -> Nat]
    OBVIOUS
  <2>2. sample'.kind = "table" /\ sample'.rows = rows /\ sample'.out = RepairTable(rows)
    BY <1>2
  <2> QED BY <2>1, <2>2, RepairRight DEF SamplesRight
<1>3. ASSUME NEW total \in 1..MaxBatch, NEW done \in 0..MaxBatch, NEW w \in {0, 24, 70, 94},
             done <= total,
             sample' = [kind |-> "progress", done |-> done, total |-> total,
                        percent |-> PercentFor(done, total, w)]
      PROVE  SamplesRight'
  <2>1. PercentFor(done, total, w) = 100 <=> done = total
    BY <1>3, ProgressRight
  <2>2. /\ sample'.kind = "progress" /\ sample'.done = done /\ sample'.total = total
        /\ sample'.percent = PercentFor(done, total, w)
    BY <1>3
  <2> QED BY <2>1, <2>2 DEF SamplesRight
<1>4. ASSUME NEW n \in 1..MaxBatch, NEW o \in [1..n -> DocumentOutcomes],
             sample' = [kind |-> "batch", o |-> o, status |-> ClassifyStatus(BatchMessage(o))]
      PROVE  SamplesRight'
  <2>1. n \in Nat \ {0}
    OBVIOUS
  <2> DEFINE status == ClassifyStatus(BatchMessage(o))
  <2>2. sample'.kind = "batch" /\ sample'.o = o /\ sample'.status = status
    BY <1>4
  <2> HIDE DEF status
  <2>3. /\ status = "success" <=> Count(o, {"failure"}) = 0
        /\ status = "failure" <=> Count(o, {"failure"}) = Len(o)
    BY <2>1, BatchRight DEF status
  <2> QED BY <2>2, <2>3 DEF SamplesRight
<1>5. ASSUME NEW o \in DocumentOutcomes, NEW markdown \in BOOLEAN,
             sample' = [kind |-> "single", o |-> o, message |-> SingleMessage(o, markdown)]
      PROVE  SamplesRight'
  BY <1>5, SingleRight DEF SamplesRight
<1>6. ASSUME NEW exists \in BOOLEAN, NEW readable \in BOOLEAN, NEW expected \in 0..2,
             NEW n \in 0..2, NEW fields \in [1..n -> [name : {"vector", "other"}, dim : 0..2]],
             sample' = [kind |-> "dimension", known |-> exists /\ readable, fields |-> fields,
                        expected |-> expected,
                        fits |-> DimensionFits(exists, readable, fields, expected)]
      PROVE  SamplesRight'
  <2>1. n \in Nat /\ expected \in Nat /\ DOMAIN fields = 1..n
        /\ fields \in [1..n -> [name : {"vector", "other"}, dim : Nat]]
    OBVIOUS
  <2> DEFINE fits == DimensionFits(exists, readable, fields, expected)
             there == exists /\ readable
  <2>2. /\ sample'.kind = "dimension" /\ sample'.fields = fields
        /\ sample'.expected = expected /\ sample'.known = there /\ sample'.fits = fits
    BY <1>6
  <2>3. /\ ~fits => there
        /\ fits /\ there /\ expected > 0 =>
             \A i \in 1..n : fields[i].name = "vector" /\ fields[i].dim > 0 =>
               \E j \in 1..i : fields[j].name = "vector" /\ fields[j].dim = expected
    BY <2>1, DimensionRight
  <2> HIDE DEF fits, there
  <2> QED BY <2>1, <2>2, <2>3 DEF SamplesRight
<1>7. ASSUME NEW token \in DocumentTokens, NEW user \in {"u", Missing},
             NEW password \in {"p", Missing},
             sample' = [kind |-> "login", token |-> token.kind,
                        separate |-> {user, password} # {Missing},
                        client |-> ClientLogin(token, user, password),
                        sdk |-> SdkLogin(token, user, password)]
      PROVE  SamplesRight'
  <2>1. /\ sample'.kind = "login" /\ sample'.token = token.kind
        /\ sample'.separate = ({user, password} # {Missing})
        /\ sample'.client = ClientLogin(token, user, password)
        /\ sample'.sdk = SdkLogin(token, user, password)
    BY <1>7
  <2>2. ASSUME sample'.token = Missing \/ (sample'.token = "pair" /\ ~sample'.separate)
        PROVE  sample'.client = sample'.sdk
    <3>1. \/ token.kind = Missing
          \/ token.kind = "pair" /\ user = Missing /\ password = Missing
      BY <2>1, <2>2
    <3> QED BY <2>1, <3>1, LoginRight
  <2> QED BY <2>1, <2>2 DEF SamplesRight, Missing
<1>8. ASSUME NEW u \in DocumentReaders, NEW n \in Names,
             sample' = [kind |-> "search", user |-> u, names |-> {ResolveName(u, n)}]
      PROVE  SamplesRight'
  <2>1. IsShared(ResolveName(u, n)) \/ ResolveName(u, n).owner = u
    BY DEF ResolveName
  <2>2. sample'.kind = "search" /\ sample'.user = u /\ sample'.names = {ResolveName(u, n)}
    BY <1>8
  <2> QED BY <2>1, <2>2 DEF SamplesRight
<1>9. ASSUME NEW u \in DocumentReaders, NEW there \in SUBSET Names, NEW b \in Bases \ SharedBases,
             sample' = [kind |-> "list", user |-> u, names |-> ListCollections(u, there, b)]
      PROVE  SamplesRight'
  <2>1. \A n \in ListCollections(u, there, b) : IsShared(n) \/ n.owner = u
    BY DEF ListCollections
  <2>2. sample'.kind = "list" /\ sample'.user = u /\ sample'.names = ListCollections(u, there, b)
    BY <1>9
  <2> QED BY <2>1, <2>2 DEF SamplesRight
<1> QED BY ZenonT(60), <1>1, <1>2, <1>3, <1>4, <1>5, <1>6, <1>7, <1>8, <1>9 DEF Compute

LEMMA NoSampleRight == ASSUME sample = NoSample PROVE SamplesRight
BY DEF NoSample, SamplesRight

LEMMA SamplesHold == SamplesRight /\ [DocumentsNext]_documentVars => SamplesRight'
<1> SUFFICES ASSUME SamplesRight, [DocumentsNext]_documentVars PROVE SamplesRight'
  OBVIOUS
<1>1. CASE Compute
  BY <1>1, ComputeRight
<1>2. CASE Forget
  BY <1>2 DEF Forget, NoSample, SamplesRight
<1>3. CASE sample' = sample
  BY <1>3 DEF SamplesRight
<1>4. Compute \/ Forget \/ sample' = sample
  BY DEF DocumentsNext, documentVars, StoreObject, StoreRecord, Vanish, AskFor, Get, DocumentLoad,
         ExtractFails, Extracted, DocumentReturned
<1> QED BY <1>1, <1>2, <1>3, <1>4

(* Each step is a step of one component and leaves the others alone.        *)
LEMMA FilesApart ==
  [Next]_vars => /\ [SandboxNext]_sandboxVars /\ [SkillsNext]_skillsVars
                 /\ [ReviewNext]_reviewVars /\ [LoopNext]_loopVars
                 /\ [MeasureNext]_measureVars /\ [SkillMemoryNext]_skillMemoryVars
                 /\ [ImagesNext]_imageVars /\ [SettingsNext]_settingVars
                 /\ [DocumentsNext]_documentVars
<1> SUFFICES ASSUME [Next]_vars
             PROVE  /\ [SandboxNext]_sandboxVars /\ [SkillsNext]_skillsVars
                    /\ [ReviewNext]_reviewVars /\ [LoopNext]_loopVars
                    /\ [MeasureNext]_measureVars /\ [SkillMemoryNext]_skillMemoryVars
                    /\ [ImagesNext]_imageVars /\ [SettingsNext]_settingVars
                    /\ [DocumentsNext]_documentVars
  OBVIOUS
<1>1. CASE SandboxStep
  BY <1>1 DEF SandboxStep
<1>2. CASE SkillsStep
  BY <1>2 DEF SkillsStep
<1>3. CASE ReviewStep
  BY <1>3 DEF ReviewStep
<1>4. CASE LoopStep
  BY <1>4 DEF LoopStep
<1>5. CASE MeasureStep
  BY <1>5 DEF MeasureStep
<1>6. CASE SkillMemoryStep
  BY <1>6 DEF SkillMemoryStep
<1>7. CASE ImagesStep
  BY <1>7 DEF ImagesStep
<1>8. CASE SettingsStep
  BY <1>8 DEF SettingsStep
<1>9. CASE DocumentsStep
  BY <1>9 DEF DocumentsStep
<1>10. CASE RetrievalStep \/ EmbedStep \/ UNCHANGED vars
  BY <1>10 DEF RetrievalStep, EmbedStep, vars
<1> QED BY <1>1, <1>2, <1>3, <1>4, <1>5, <1>6, <1>7, <1>8, <1>9, <1>10 DEF Next

(* A sandbox call runs and publishes at most once, within what it was        *)
(* allowed and in its own conversation, whatever replies are lost and       *)
(* however the service is redeployed (llm_sandbox); and a skill script is   *)
(* answered with all the output that fits its limit, leaves nothing of its  *)
(* group running, and loads of a skill agree (agent_skills).                *)
THEOREM ActedOnceAndWhole == Spec => []ActsOnceAndWhole
<1> DEFINE Inv == SandboxInv /\ ScriptsInv /\ LoadsInv
<1>1. Init => Inv
  BY SandboxStarts, ScriptsStart, LoadsStart DEF Init
<1>2. Inv /\ [Next]_vars => Inv'
  BY FilesApart, SandboxSteps, ScriptsStep, LoadsStep
<1>3. Inv => ActsOnceAndWhole
  BY SandboxSafe, SkillsSafe DEF ActsOnceAndWhole
<1> QED BY <1>1, <1>2, <1>3, PTL DEF Spec

(* The agents' skills change only by what was earned: a change of a skill is *)
(* committed as it was evaluated and reviewed, whatever happens to the files *)
(* and the commands in between (tools/skill-review); the improvement loop   *)
(* commits only strict gains on the frozen judge (tools/skill-loop); a      *)
(* passing measurement compares like with like (tools/skill-eval); and a    *)
(* standing rule is one the owner approved, at most as often as he did, and *)
(* a skill is put away only when unused (tools/skill-memory).               *)
THEOREM SkillsAreEarned == Spec => []SkillsEarned
<1> DEFINE Inv == ReviewInv /\ LoopInv /\ MeasureInv /\ GovernedInv
<1>1. Init => Inv
  BY ReviewStarts, MeasureBegins, GovernedBegins DEF Init, LoopInit, LoopInv
<1>2. Inv /\ [Next]_vars => Inv'
  BY FilesApart, ReviewHolds, LoopHolds, MeasureHolds, GovernedHolds
<1>3. Inv => SkillsEarned
  BY ReviewSafe, LoopSafe, MeasureSafe, UsageSafe, RulesSafe DEF SkillsEarned, GovernedInv, GovernedMemory
<1> QED BY <1>1, <1>2, <1>3, PTL DEF Spec

(* An image request reads and sends only its user's images, whatever a      *)
(* reference claims, within its budget however often one is repeated; only  *)
(* what the provider completed is signed or reported; and a mask that is    *)
(* sent is a whole PNG with alpha, for files of any length (nat_helpers,    *)
(* image_api).  While one model serves generation and editing, a valid      *)
(* choice of settings is refused neither because of a plan nor because of   *)
(* the edited image; the second normalization changes nothing; a chosen     *)
(* background is kept, and a chosen output too, except that a JPEG of a     *)
(* transparent image, the transparency chosen, planned or inherited,        *)
(* becomes a PNG                                                            *)
(* (prepare_image_request, normalize_image_options).                        *)
THEOREM ImagesAreSound == Spec => []ImagesSound
<1> DEFINE Inv == ImagesInv /\ SettingsInv
<1>1. Init => Inv
  BY ImagesStart, SettingsStart DEF Init
<1>2. Inv /\ [Next]_vars => Inv'
  BY FilesApart, ImagesHold, SettingsHold
<1>3. Inv => ImagesSound
  BY RequestIsKept DEF ImagesSound, SettingsInv
<1> QED BY <1>1, <1>2, <1>3, PTL DEF Spec

(* A user is given only his own documents, or a legacy one to the anonymous  *)
(* user; no more than the size limit is loaded, whatever a record says of    *)
(* it; and what is cut keeps its two ends and says that it was cut.  Of      *)
(* similar passages the best one stays; progress, a batch's status, the      *)
(* check of a dimension, the login and the names of collections are right    *)
(* for entries, batches and fields of any number (nat_nv_ingest).            *)
THEOREM DocumentsArePrivate == Spec => []DocumentsPrivate
<1> DEFINE Inv == ReadingInv /\ SamplesRight
<1>1. Init => Inv
  BY ReadingStarts, NoSampleRight DEF Init, DocumentsInit
<1>2. Inv /\ [Next]_vars => Inv'
  BY FilesApart, ReadingHolds, SamplesHold
<1>3. Inv => DocumentsPrivate
  BY DEF DocumentsPrivate, ReadingInv
<1> QED BY <1>1, <1>2, <1>3, PTL DEF Spec
=============================================================================
