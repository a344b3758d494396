---------------------------- MODULE ToolRuntime ----------------------------
(***************************************************************************)
(* Run contexts of the Python tool service and the streams of its tool     *)
(* calls: builder/daedalus_runtime/service.py, with the model selection of *)
(* nat_helpers/model_routing.py and the lazy tool registry of tools.py.    *)
(* The Rust owner prepares a run once, calls its tools and releases it.    *)
(***************************************************************************)
EXTENDS Naturals, Sequences, SequencesExt, FiniteSets

CONSTANTS Runs, Tools,
          Connectors, \* connect tools of MCP groups: a call discovers the group
          Remote,     \* tools of MCP groups
          Skills,     \* tools that load a skill mapped to a model profile
          Capacity,   \* run contexts kept (128)
          Tombstones, \* releases remembered for runs not yet registered (256)
          QueueSize,  \* events a stream buffers (16)
          MaxEvents,  \* progress events one call emits
          MaxCalls    \* bound on calls in flight or made per run

ASSUME RuntimeAssumption == Tombstones \in Nat \ {0}

VARIABLES
  prep,    \* stage of a run's prepare request
  run,     \* registered contexts: known tools, model profile and its source
  tombs,   \* runs released before they were registered, oldest first
  gone,    \* runs their owner released
  evicted, \* history: releases forgotten before their prepare request ended
  task, queue, reader, \* the tool call of a run: its task, buffer and consumer
  events, calls,       \* events left to emit; calls made
  mute,    \* history: streams whose last result found the buffer full
  opened               \* tools the registry has initialized

runtimeVars == <<prep, run, tombs, gone, evicted, task, queue, reader, events, calls, mute, opened>>
streamVars == <<task, queue, reader, events, calls, mute>>

NoRun == [tools |-> {}, profile |-> "none", source |-> "none"]
Live == {r \in Runs : run[r] # NoRun}

RuntimeInit ==
  /\ prep = [r \in Runs |-> "idle"] /\ run = [r \in Runs |-> NoRun]
  /\ tombs = <<>> /\ gone = {} /\ evicted = {} /\ opened = {}
  /\ task = [r \in Runs |-> "none"] /\ queue = [r \in Runs |-> <<>>]
  /\ reader = [r \in Runs |-> "none"] /\ events = [r \in Runs |-> 0]
  /\ calls = [r \in Runs |-> 0] /\ mute = {}

(* ModelSelection.resolve: an explicit profile, a mapped request profile,   *)
(* the automatic default; autonomous requests bring their own model.        *)
RuntimeResolve == {[profile |-> "deep", source |-> "explicit"],
            [profile |-> "none", source |-> "automatic"],
            [profile |-> "none", source |-> "autonomous"]}

(* Released runs are refused at once; the others go on to discovery.        *)
Prepare(r) ==
  /\ prep[r] = "idle"
  /\ prep' = [prep EXCEPT ![r] = IF Contains(tombs, r) THEN "refused" ELSE "discovering"]
  /\ UNCHANGED <<run, tombs, gone, evicted, opened, streamVars>>

(* get_function initializes each local tool once, under its own lock.       *)
GetFunction(r, t) ==
  /\ prep[r] = "discovering" /\ t \notin opened \cup Connectors \cup Remote
  /\ opened' = opened \cup {t}
  /\ UNCHANGED <<prep, run, tombs, gone, evicted, streamVars>>

(* Mutant: the release that came during discovery is not looked up again.   *)
RefusedOnce(r, kept) == Cardinality(kept) >= Capacity \/ r \in kept

(* What is checked again after discovery.                                   *)
Refused(r, kept) ==
  Cardinality(kept) >= Capacity \/ r \in kept \/ Contains(tombs, r)

(* Registration: contexts older than two hours are dropped first.  A group  *)
(* with deferred discovery offers only its connect tool.                    *)
Register(r) ==
  /\ prep[r] = "discovering" /\ Tools \ (Connectors \cup Remote) \subseteq opened
  /\ \E old \in SUBSET Live, model \in RuntimeResolve, deferred \in BOOLEAN :
       LET kept == Live \ old
           tools == IF deferred THEN Tools \ Remote ELSE Tools \ Connectors
       IN  /\ run' = [q \in Runs |->
                        IF q = r /\ ~Refused(r, kept)
                        THEN [tools |-> tools, profile |-> model.profile,
                              source |-> model.source]
                        ELSE IF q \in old THEN NoRun ELSE run[q]]
           /\ prep' = [prep EXCEPT ![r] = IF Refused(r, kept) THEN "refused" ELSE "ready"]
  /\ UNCHANGED <<tombs, gone, evicted, opened, streamVars>>

(* The request is cancelled or fails.                                       *)
PrepareFails(r) ==
  /\ prep[r] = "discovering"
  /\ prep' = [prep EXCEPT ![r] = "refused"]
  /\ UNCHANGED <<run, tombs, gone, evicted, opened, streamVars>>

(* The owner releases its run, registered or not; the release may overtake  *)
(* the prepare request.                                                     *)
Release(r) ==
  /\ r \notin gone
  /\ gone' = gone \cup {r}
  /\ run' = [run EXCEPT ![r] = NoRun]
  /\ IF r \in Live THEN UNCHANGED <<tombs, evicted>>
     ELSE LET full == Len(tombs) >= Tombstones
          IN  /\ evicted' = IF full THEN evicted \cup {Head(tombs)} ELSE evicted
              /\ tombs' = Append(IF full THEN Tail(tombs) ELSE tombs, r)
  /\ UNCHANGED <<prep, opened, streamVars>>

(* Three minutes after a release.  A prepare request that was being served  *)
(* when it came has ended by then; one still on its way has not.            *)
Forget(r) ==
  /\ prep[r] # "discovering"
  /\ \E i \in DOMAIN tombs : tombs[i] = r /\ tombs' = RemoveAt(tombs, i)
  /\ evicted' = IF prep[r] = "idle" THEN evicted \cup {r} ELSE evicted
  /\ UNCHANGED <<prep, run, gone, opened, streamVars>>

(***************************************************************************)
(* Tool calls                                                              *)
(***************************************************************************)

(* Only the run's own context and tools: stream_call and context().         *)
StreamCall(r, t) ==
  /\ r \in Live /\ reader[r] # "reading" /\ calls[r] < MaxCalls /\ t \in run[r].tools
  /\ calls' = [calls EXCEPT ![r] = @ + 1]
  /\ task' = [task EXCEPT ![r] = t] /\ queue' = [queue EXCEPT ![r] = <<>>]
  /\ reader' = [reader EXCEPT ![r] = "reading"]
  /\ events' = [events EXCEPT ![r] = MaxEvents] /\ mute' = mute \ {r}
  /\ UNCHANGED <<prep, run, tombs, gone, evicted, opened>>

(* A call waits for room in the buffer: a progress event (oauth_required).  *)
Emit(r) ==
  /\ task[r] \in Tools /\ events[r] > 0 /\ Len(queue[r]) < QueueSize
  /\ queue' = [queue EXCEPT ![r] = Append(@, "event")]
  /\ events' = [events EXCEPT ![r] = @ - 1]
  /\ UNCHANGED <<prep, run, tombs, gone, evicted, opened, task, reader, calls, mute>>

(* skill_loaded: the first mapped skill promotes a run that chose no model. *)
Promoted(c) ==
  IF c.source = "automatic" /\ c.profile = "none"
  THEN [c EXCEPT !.profile = "skill", !.source = "skill_load"] ELSE c

(* ToolService.call: connect adds the discovered tools, a skill promotes    *)
(* the model; a tool error is a result like any other.                      *)
ServiceCall(r) ==
  /\ task[r] \in Tools
  /\ task' = [task EXCEPT ![r] = "reporting"]
  /\ run' = [run EXCEPT ![r] =
       IF r \notin Live THEN @
       ELSE IF task[r] \in Connectors THEN [@ EXCEPT !.tools = @ \cup Remote]
       ELSE IF task[r] \in Skills THEN Promoted(@) ELSE @]
  /\ UNCHANGED <<prep, tombs, gone, evicted, opened, queue, reader, events, calls, mute>>

Report(r) ==
  /\ task[r] = "reporting" /\ Len(queue[r]) < QueueSize
  /\ queue' = [queue EXCEPT ![r] = Append(@, "result")]
  /\ task' = [task EXCEPT ![r] = "none"]
  /\ UNCHANGED <<prep, run, tombs, gone, evicted, opened, reader, events, calls, mute>>

(* Mutant: an escaping failure leaves the stream without a result.          *)
EscapeSilent(r) ==
  /\ task[r] \in Tools /\ task' = [task EXCEPT ![r] = "none"]
  /\ UNCHANGED <<prep, run, tombs, gone, evicted, opened, queue, reader, events, calls, mute>>

(* A failure past the handler's own: the fallback result is put without     *)
(* waiting, and lost if the buffer is full.                                 *)
Escape(r) ==
  /\ task[r] \in Tools /\ task' = [task EXCEPT ![r] = "none"]
  /\ IF Len(queue[r]) < QueueSize
     THEN queue' = [queue EXCEPT ![r] = Append(@, "result")] /\ UNCHANGED mute
     ELSE mute' = mute \cup {r} /\ UNCHANGED queue
  /\ UNCHANGED <<prep, run, tombs, gone, evicted, opened, reader, events, calls>>

(* The consumer yields events, or heartbeats, until the result; then, or    *)
(* when the caller disconnects, the task is cancelled and joined.           *)
Read(r) ==
  /\ reader[r] = "reading" /\ queue[r] # <<>>
  /\ queue' = [queue EXCEPT ![r] = Tail(@)]
  /\ IF Head(queue[r]) = "result"
     THEN reader' = [reader EXCEPT ![r] = "ended"] /\ task' = [task EXCEPT ![r] = "none"]
     ELSE UNCHANGED <<reader, task>>
  /\ UNCHANGED <<prep, run, tombs, gone, evicted, opened, events, calls, mute>>

RuntimeDisconnect(r) ==
  /\ reader[r] = "reading"
  /\ reader' = [reader EXCEPT ![r] = "ended"] /\ task' = [task EXCEPT ![r] = "none"]
  /\ queue' = [queue EXCEPT ![r] = <<>>]
  /\ UNCHANGED <<prep, run, tombs, gone, evicted, opened, events, calls, mute>>

Invoke(r) == Emit(r) \/ ServiceCall(r) \/ Report(r) \/ Escape(r)

RuntimeNext ==
  \E r \in Runs :
    \/ Prepare(r) \/ Register(r) \/ PrepareFails(r) \/ Release(r) \/ Forget(r)
    \/ \E t \in Tools : GetFunction(r, t) \/ StreamCall(r, t)
    \/ Invoke(r) \/ Read(r) \/ RuntimeDisconnect(r)

RuntimeFairness == \A r \in Runs : WF_runtimeVars(Invoke(r)) /\ WF_runtimeVars(Read(r))

(* A run its owner has released is not registered afterwards, though its    *)
(* prepare request may still be waiting on discovery or arrive later,       *)
(* unless the release was forgotten first: pushed out by more releases than *)
(* are remembered, or three minutes older than the request (release()).     *)
ReleasedStaysGone == \A r \in gone \cap Live : r \in evicted

(* Every tool stream ends, with a result or because its caller left, also   *)
(* when the failure escapes every handler (invoke's fallback), unless that  *)
(* failure finds the buffer full: then nothing ends the stream but its      *)
(* caller, and the consumer sends heartbeats until then (service.py:711-718,*)
(* which the comment at 640-643 says cannot happen).                        *)
StreamsEnd ==
  \A r \in Runs : reader[r] = "reading" ~> reader[r] = "ended" \/ r \in mute
=============================================================================
