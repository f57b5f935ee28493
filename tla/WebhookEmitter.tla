--------------------------- MODULE WebhookEmitter ---------------------------
(***************************************************************************)
(* The webhook emitter (internal/webhook/emitter.go): handlers of WhatsApp *)
(* events and test requests put events into a bounded channel without      *)
(* waiting, and one goroutine delivers them one after the other, each with *)
(* retries and a backoff.  The receiver is somebody else's server: of the  *)
(* requests posted it may hear any, those whose answer is an error or is   *)
(* too late included, and of the late ones at any later time.              *)
(***************************************************************************)
EXTENDS Naturals, FiniteSets, SequencesExt

CONSTANTS
  Events,        \* the events that occur
  Tests,         \* those that are test requests of a client
  NoEvent,       \* none of them
  QueueSize,     \* the capacity of the channel (1000 in the code)
  MaxRetries     \* Emitter.maxRetries: attempts for each event

ASSUME EmitterAssumption ==
  /\ Tests \subseteq Events /\ NoEvent \notin Events
  /\ QueueSize \in Nat \ {0} /\ MaxRetries \in Nat

VARIABLES
  fate,          \* how far each event has come: see Fates
  events,        \* Emitter.events
  deliver,       \* the goroutine: [at, event, attempt]
  cancelled,     \* the server's context is done
  accepted,      \* history: the events put into the channel
  posted         \* history: the events of the requests posted

vars == <<fate, events, deliver, cancelled, accepted, posted>>

(* An event that has not occurred; in emitWebhook before its two lookups   *)
(* and in Emit; not sent on, or dropped; in the channel or being delivered;*)
(* answered, given up, or gone with the process.                           *)
Fates == {"new", "map", "group", "emit", "skipped", "dropped", "queued",
          "answered", "failed", "lost"}

Idle == [at |-> "select", event |-> NoEvent, attempt |-> 0]
Running == deliver.at # "ended"

TypeOK ==
  /\ fate \in [Events -> Fates]
  /\ events \in Seq(Events) /\ Len(events) <= QueueSize
  /\ deliver \in [at : {"select", "send", "sleep", "returned", "ended"},
                  event : Events \cup {NoEvent}, attempt : 0 .. MaxRetries]
  /\ deliver.at \in {"send", "sleep"} <=> deliver.event # NoEvent
  /\ cancelled \in BOOLEAN
  /\ accepted \in Seq(Events) /\ posted \in Seq(Events)

Init ==
  /\ fate = [e \in Events |-> "new"]
  /\ events = <<>>
  /\ deliver = Idle
  /\ cancelled = FALSE
  /\ accepted = <<>> /\ posted = <<>>
-----------------------------------------------------------------------------
To(e, f) == fate' = [fate EXCEPT ![e] = f]

(* handleEvent calls emitWebhook, in a goroutine for each event; a test    *)
(* request comes with its group.                                           *)
Occur(e) ==
  /\ Running /\ fate[e] = "new"
  /\ To(e, IF e \in Tests THEN "group" ELSE "map")
  /\ UNCHANGED <<events, deliver, cancelled, accepted, posted>>

(* emitWebhook: the instance's connection, then the group's row with the   *)
(* receiver's address and the secret.  Without any of them, or when the    *)
(* query fails, nothing is sent on.                                        *)
LookUpConnection(e) ==
  /\ Running /\ fate[e] = "map"
  /\ \E found \in BOOLEAN : To(e, IF found THEN "group" ELSE "skipped")
  /\ UNCHANGED <<events, deliver, cancelled, accepted, posted>>

FindGroup(e) ==
  /\ Running /\ fate[e] = "group"
  /\ \E found \in BOOLEAN : To(e, IF found THEN "emit" ELSE "skipped")
  /\ UNCHANGED <<events, deliver, cancelled, accepted, posted>>

(* Emit: a full channel drops the event.  Mutant: it drops the oldest one. *)
Emit_DropsOldest(e) ==
  /\ Running /\ fate[e] = "emit"
  /\ To(e, "queued")
  /\ events' = Append(IF Len(events) < QueueSize THEN events ELSE Tail(events), e)
  /\ accepted' = Append(accepted, e)
  /\ UNCHANGED <<deliver, cancelled, posted>>
Emit(e) ==
  /\ Running /\ fate[e] = "emit"
  /\ \/ /\ Len(events) < QueueSize
        /\ To(e, "queued")
        /\ events' = Append(events, e)
        /\ accepted' = Append(accepted, e)
     \/ /\ Len(events) >= QueueSize
        /\ To(e, "dropped")
        /\ UNCHANGED <<events, accepted>>
  /\ UNCHANGED <<deliver, cancelled, posted>>
-----------------------------------------------------------------------------
(* Start's loop: select takes the context or an event, whichever it likes. *)
Return ==
  /\ deliver.at = "select" /\ cancelled
  /\ deliver' = [Idle EXCEPT !.at = "returned"]
  /\ UNCHANGED <<fate, events, cancelled, accepted, posted>>

(* deliver begins; with no attempts it is over at once.                    *)
TakeEvent ==
  /\ deliver.at = "select" /\ events # <<>>
  /\ events' = Tail(events)
  /\ IF MaxRetries = 0
     THEN To(Head(events), "failed") /\ UNCHANGED deliver
     ELSE /\ deliver' = [at |-> "send", event |-> Head(events), attempt |-> 0]
          /\ UNCHANGED fate
  /\ UNCHANGED <<cancelled, accepted, posted>>

(* Any answer below 500 counts as delivered.  Mutant: the loop goes on.    *)
Answered_GoesOn ==
  deliver' = [deliver EXCEPT !.at = "sleep", !.attempt = @ + 1] /\ To(deliver.event, "answered")
Answered == deliver' = Idle /\ To(deliver.event, "answered")

(* send: an answer, or an error of the receiver or on the way to it.       *)
Send ==
  /\ deliver.at = "send"
  /\ posted' = Append(posted, deliver.event)
  /\ \/ Answered
     \/ deliver' = [deliver EXCEPT !.at = "sleep", !.attempt = @ + 1] /\ UNCHANGED fate
  /\ UNCHANGED <<events, cancelled, accepted>>

(* After the backoff: the next attempt, or none is left.  Mutants: one     *)
(* attempt too many; an event that has failed is never let go.             *)
Awake_OneMore ==
  /\ deliver.at = "sleep"
  /\ IF deliver.attempt <= MaxRetries
     THEN deliver' = [deliver EXCEPT !.at = "send"] /\ UNCHANGED fate
     ELSE deliver' = Idle /\ To(deliver.event, "failed")
  /\ UNCHANGED <<events, cancelled, accepted, posted>>
Awake_Stays ==
  /\ deliver.at = "sleep" /\ deliver.attempt < MaxRetries
  /\ deliver' = [deliver EXCEPT !.at = "send"]
  /\ UNCHANGED <<fate, events, cancelled, accepted, posted>>
Awake ==
  /\ deliver.at = "sleep"
  /\ IF deliver.attempt < MaxRetries
     THEN deliver' = [deliver EXCEPT !.at = "send"] /\ UNCHANGED fate
     ELSE deliver' = Idle /\ To(deliver.event, "failed")
  /\ UNCHANGED <<events, cancelled, accepted, posted>>

(* A signal cancels the context; the process ends some time later, or at   *)
(* any other moment, and takes the channel and the attempt under way with  *)
(* it.                                                                     *)
Cancel ==
  /\ Running /\ ~cancelled
  /\ cancelled' = TRUE
  /\ UNCHANGED <<fate, events, deliver, accepted, posted>>

ProcessEnds ==
  /\ Running
  /\ deliver' = [Idle EXCEPT !.at = "ended"]
  /\ events' = <<>>
  /\ fate' = [e \in Events |->
                IF fate[e] \in {"map", "group", "emit", "queued"} THEN "lost" ELSE fate[e]]
  /\ UNCHANGED <<cancelled, accepted, posted>>

Goroutine == TakeEvent \/ Return \/ Send \/ Awake
Handler(e) == LookUpConnection(e) \/ FindGroup(e) \/ Emit(e)

Next ==
  \/ \E e \in Events : Occur(e) \/ Handler(e)
  \/ Goroutine
  \/ Cancel
  \/ ProcessEnds

Spec == Init /\ [][Next]_vars

(* The goroutine is scheduled, and every request of its HTTP client ends   *)
(* with an answer or with the client's timeout.                            *)
FairSpec == Spec /\ WF_vars(Goroutine)
-----------------------------------------------------------------------------
(***************************************************************************)
(* No event vanishes between the handlers and the goroutine: the events    *)
(* that wait are exactly those in the channel and in the goroutine's hands,*)
(* each once.                                                              *)
(***************************************************************************)
NothingVanishes ==
  Running => /\ {e \in Events : fate[e] = "queued"}
                  = ToSet(events) \cup ({deliver.event} \ {NoEvent})
             /\ IsInjective(events)
             /\ ~Contains(events, deliver.event)

(***************************************************************************)
(* The emitter is a lossy FIFO: no event that was accepted later is posted *)
(* before the last retry of an earlier one, none is posted more often than *)
(* it may be, and none that was dropped is.                                *)
(***************************************************************************)
Fifo == INSTANCE LossyFifo WITH Attempts <- MaxRetries
FifoSpec == Fifo!Spec

(***************************************************************************)
(* An event that has been answered or given up is not posted again.        *)
(***************************************************************************)
AnsweredIsFinal ==
  [][\A e \in Events : fate[e] \in {"answered", "failed", "dropped", "skipped"}
       => /\ fate'[e] = fate[e]
          /\ posted' # Append(posted, e)]_vars

(***************************************************************************)
(* Every event in the channel is answered or given up, whatever the        *)
(* receivers do to the events before it, unless the goroutine returns.     *)
(***************************************************************************)
QueuedSettles ==
  \A e \in Events :
    fate[e] = "queued" ~> fate[e] # "queued" \/ deliver.at = "returned"
=============================================================================
