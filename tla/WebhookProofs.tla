---------------------------- MODULE WebhookProofs ----------------------------
(***************************************************************************)
(* Proofs about the webhook emitter (WebhookEmitter), for any events, any  *)
(* capacity of the channel and any number of attempts: types, that nothing *)
(* vanishes between the handlers and the goroutine, that what is over is   *)
(* over, and that the emitter is a lossy FIFO.                             *)
(***************************************************************************)
EXTENDS WebhookEmitter, FiniteSetTheorems, TLAPS

(* How many of the accepted events have left the channel.                  *)
Taken == Len(accepted) - Len(events)

Beyond == {"queued", "answered", "failed", "lost"}

(* The channel holds the last of the accepted events, the goroutine the one*)
(* before them, and what was posted is not later than that.                *)
InOrder ==
  /\ \A m, n \in 1..Len(accepted) : accepted[m] = accepted[n] => m = n
  /\ \A n \in 1..Len(accepted) : fate[accepted[n]] \in Beyond
  /\ Taken >= 0
  /\ \A n \in 1..Len(events) : events[n] = accepted[Taken + n]
  /\ deliver.event # NoEvent => Taken > 0 /\ accepted[Taken] = deliver.event
  /\ \A k \in 1..Len(posted) : \E q \in 1..Taken : posted[k] = accepted[q]

Waiting(e) == (\E n \in 1..Len(events) : events[n] = e) \/ deliver.event = e

QueuedWaits == Running => \A e \in Events : fate[e] = "queued" <=> Waiting(e)

(* The attempt's number is the number of requests posted.                  *)
AttemptsCounted ==
  deliver.at \in {"send", "sleep"} => Fifo!Posted(deliver.event) = deliver.attempt

Typed == TypeOK /\ (deliver.at = "send" => deliver.attempt < MaxRetries)

EmitterInv == Typed /\ InOrder /\ QueuedWaits /\ AttemptsCounted
-----------------------------------------------------------------------------
Deliver == [at : {"select", "send", "sleep", "returned", "ended"},
            event : Events \cup {NoEvent}, attempt : 0 .. MaxRetries]

LEMMA IdleType ==
  /\ Idle \in Deliver /\ Idle.at = "select" /\ Idle.event = NoEvent
  /\ \A at \in {"returned", "ended"} :
       LET d == [Idle EXCEPT !.at = at] IN d \in Deliver /\ d.at = at /\ d.event = NoEvent
BY EmitterAssumption DEF Idle, Deliver

LEMMA FateType ==
  ASSUME fate \in [Events -> Fates], NEW e, NEW f \in Fates, To(e, f)
  PROVE  fate' \in [Events -> Fates]
BY DEF To

LEMMA TypeInit == Init => Typed
<1> SUFFICES ASSUME Init PROVE Typed
  OBVIOUS
<1>1. deliver \in Deliver /\ deliver.at = "select" /\ deliver.event = NoEvent
  BY IdleType DEF Init
<1>2. fate \in [Events -> Fates] /\ cancelled \in BOOLEAN
  BY DEF Init, Fates
<1>3. /\ events \in Seq(Events) /\ Len(events) <= QueueSize
      /\ accepted \in Seq(Events) /\ posted \in Seq(Events)
  BY EmitterAssumption DEF Init
<1>4. QED
  BY <1>1, <1>2, <1>3 DEF Typed, TypeOK, Deliver

LEMMA TypeStep == Typed /\ [Next]_vars => Typed'
<1> SUFFICES ASSUME Typed, [Next]_vars PROVE Typed'
  OBVIOUS
<1> USE EmitterAssumption DEF Typed
<1>1. ASSUME NEW e \in Events, Occur(e) \/ LookUpConnection(e) \/ FindGroup(e) PROVE Typed'
  <2>1. fate' \in [Events -> Fates]
    BY <1>1, FateType DEF Occur, LookUpConnection, FindGroup, TypeOK, Fates
  <2>2. UNCHANGED <<events, deliver, cancelled, accepted, posted>>
    BY <1>1 DEF Occur, LookUpConnection, FindGroup
  <2>3. QED
    BY <2>1, <2>2 DEF TypeOK
<1>2. ASSUME NEW e \in Events, Emit(e) PROVE Typed'
  <2>1. fate' \in [Events -> Fates]
    BY <1>2, FateType DEF Emit, TypeOK, Fates
  <2>2. /\ events' \in Seq(Events) /\ Len(events') <= QueueSize
        /\ accepted' \in Seq(Events)
    <3>1. CASE Len(events) < QueueSize /\ events' = Append(events, e)
               /\ accepted' = Append(accepted, e)
      <4>1. Len(Append(events, e)) = Len(events) + 1 /\ Len(events) \in Nat
        BY DEF TypeOK
      <4>2. Append(events, e) \in Seq(Events) /\ Append(accepted, e) \in Seq(Events)
        BY DEF TypeOK
      <4>3. QED
        BY <3>1, <4>1, <4>2
    <3>2. CASE UNCHANGED <<events, accepted>>
      BY <3>2 DEF TypeOK
    <3>3. QED
      BY <1>2, <3>1, <3>2 DEF Emit
  <2>3. UNCHANGED <<deliver, cancelled, posted>>
    BY <1>2 DEF Emit
  <2>4. QED
    BY <2>1, <2>2, <2>3 DEF TypeOK
<1>3. CASE Return
  BY <1>3, IdleType DEF Return, TypeOK, Deliver
<1>4. CASE TakeEvent
  <2>1. /\ events' = Tail(events) /\ Head(events) \in Events
        /\ events' \in Seq(Events) /\ Len(events') <= QueueSize
    BY <1>4 DEF TakeEvent, TypeOK
  <2>2. CASE MaxRetries = 0
    <3>1. fate' \in [Events -> Fates]
      BY <1>4, <2>2, FateType DEF TakeEvent, TypeOK, Fates
    <3>2. QED
      BY <1>4, <2>1, <2>2, <3>1 DEF TakeEvent, TypeOK
  <2>3. CASE MaxRetries # 0
    <3>1. deliver' = [at |-> "send", event |-> Head(events), attempt |-> 0] /\ fate' = fate
      BY <1>4, <2>3 DEF TakeEvent
    <3>2. QED
      BY <1>4, <2>1, <2>3, <3>1 DEF TakeEvent, TypeOK
  <2>4. QED
    BY <2>2, <2>3
<1>5. CASE Send
  <2>1. deliver.event \in Events /\ posted' \in Seq(Events)
    BY <1>5 DEF Send, TypeOK
  <2>2. CASE Answered
    <3>1. fate' \in [Events -> Fates]
      BY <2>2, FateType DEF Answered, TypeOK, Fates
    <3>2. deliver' \in Deliver /\ deliver'.at = "select" /\ deliver'.event = NoEvent
      BY <2>2, IdleType DEF Answered
    <3>3. QED
      BY <1>5, <2>1, <3>1, <3>2 DEF Send, TypeOK, Deliver
  <2>3. CASE deliver' = [deliver EXCEPT !.at = "sleep", !.attempt = @ + 1] /\ UNCHANGED fate
    <3>1. deliver.attempt + 1 \in 0..MaxRetries
      BY <1>5 DEF Send, TypeOK
    <3>2. deliver' \in Deliver /\ deliver'.at = "sleep" /\ deliver'.event = deliver.event
      BY <2>3, <3>1 DEF TypeOK, Deliver
    <3>3. QED
      BY <1>5, <2>1, <2>3, <3>2 DEF Send, TypeOK, Deliver
  <2>4. QED
    BY <1>5, <2>2, <2>3 DEF Send
<1>6. CASE Awake
  <2>1. CASE deliver.attempt < MaxRetries
    <3>1. deliver' = [deliver EXCEPT !.at = "send"] /\ fate' = fate
      BY <1>6, <2>1 DEF Awake
    <3>2. /\ deliver' \in Deliver /\ deliver'.at = "send"
          /\ deliver'.event = deliver.event /\ deliver'.attempt = deliver.attempt
      BY <3>1 DEF TypeOK, Deliver
    <3>3. QED
      BY <1>6, <2>1, <3>1, <3>2 DEF Awake, TypeOK, Deliver
  <2>2. CASE ~(deliver.attempt < MaxRetries)
    <3>1. deliver' \in Deliver /\ deliver'.at = "select" /\ deliver'.event = NoEvent
      BY <1>6, <2>2, IdleType DEF Awake
    <3>2. fate' \in [Events -> Fates]
      BY <1>6, <2>2, FateType DEF Awake, TypeOK, Fates
    <3>3. QED
      BY <1>6, <3>1, <3>2 DEF Awake, TypeOK, Deliver
  <2>3. QED
    BY <2>1, <2>2
<1>7. CASE Cancel
  BY <1>7 DEF Cancel, TypeOK
<1>8. CASE ProcessEnds
  <2>1. fate' \in [Events -> Fates]
    BY <1>8 DEF ProcessEnds, TypeOK, Fates
  <2>2. deliver' \in Deliver /\ deliver'.at = "ended" /\ deliver'.event = NoEvent
    BY <1>8, IdleType DEF ProcessEnds
  <2>3. QED
    BY <1>8, <2>1, <2>2 DEF ProcessEnds, TypeOK, Deliver
<1>9. CASE UNCHANGED vars
  BY <1>9 DEF vars, TypeOK
<1>10. QED
  BY <1>1, <1>2, <1>3, <1>4, <1>5, <1>6, <1>7, <1>8, <1>9 DEF Next, Handler, Goroutine
-----------------------------------------------------------------------------
LEMMA FatesBeyond ==
  ASSUME Typed, InOrder, NEW e \in Events, NEW f \in Fates, To(e, f),
         f \in Beyond \/ fate[e] \notin Beyond
  PROVE  \A n \in 1..Len(accepted) : fate'[accepted[n]] \in Beyond
<1>1. \A n \in 1..Len(accepted) : accepted[n] \in Events
  BY DEF Typed, TypeOK
<1>2. fate \in [Events -> Fates]
  BY DEF Typed, TypeOK
<1>3. QED
  BY <1>1, <1>2 DEF To, InOrder

(* Nothing but fates changes, or the goroutine lets go of its event.       *)
LEMMA InOrderKept ==
  ASSUME Typed, InOrder, UNCHANGED <<events, accepted, posted>>,
         \A n \in 1..Len(accepted) : fate'[accepted[n]] \in Beyond,
         deliver'.event \in {deliver.event, NoEvent}
  PROVE  InOrder'
BY DEF InOrder, Taken

LEMMA InOrderInit == Init => InOrder
<1> SUFFICES ASSUME Init PROVE InOrder
  OBVIOUS
<1>1. accepted = <<>> /\ events = <<>> /\ posted = <<>> /\ deliver.event = NoEvent
  BY IdleType DEF Init
<1>2. QED
  BY <1>1 DEF InOrder, Taken

LEMMA InOrderStep == Typed /\ InOrder /\ QueuedWaits /\ [Next]_vars => InOrder'
<1> SUFFICES ASSUME Typed, InOrder, QueuedWaits, [Next]_vars PROVE InOrder'
  OBVIOUS
<1>1. Typed'
  BY TypeStep
<1> DEFINE Same == UNCHANGED <<events, accepted, posted>>
           FatesGood == \A n \in 1..Len(accepted) : fate'[accepted[n]] \in Beyond
<1>2. UNCHANGED fate => FatesGood
  BY DEF InOrder
<1>3. ASSUME NEW e \in Events, Occur(e) \/ LookUpConnection(e) \/ FindGroup(e) PROVE InOrder'
  <2>1. FatesGood
    BY <1>3, FatesBeyond DEF Occur, LookUpConnection, FindGroup, Beyond, Fates
  <2>2. Same /\ UNCHANGED deliver
    BY <1>3 DEF Occur, LookUpConnection, FindGroup
  <2>3. QED
    BY <2>1, <2>2, InOrderKept
<1>4. ASSUME NEW e \in Events, Emit(e) PROVE InOrder'
  <2>1. CASE Len(events) < QueueSize
    <3>1. /\ To(e, "queued") /\ fate[e] = "emit"
          /\ events' = Append(events, e) /\ accepted' = Append(accepted, e)
          /\ deliver' = deliver /\ posted' = posted
      <4>1. Len(events) \in Nat /\ QueueSize \in Nat
        BY EmitterAssumption DEF Typed, TypeOK
      <4>2. QED
        BY <1>4, <2>1, <4>1 DEF Emit
    <3>2. /\ events \in Seq(Events) /\ accepted \in Seq(Events) /\ Len(events) <= Len(accepted)
          /\ Len(events) \in Nat /\ Len(accepted) \in Nat
      BY DEF Typed, TypeOK, InOrder, Taken
    <3>3. FatesGood /\ fate'[e] = "queued"
      BY <3>1, FatesBeyond DEF Beyond, Fates, To, Typed, TypeOK
    <3>4. \A n \in 1..Len(accepted) : accepted[n] # e
      BY <3>1 DEF InOrder, Beyond
    <3>5. /\ Len(accepted') = Len(accepted) + 1 /\ Len(events') = Len(events) + 1
          /\ \A n \in 1..Len(accepted) : accepted'[n] = accepted[n]
          /\ accepted'[Len(accepted) + 1] = e
          /\ \A n \in 1..Len(events) : events'[n] = events[n]
          /\ events'[Len(events) + 1] = e
      BY <3>1, <3>2
    <3>6. Taken' = Taken /\ Taken \in Nat /\ Taken <= Len(accepted)
      BY <3>2, <3>5 DEF Taken
    <3>7. ASSUME NEW m \in 1..Len(accepted'), NEW n \in 1..Len(accepted'),
                 accepted'[m] = accepted'[n]
          PROVE  m = n
      <4>1. CASE m \in 1..Len(accepted) /\ n \in 1..Len(accepted)
        BY <3>5, <3>7, <4>1 DEF InOrder
      <4>2. CASE m = Len(accepted) + 1 \/ n = Len(accepted) + 1
        BY <3>2, <3>4, <3>5, <3>7, <4>2
      <4>3. QED
        BY <3>2, <3>5, <4>1, <4>2
    <3>8. \A n \in 1..Len(accepted') : fate'[accepted'[n]] \in Beyond
      BY <3>2, <3>3, <3>5 DEF Beyond
    <3>9. ASSUME NEW n \in 1..Len(events') PROVE events'[n] = accepted'[Taken + n]
      <4>1. CASE n = Len(events) + 1
        BY <3>2, <3>5, <4>1 DEF Taken
      <4>2. CASE n \in 1..Len(events)
        <5>1. Taken + n \in 1..Len(accepted)
          BY <3>2, <3>6, <4>2 DEF Taken
        <5>2. QED
          BY <3>5, <4>2, <5>1 DEF InOrder
      <4>3. QED
        BY <3>2, <3>5, <4>1, <4>2
    <3>10. deliver'.event # NoEvent => Taken > 0 /\ accepted'[Taken] = deliver'.event
      BY <3>1, <3>2, <3>5, <3>6 DEF InOrder
    <3>11. ASSUME NEW k \in 1..Len(posted') PROVE \E q \in 1..Taken : posted'[k] = accepted'[q]
      <4>1. PICK q \in 1..Taken : posted[k] = accepted[q]
        BY <3>1 DEF InOrder
      <4>2. q \in 1..Len(accepted)
        BY <3>2, <3>6
      <4>3. QED
        BY <3>1, <3>5, <4>1, <4>2
    <3>12. QED
      BY <3>6, <3>7, <3>8, <3>9, <3>10, <3>11 DEF InOrder
  <2>2. CASE ~(Len(events) < QueueSize)
    <3>1. To(e, "dropped") /\ fate[e] = "emit" /\ Same /\ UNCHANGED deliver
      BY <1>4, <2>2 DEF Emit
    <3>2. FatesGood
      BY <3>1, FatesBeyond DEF Beyond, Fates
    <3>3. QED
      BY <3>1, <3>2, InOrderKept
  <2>3. QED
    BY <2>1, <2>2
<1>5. CASE Return \/ Cancel
  BY <1>2, <1>5, IdleType, InOrderKept DEF Return, Cancel
<1>6. CASE TakeEvent
  <2>1. /\ events # <<>> /\ events' = Tail(events) /\ accepted' = accepted /\ posted' = posted
        /\ events \in Seq(Events) /\ accepted \in Seq(Events)
        /\ deliver'.event \in {NoEvent, Head(events)}
    BY <1>6 DEF TakeEvent, Typed, TypeOK
  <2>2. /\ Len(events) \in Nat \ {0} /\ Len(accepted) \in Nat /\ Len(events) <= Len(accepted)
        /\ Len(events') = Len(events) - 1 /\ Head(events) = events[1]
        /\ \A n \in 1..Len(events') : events'[n] = events[n + 1]
    BY <2>1 DEF InOrder, Taken
  <2>3. Taken' = Taken + 1 /\ Taken \in Nat
    BY <2>1, <2>2 DEF Taken
  <2>4. accepted[Taken + 1] = Head(events)
    BY <2>2 DEF InOrder
  <2>5. FatesGood
    <3>1. CASE To(Head(events), "failed")
      BY <2>1, <2>2, <3>1, FatesBeyond DEF Beyond, Fates
    <3>2. QED
      BY <1>2, <1>6, <3>1 DEF TakeEvent
  <2>6. ASSUME NEW n \in 1..Len(events') PROVE events'[n] = accepted[Taken' + n]
    <3>1. n + 1 \in 1..Len(events) /\ Taken' + n = Taken + (n + 1)
      BY <2>2, <2>3
    <3>2. QED
      BY <2>2, <3>1 DEF InOrder
  <2>7. \A k \in 1..Len(posted') : \E q \in 1..Taken' : posted'[k] = accepted[q]
    <3>1. 1..Taken \subseteq 1..Taken'
      BY <2>3
    <3>2. QED
      BY <2>1, <3>1 DEF InOrder
  <2>8. deliver'.event # NoEvent => Taken' > 0 /\ accepted[Taken'] = deliver'.event
    BY <2>1, <2>3, <2>4
  <2>9. QED
    BY <2>1, <2>3, <2>5, <2>6, <2>7, <2>8 DEF InOrder
<1>7. CASE Send
  <2>1. /\ deliver.event \in Events /\ deliver.event # NoEvent
        /\ posted' = Append(posted, deliver.event) /\ posted \in Seq(Events)
        /\ events' = events /\ accepted' = accepted
    BY <1>7 DEF Send, Typed, TypeOK
  <2>2. FatesGood
    <3>1. CASE Answered
      BY <2>1, <3>1, FatesBeyond DEF Answered, Beyond, Fates
    <3>2. QED
      BY <1>2, <1>7, <3>1 DEF Send
  <2>3. deliver'.event \in {deliver.event, NoEvent}
    BY <1>7, IdleType DEF Send, Answered, Typed, TypeOK
  <2>4. Taken \in Nat \ {0} /\ accepted[Taken] = deliver.event
    BY <2>1 DEF InOrder, Taken, Typed, TypeOK
  <2>5. ASSUME NEW k \in 1..Len(posted') PROVE \E q \in 1..Taken : posted'[k] = accepted[q]
    <3>1. CASE k = Len(posted) + 1
      BY <2>1, <2>4, <3>1
    <3>2. CASE k \in 1..Len(posted)
      BY <2>1, <3>2 DEF InOrder
    <3>3. QED
      BY <2>1, <3>1, <3>2
  <2>6. Taken' = Taken
    BY <2>1 DEF Taken
  <2>7. QED
    BY <2>1, <2>2, <2>3, <2>4, <2>5, <2>6 DEF InOrder
<1>8. CASE Awake
  <2>1. FatesGood
    <3>1. deliver.event \in Events
      BY <1>8 DEF Awake, Typed, TypeOK
    <3>2. CASE To(deliver.event, "failed")
      BY <3>1, <3>2, FatesBeyond DEF Beyond, Fates
    <3>3. QED
      BY <1>2, <1>8, <3>2 DEF Awake
  <2>2. deliver'.event \in {deliver.event, NoEvent}
    BY <1>8, IdleType DEF Awake, Typed, TypeOK
  <2>3. QED
    BY <1>8, <2>1, <2>2, InOrderKept DEF Awake
<1>9. CASE ProcessEnds
  <2>1. /\ events' = <<>> /\ accepted' = accepted /\ posted' = posted /\ deliver'.event = NoEvent
    BY <1>9, IdleType DEF ProcessEnds
  <2>2. FatesGood
    <3>1. \A n \in 1..Len(accepted) : accepted[n] \in Events
      BY DEF Typed, TypeOK
    <3>2. QED
      BY <1>9, <3>1 DEF ProcessEnds, InOrder, Beyond
  <2>3. /\ Taken' = Len(accepted) /\ Len(accepted) \in Nat
        /\ Len(events) \in Nat /\ Taken <= Len(accepted)
    BY <2>1 DEF Taken, Typed, TypeOK
  <2>4. 1..Taken \subseteq 1..Taken'
    BY <2>3 DEF Taken
  <2>5. \A n \in 1..Len(events') : FALSE
    BY <2>1
  <2>6. QED
    BY <2>1, <2>2, <2>3, <2>4, <2>5 DEF InOrder
<1>10. CASE UNCHANGED vars
  BY <1>2, <1>10, InOrderKept DEF vars
<1>11. QED
  BY <1>3, <1>4, <1>5, <1>6, <1>7, <1>8, <1>9, <1>10 DEF Next, Handler, Goroutine
-----------------------------------------------------------------------------
(* What waits in the channel is not what the goroutine holds.              *)
LEMMA Distinct ==
  ASSUME Typed, InOrder
  PROVE  /\ \A m, n \in 1..Len(events) : events[m] = events[n] => m = n
         /\ \A n \in 1..Len(events) : events[n] \in Events /\ events[n] # deliver.event
<1>1. /\ Len(events) \in Nat /\ Len(accepted) \in Nat /\ Taken \in Nat
      /\ \A n \in 1..Len(events) : Taken + n \in 1..Len(accepted) /\ Taken + n # Taken
  BY DEF Typed, TypeOK, InOrder, Taken
<1>2. ASSUME NEW m \in 1..Len(events), NEW n \in 1..Len(events), events[m] = events[n]
      PROVE  m = n
  <2>1. Taken + m = Taken + n
    BY <1>1, <1>2 DEF InOrder
  <2>2. QED
    BY <1>1, <2>1
<1>3. ASSUME NEW n \in 1..Len(events) PROVE events[n] \in Events /\ events[n] # deliver.event
  <2>1. events[n] \in Events
    BY DEF Typed, TypeOK
  <2>2. CASE deliver.event = NoEvent
    BY <2>1, <2>2, EmitterAssumption
  <2>3. CASE deliver.event # NoEvent
    <3>1. Taken \in 1..Len(accepted) /\ accepted[Taken] = deliver.event
      BY <1>1, <2>3 DEF InOrder, Taken
    <3>2. QED
      BY <1>1, <2>1, <3>1 DEF InOrder
  <2>4. QED
    BY <2>2, <2>3
<1>4. QED
  BY <1>2, <1>3

LEMMA QueuedInit == Init => QueuedWaits
<1> SUFFICES ASSUME Init, NEW e \in Events PROVE fate[e] = "queued" <=> Waiting(e)
  BY DEF QueuedWaits
<1>1. fate[e] = "new" /\ events = <<>> /\ deliver.event = NoEvent
  BY IdleType DEF Init
<1>2. QED
  BY <1>1, EmitterAssumption DEF Waiting

LEMMA QueuedStep == Typed /\ InOrder /\ QueuedWaits /\ [Next]_vars => QueuedWaits'
<1> SUFFICES ASSUME Typed, InOrder, QueuedWaits, [Next]_vars, Running',
                    NEW x \in Events
             PROVE  fate'[x] = "queued" <=> Waiting(x)'
  BY DEF QueuedWaits
<1>1. Typed' /\ fate \in [Events -> Fates]
  BY TypeStep DEF Typed, TypeOK
<1>2. Running => (fate[x] = "queued" <=> Waiting(x))
  BY DEF QueuedWaits
<1>3. ASSUME NEW e \in Events, Occur(e) \/ LookUpConnection(e) \/ FindGroup(e)
      PROVE  fate'[x] = "queued" <=> Waiting(x)'
  <2>1. Running /\ UNCHANGED <<events, deliver>>
    BY <1>3 DEF Occur, LookUpConnection, FindGroup
  <2>2. fate'[x] = "queued" <=> fate[x] = "queued"
    BY <1>1, <1>3 DEF Occur, LookUpConnection, FindGroup, To
  <2>3. QED
    BY <1>2, <2>1, <2>2 DEF Waiting
<1>4. ASSUME NEW e \in Events, Emit(e) PROVE fate'[x] = "queued" <=> Waiting(x)'
  <2>1. CASE To(e, "queued") /\ events' = Append(events, e) /\ UNCHANGED deliver
    <3>1. /\ Len(events') = Len(events) + 1 /\ Len(events) \in Nat
          /\ \A n \in 1..Len(events) : events'[n] = events[n]
          /\ events'[Len(events) + 1] = e
      BY <2>1 DEF Typed, TypeOK
    <3>2. Waiting(x)' <=> Waiting(x) \/ x = e
      BY <2>1, <3>1 DEF Waiting
    <3>3. fate'[x] = "queued" <=> fate[x] = "queued" \/ x = e
      BY <1>1, <2>1 DEF To
    <3>4. QED
      BY <1>2, <1>4, <3>2, <3>3 DEF Emit
  <2>2. CASE To(e, "dropped") /\ UNCHANGED <<events, deliver>>
    <3>1. fate'[x] = "queued" <=> fate[x] = "queued"
      BY <1>1, <1>4, <2>2 DEF Emit, To
    <3>2. QED
      BY <1>2, <1>4, <2>2, <3>1 DEF Emit, Waiting
  <2>3. QED
    BY <1>4, <2>1, <2>2 DEF Emit
<1>5. CASE Return \/ Cancel
  <2>1. deliver'.event = deliver.event /\ UNCHANGED <<fate, events>> /\ Running
    BY <1>5, IdleType DEF Return, Cancel, Running, Typed, TypeOK
  <2>2. QED
    BY <1>2, <2>1 DEF Waiting
<1>6. CASE TakeEvent
  <2>1. /\ events # <<>> /\ events' = Tail(events) /\ Running /\ deliver.event = NoEvent
        /\ events \in Seq(Events)
    BY <1>6 DEF TakeEvent, Running, Typed, TypeOK
  <2>2. /\ Len(events) \in Nat \ {0} /\ Len(events') = Len(events) - 1
        /\ Head(events) = events[1] /\ \A n \in 1..Len(events') : events'[n] = events[n + 1]
    BY <2>1
  <2>3. Waiting(x) <=> x = Head(events) \/ \E n \in 1..Len(events') : events'[n] = x
    <3>1. Waiting(x) <=> \E n \in 1..Len(events) : events[n] = x
      BY <2>1, EmitterAssumption DEF Waiting
    <3>2. ASSUME NEW n \in 1..Len(events), events[n] = x, n # 1
          PROVE  \E m \in 1..Len(events') : events'[m] = x
      <4>1. n - 1 \in 1..Len(events') /\ (n - 1) + 1 = n
        BY <2>2, <3>2
      <4>2. events'[n - 1] = x
        BY <2>2, <3>2, <4>1
      <4>3. QED
        BY <4>1, <4>2
    <3>3. ASSUME NEW n \in 1..Len(events'), events'[n] = x
          PROVE  \E m \in 1..Len(events) : events[m] = x
      BY <2>2, <3>3
    <3>4. 1 \in 1..Len(events)
      BY <2>2
    <3>5. QED
      BY <2>2, <3>1, <3>2, <3>3, <3>4
  <2>4. CASE deliver'.event = Head(events) /\ UNCHANGED fate
    BY <1>2, <2>1, <2>3, <2>4 DEF Waiting
  <2>5. CASE To(Head(events), "failed") /\ UNCHANGED deliver
    <3>1. ~\E n \in 1..Len(events') : events'[n] = Head(events)
      BY <2>2, Distinct
    <3>2. fate'[x] = "queued" <=> fate[x] = "queued" /\ x # Head(events)
      BY <1>1, <2>5 DEF To
    <3>3. Waiting(x)' <=> \E n \in 1..Len(events') : events'[n] = x
      BY <2>1, <2>5, EmitterAssumption DEF Waiting
    <3>4. QED
      BY <1>2, <2>1, <2>3, <3>1, <3>2, <3>3
  <2>6. QED
    BY <1>6, <2>4, <2>5 DEF TakeEvent
(* The goroutine has done with its event.                                  *)
<1>7. ASSUME deliver.event \in Events, Running, events' = events, deliver'.event = NoEvent,
             NEW f \in Fates \ {"queued"}, To(deliver.event, f)
      PROVE  fate'[x] = "queued" <=> Waiting(x)'
  <2>1. fate'[x] = "queued" <=> fate[x] = "queued" /\ x # deliver.event
    BY <1>1, <1>7 DEF To
  <2>2. Waiting(x)' <=> \E n \in 1..Len(events) : events[n] = x
    BY <1>7, EmitterAssumption DEF Waiting
  <2>3. QED
    BY <1>2, <1>7, <2>1, <2>2, Distinct DEF Waiting
<1>8. CASE Send \/ Awake
  <2>1. deliver.event \in Events /\ Running /\ events' = events
    BY <1>8 DEF Send, Awake, Running, Typed, TypeOK
  <2>2. CASE deliver'.event = deliver.event /\ UNCHANGED fate
    BY <1>2, <2>1, <2>2 DEF Waiting
  <2>3. CASE Answered \/ (deliver' = Idle /\ To(deliver.event, "failed"))
    BY <1>7, <2>1, <2>3, IdleType DEF Answered, Fates
  <2>4. ASSUME deliver' = [deliver EXCEPT !.at = "sleep", !.attempt = @ + 1]
               \/ deliver' = [deliver EXCEPT !.at = "send"]
        PROVE  deliver'.event = deliver.event
    BY <2>4 DEF Typed, TypeOK
  <2>5. QED
    BY <1>8, <2>2, <2>3, <2>4 DEF Send, Awake
<1>9. CASE ProcessEnds
  BY <1>9, IdleType DEF ProcessEnds, Running
<1>10. CASE UNCHANGED vars
  BY <1>2, <1>10 DEF vars, Waiting, Running
<1>11. QED
  BY <1>3, <1>4, <1>5, <1>6, <1>8, <1>9, <1>10 DEF Next, Handler, Goroutine
-----------------------------------------------------------------------------
LEMMA PostedCounts ==
  ASSUME posted \in Seq(Events), NEW e
  PROVE  /\ Fifo!Posted(e) \in Nat
         /\ (\A n \in 1..Len(posted) : posted[n] # e) => Fifo!Posted(e) = 0
         /\ posted' = Append(posted, e) => Fifo!Posted(e)' = Fifo!Posted(e) + 1
<1> DEFINE places == {n \in DOMAIN posted : posted[n] = e}
<1>1. Len(posted) \in Nat /\ DOMAIN posted = 1..Len(posted)
  OBVIOUS
<1>0. /\ Fifo!Posted(e) = Cardinality(places)
      /\ Fifo!Posted(e)' = Cardinality({n \in DOMAIN posted' : posted'[n] = e})
  BY DEF Fifo!Posted, Fifo!Cardinality, Cardinality
<1>2. IsFiniteSet(places) /\ Cardinality(places) \in Nat
  <2>1. IsFiniteSet(1..Len(posted))
    BY <1>1, FS_Interval
  <2>2. places \in SUBSET (1..Len(posted))
    BY <1>1
  <2>3. QED
    BY <2>1, <2>2, FS_Subset, FS_CardinalityType
<1>3. ASSUME posted' = Append(posted, e) PROVE Fifo!Posted(e)' = Fifo!Posted(e) + 1
  <2>1. /\ DOMAIN posted' = 1..(Len(posted) + 1)
        /\ \A n \in 1..Len(posted) : posted'[n] = posted[n]
        /\ posted'[Len(posted) + 1] = e
    BY <1>1, <1>3
  <2>2. {n \in DOMAIN posted' : posted'[n] = e} = places \cup {Len(posted) + 1}
    BY <1>1, <2>1
  <2>3. Len(posted) + 1 \notin places
    BY <1>1
  <2>4. Cardinality(places \cup {Len(posted) + 1}) = Cardinality(places) + 1
    BY <1>2, <2>3, FS_AddElement
  <2>5. QED
    BY <1>0, <2>2, <2>4
<1>4. ASSUME \A n \in 1..Len(posted) : posted[n] # e PROVE Fifo!Posted(e) = 0
  <2>1. places = {}
    BY <1>1, <1>4
  <2>2. QED
    BY <1>0, <2>1, FS_EmptySet
<1>5. QED
  BY <1>0, <1>2, <1>3, <1>4

LEMMA AttemptsStep == Typed /\ InOrder /\ AttemptsCounted /\ [Next]_vars => AttemptsCounted'
<1> SUFFICES ASSUME Typed, InOrder, AttemptsCounted, [Next]_vars PROVE AttemptsCounted'
  OBVIOUS
<1>1. posted \in Seq(Events)
  BY DEF Typed, TypeOK
<1>2. CASE deliver'.at \notin {"send", "sleep"}
  BY <1>2 DEF AttemptsCounted
<1>3. CASE /\ posted' = posted /\ deliver.at \in {"send", "sleep"}
           /\ deliver'.event = deliver.event /\ deliver'.attempt = deliver.attempt
  BY <1>3 DEF AttemptsCounted, Fifo!Posted
<1>4. CASE TakeEvent
  <2>1. CASE MaxRetries = 0
    BY <1>2, <1>4, <2>1 DEF TakeEvent
  <2>2. CASE MaxRetries # 0
    <3>1. /\ deliver'.event = Head(events) /\ deliver'.attempt = 0 /\ posted' = posted
          /\ events \in Seq(Events) /\ events # <<>>
      BY <1>4, <2>2 DEF TakeEvent, Typed, TypeOK
    <3>2. Head(events) = events[1] /\ 1 \in 1..Len(events)
      BY <3>1
    <3>3. Head(events) = accepted[Taken + 1] /\ Taken \in Nat /\ Taken + 1 \in 1..Len(accepted)
      <4>1. Head(events) = accepted[Taken + 1]
        BY <3>2 DEF InOrder
      <4>2. Len(events) \in Nat \ {0} /\ Len(accepted) \in Nat /\ Taken >= 0
        BY <3>1, <3>2 DEF InOrder, Typed, TypeOK
      <4>3. QED
        BY <4>1, <4>2 DEF Taken
    <3>4. \A n \in 1..Len(posted) : posted[n] # Head(events)
      <4>1. SUFFICES ASSUME NEW n \in 1..Len(posted) PROVE posted[n] # Head(events)
        OBVIOUS
      <4>2. PICK q \in 1..Taken : posted[n] = accepted[q]
        BY DEF InOrder
      <4>3. q \in 1..Len(accepted) /\ q # Taken + 1
        BY <3>3
      <4>4. QED
        BY <3>3, <4>2, <4>3 DEF InOrder
    <3>5. Fifo!Posted(Head(events)) = 0
      BY <1>1, <3>4, PostedCounts
    <3>6. QED
      BY <3>1, <3>5 DEF AttemptsCounted, Fifo!Posted
  <2>3. QED
    BY <2>1, <2>2
<1>5. CASE Send
  <2>1. posted' = Append(posted, deliver.event) /\ deliver.at = "send"
    BY <1>5 DEF Send
  <2>2. CASE deliver' = [deliver EXCEPT !.at = "sleep", !.attempt = @ + 1]
    <3>1. deliver'.event = deliver.event /\ deliver'.attempt = deliver.attempt + 1
      BY <2>2 DEF Typed, TypeOK
    <3>2. PICK d : d = deliver.event
      OBVIOUS
    <3>3. Fifo!Posted(d)' = Fifo!Posted(d) + 1
      BY <1>1, <2>1, <3>2, PostedCounts
    <3>4. QED
      BY <2>1, <3>1, <3>2, <3>3 DEF AttemptsCounted
  <2>3. QED
    BY <1>2, <1>5, <2>2, IdleType DEF Send, Answered
<1>6. CASE Awake
  <2>1. CASE deliver' = [deliver EXCEPT !.at = "send"]
    BY <1>3, <1>6, <2>1 DEF Awake, Typed, TypeOK
  <2>2. QED
    BY <1>2, <1>6, <2>1, IdleType DEF Awake
<1>7. CASE Return \/ ProcessEnds
  BY <1>2, <1>7, IdleType DEF Return, ProcessEnds
<1>8. CASE posted' = posted /\ deliver' = deliver
  BY <1>2, <1>3, <1>8
<1>9. QED
  BY <1>4, <1>5, <1>6, <1>7, <1>8 DEF Next, Handler, Goroutine, Occur, LookUpConnection, FindGroup,
     Emit, Cancel, vars
-----------------------------------------------------------------------------
(* The channel and the goroutine hold the latest accepted events in order. *)
THEOREM InductiveInvariant == Spec => []EmitterInv
<1>1. Init => EmitterInv
  <2>1. Init => AttemptsCounted
    BY IdleType DEF Init, AttemptsCounted
  <2>2. QED
    BY <2>1, TypeInit, InOrderInit, QueuedInit DEF EmitterInv
<1>2. EmitterInv /\ [Next]_vars => EmitterInv'
  BY TypeStep, InOrderStep, QueuedStep, AttemptsStep DEF EmitterInv
<1>3. QED
  BY <1>1, <1>2, PTL DEF Spec

(* Every variable keeps its type; the channel is never over its capacity.  *)
THEOREM TypeCorrect == Spec => []TypeOK
<1>1. EmitterInv => TypeOK
  BY DEF EmitterInv, Typed
<1>2. QED
  BY <1>1, InductiveInvariant, PTL

(* The events that wait are those in the channel and the goroutine's hands.*)
THEOREM NothingVanishesHolds == Spec => []NothingVanishes
<1>1. EmitterInv => NothingVanishes
  <2> SUFFICES ASSUME EmitterInv, Running
               PROVE  /\ {e \in Events : fate[e] = "queued"}
                           = ToSet(events) \cup ({deliver.event} \ {NoEvent})
                      /\ IsInjective(events)
                      /\ ~Contains(events, deliver.event)
    BY DEF NothingVanishes
  <2>1. /\ Typed /\ InOrder /\ QueuedWaits /\ DOMAIN events = 1..Len(events)
        /\ deliver.event \in Events \cup {NoEvent}
    BY DEF EmitterInv, Typed, TypeOK
  <2>2. IsInjective(events) /\ ~Contains(events, deliver.event)
    BY <2>1, Distinct DEF IsInjective, Contains
  <2>3. ASSUME NEW e
        PROVE  e \in Events /\ fate[e] = "queued"
                 <=> e \in ToSet(events) \cup ({deliver.event} \ {NoEvent})
    BY <2>1, Distinct, EmitterAssumption DEF QueuedWaits, Waiting, ToSet
  <2>4. QED
    BY <2>2, <2>3
<1>2. QED
  BY <1>1, InductiveInvariant, PTL

(* An event that is answered, failed, dropped or skipped is not posted.    *)
THEOREM AnsweredIsFinalHolds == Spec => AnsweredIsFinal
<1>1. EmitterInv /\ [Next]_vars
        => [\A e \in Events : fate[e] \in {"answered", "failed", "dropped", "skipped"}
              => /\ fate'[e] = fate[e]
                 /\ posted' # Append(posted, e)]_vars
  <2> SUFFICES ASSUME EmitterInv, [Next]_vars, NEW e \in Events,
                      fate[e] \in {"answered", "failed", "dropped", "skipped"}
               PROVE  fate'[e] = fate[e] /\ posted' # Append(posted, e)
    OBVIOUS
  <2>1. /\ fate \in [Events -> Fates] /\ posted \in Seq(Events)
        /\ events \in Seq(Events) /\ QueuedWaits
    BY DEF EmitterInv, Typed, TypeOK
  <2>2. posted # Append(posted, e)
    <3>1. Len(Append(posted, e)) = Len(posted) + 1 /\ Len(posted) \in Nat
      BY <2>1
    <3>2. QED
      BY <3>1
  (* A step changes the fate only of an event that is not over.            *)
  <2>3. ASSUME NEW d \in Events, NEW f, To(d, f), d # e PROVE fate'[e] = fate[e]
    BY <2>1, <2>3 DEF To
  <2>4. ASSUME NEW d \in Events, Occur(d) \/ Handler(d)
        PROVE  fate'[e] = fate[e] /\ posted' = posted
    BY <2>3, <2>4 DEF Occur, Handler, LookUpConnection, FindGroup, Emit
  <2>5. CASE TakeEvent
    <3>1. /\ Running /\ Head(events) \in Events /\ Waiting(Head(events))
      BY <2>1, <2>5 DEF TakeEvent, Running, Waiting
    <3>2. fate[Head(events)] = "queued"
      BY <2>1, <3>1 DEF QueuedWaits
    <3>3. QED
      BY <2>2, <2>3, <2>5, <3>1, <3>2 DEF TakeEvent
  <2>6. CASE Send \/ Awake
    <3>1. Running /\ deliver.event \in Events /\ Waiting(deliver.event)
      BY <2>6 DEF Send, Awake, Running, Waiting, EmitterInv, Typed, TypeOK
    <3>2. deliver.event # e
      BY <2>1, <3>1 DEF QueuedWaits
    <3>3. Append(posted, deliver.event) # Append(posted, e)
      <4>1. /\ Append(posted, deliver.event)[Len(posted) + 1] = deliver.event
            /\ Append(posted, e)[Len(posted) + 1] = e
        BY <2>1, <3>1
      <4>2. QED
        BY <3>2, <4>1
    <3>4. fate'[e] = fate[e]
      BY <2>3, <2>6, <3>1, <3>2 DEF Send, Awake, Answered
    <3>5. QED
      BY <2>2, <2>6, <3>3, <3>4 DEF Send, Awake
  <2>7. CASE ProcessEnds
    BY <2>2, <2>7 DEF ProcessEnds
  <2>8. QED
    BY <2>2, <2>4, <2>5, <2>6, <2>7 DEF Next, Goroutine, Return, Cancel, vars
<1>2. QED
  BY <1>1, InductiveInvariant, PTL DEF Spec, AnsweredIsFinal

(* The emitter implements a lossy FIFO, whatever the receivers answer.     *)
THEOREM FifoSpecHolds == Spec => FifoSpec
<1>1. Init => Fifo!Init
  BY DEF Init, Fifo!Init
<1>2. EmitterInv /\ [Next]_vars => [Fifo!Next]_<<accepted, posted>>
  <2> SUFFICES ASSUME EmitterInv, [Next]_vars PROVE [Fifo!Next]_<<accepted, posted>>
    OBVIOUS
  <2>1. ASSUME NEW e \in Events, Emit(e), accepted' = Append(accepted, e) PROVE Fifo!Accept(e)
    <3>1. ~Fifo!Contains(accepted, e)
      BY <2>1 DEF Emit, EmitterInv, InOrder, Beyond, Fifo!Contains
    <3>2. QED
      BY <2>1, <3>1 DEF Emit, Fifo!Accept
  <2>2. CASE Send
    <3> DEFINE e == deliver.event
    <3>1. /\ e \in Events /\ e # NoEvent /\ posted' = Append(posted, e) /\ accepted' = accepted
          /\ posted \in Seq(Events) /\ accepted \in Seq(Events) /\ InOrder
      BY <2>2 DEF Send, EmitterInv, Typed, TypeOK
    <3>2. Taken \in 1..Len(accepted) /\ accepted[Taken] = e
      BY <3>1 DEF InOrder, Taken, EmitterInv, Typed, TypeOK
    <3>3. \A n \in 1..Len(accepted) : Fifo!Place(accepted[n]) = n
      BY <3>1 DEF Fifo!Place, InOrder
    <3>4. Fifo!Posted(e) < MaxRetries
      BY <2>2 DEF Send, EmitterInv, AttemptsCounted, Typed
    <3>5. posted # <<>> => Fifo!Place(Fifo!Last(posted)) <= Fifo!Place(e)
      <4>1. SUFFICES ASSUME posted # <<>> PROVE Fifo!Place(Fifo!Last(posted)) <= Fifo!Place(e)
        OBVIOUS
      <4>2. Len(posted) \in 1..Len(posted)
        BY <3>1, <4>1
      <4>3. PICK q \in 1..Taken : posted[Len(posted)] = accepted[q]
        BY <3>1, <4>2 DEF InOrder
      <4>4. q \in 1..Len(accepted) /\ q <= Taken
        BY <3>2
      <4>5. QED
        BY <3>2, <3>3, <4>3, <4>4 DEF Fifo!Last
    <3>6. Fifo!Contains(accepted, e)
      BY <3>2 DEF Fifo!Contains
    <3>7. Fifo!Post(e)
      BY <3>1, <3>4, <3>5, <3>6 DEF Fifo!Post
    <3>8. QED
      BY <3>1, <3>7 DEF Fifo!Next
  <2>3. CASE UNCHANGED <<accepted, posted>>
    BY <2>3
  <2>4. QED
    BY <2>1, <2>2, <2>3 DEF Next, Handler, Goroutine, Occur, LookUpConnection, FindGroup, Emit,
       TakeEvent, Return, Awake, Cancel, ProcessEnds, vars, Fifo!Next
<1>3. QED
  BY <1>1, <1>2, InductiveInvariant, PTL DEF Spec, FifoSpec, Fifo!Spec
=============================================================================
