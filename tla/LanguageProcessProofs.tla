------------------------- MODULE LanguageProcessProofs -------------------------
(***************************************************************************)
(* Proofs about the language server's process and its supervisor, for any  *)
(* capacities of the channels, any reserve of two events or more and any   *)
(* number of restarts.                                                     *)
(***************************************************************************)
EXTENDS LanguageProcess, TLAPS

(***************************************************************************)
(* The inductive invariant                                                 *)
(***************************************************************************)

Clients == [epoch : 1 .. MaxEpoch, open : BOOLEAN, told : {"starting", "started", "ended", "gone"},
            turn : {"idle", "poll", "count", "end"}, left : 0 .. MaxPolls,
            hand : Seq(Events)]
Controls == [kind : {"input", "restart"}, epoch : 1 .. MaxEpoch]
Emissions == [phase : {"count", "send", "wake"}, event : Events, terminal : BOOLEAN, n : Int]
Steps == {"start", "started", "loop", "inspect", "outputs", "writes", "wait", "exited", "decide",
          "unpublish", "kill", "finish", "done"}
Reasons == {"none", "restart", "shutdown", "unannounced", "output overflow", "event overflow"}
Supervisors == [at : Steps, epoch : 1 .. MaxEpoch, emission : Emissions \cup {NoEmission},
                accepted : BOOLEAN, reason : Reasons]
Children == [epoch : 1 .. MaxEpoch, leader : {"alive", "exited"}, inbox : Int, open : BOOLEAN,
             writer : BOOLEAN, writes : Int, output : Int, reader : BOOLEAN, overflowed : BOOLEAN]

ClientTyped == client \in Clients /\ Len(client.hand) <= 1
ChannelsTyped ==
    /\ controls \in Seq(Controls) /\ Len(controls) <= ControlCapacity
    /\ events \in Seq(Events) /\ Len(events) <= EventCapacity
    /\ queued \in Int
ChildTyped ==
    /\ pid \in 0 .. MaxEpoch /\ child \in Children \cup {NoChild}
    /\ reaped \subseteq 1 .. MaxEpoch

Typed == ClientTyped /\ ChannelsTyped /\ latch \in BOOLEAN /\ sup \in Supervisors /\ ChildTyped

\* Where the supervisor has a child, where it has none, and why it stops one.
Placed ==
    /\ sup.at \in {"started", "outputs", "writes", "wait", "exited", "unpublish", "kill"} => Running
    /\ sup.at \in {"start", "finish", "done"} => ~Running
    /\ sup.reason = "restart" => sup.at \in {"unpublish", "kill"}

\* An epoch's child is reaped before the next epoch has one, so that no number
\* of an epoch comes back; the number shown is withdrawn before the kill.
OncePerEpoch ==
    /\ \A e \in reaped : e <= sup.epoch
    /\ sup.at = "start" \/ sup.reason = "restart" => sup.epoch \notin reaped
    /\ Running => /\ child.epoch <= sup.epoch
                  /\ sup.reason = "restart" => child.epoch < sup.epoch
                  /\ child.epoch \in reaped <=> sup.at = "exited"
    /\ pid # 0 => pid = child.epoch /\ sup.at # "kill"
    /\ ~misfired

\* Restarts are taken in the order of their epochs, none of which has begun.
RestartsRise ==
    /\ sup.epoch <= client.epoch
    /\ \A n \in DOMAIN controls : controls[n].kind = "restart" =>
          /\ sup.epoch < controls[n].epoch /\ controls[n].epoch <= client.epoch
          /\ \A m \in 1 .. n - 1 : controls[m].kind = "restart" => controls[m].epoch < controls[n].epoch

\* The counter is the channel, the event in the main thread's hand and the one
\* that is about to be sent.
InFlight == IF sup.emission.phase = "send" THEN 1 ELSE 0

Counted ==
    /\ queued = Len(events) + Len(client.hand) + InFlight
    /\ client.turn = "count" <=> client.hand # <<>>
    /\ client.turn = "count" => client.left > 0
    /\ ~client.open => events = <<>> /\ client.turn = "idle"

\* An event sent while the main thread rests and nothing is latched is the first.
FirstWakes ==
    client.open /\ client.turn = "idle" /\ ~latch /\ sup.emission.phase = "send" =>
        sup.emission.n = 1

IInv == Typed /\ Placed /\ OncePerEpoch /\ RestartsRise /\ Counted /\ FirstWakes /\ EventsAreAnnounced

LEMMA Constants ==
    /\ MaxEpoch \in Nat \ {0} /\ MaxPolls \in Nat \ {0} /\ ControlCapacity \in Nat \ {0}
    /\ EventCapacity \in Nat
BY LanguageProcessAssumption

LEMMA InitIInv == Init => IInv
<1> SUFFICES ASSUME Init PROVE IInv
  OBVIOUS
<1>1. Typed
  <2>1. 1 \in 1 .. MaxEpoch /\ 0 \in 0 .. MaxPolls
    BY Constants
  <2>2. ClientTyped
    BY <2>1 DEF Init, ClientTyped, Clients
  <2>3. sup \in Supervisors
    BY <2>1 DEF Init, Supervisors, Steps, Reasons
  <2>4. ChannelsTyped
    BY Constants DEF Init, ChannelsTyped
  <2>5. ChildTyped
    BY Constants DEF Init, ChildTyped
  <2>6. latch \in BOOLEAN
    BY DEF Init
  <2> QED BY <2>2, <2>3, <2>4, <2>5, <2>6 DEF Typed
<1>2. Placed /\ OncePerEpoch
  BY DEF Init, Placed, OncePerEpoch, Running
<1>3. RestartsRise /\ Counted /\ FirstWakes /\ EventsAreAnnounced
  BY DEF Init, RestartsRise, Counted, FirstWakes, EventsAreAnnounced, InFlight, NoEmission
<1> QED BY <1>1, <1>2, <1>3 DEF IInv

LEMMA EmissionTyped ==
    ASSUME NEW kind \in {"started", "output", "input", "restarted", "ended"},
           NEW e \in 1 .. MaxEpoch, NEW terminal \in BOOLEAN
    PROVE  Emission(kind, e, terminal) \in Emissions
BY DEF Emission, Emissions, Events

---------------------------------------------------------------------------
(* Types                                                                   *)

(* A channel with one message more or one less.                            *)
LEMMA Channels ==
    ASSUME NEW S, NEW queue \in Seq(S)
    PROVE  /\ \A e \in S : Append(queue, e) \in Seq(S) /\ Len(Append(queue, e)) = Len(queue) + 1
           /\ queue # <<>> => /\ Head(queue) \in S /\ Tail(queue) \in Seq(S)
                             /\ Len(Tail(queue)) = Len(queue) - 1
           /\ Len(queue) \in Nat
OBVIOUS

LEMMA ClientStepTyped ==
    ASSUME Typed, Counted, Send \/ Restart \/ Stop \/ Turn
    PROVE  Typed'
<1>1. sup' \in Supervisors /\ ChildTyped'
  BY DEF Typed, ChildTyped, Send, Restart, Stop, Turn, TakeWake, Receive, Count, NoMore, EndTurn,
         ClientStep
<1>2. /\ client.epoch \in 1 .. MaxEpoch /\ client.left \in 0 .. MaxPolls
      /\ MaxPolls \in 0 .. MaxPolls
  BY Constants DEF Typed, ClientTyped, Clients
<1>3. ClientTyped'
  <2>1. CASE Send
    BY <2>1 DEF Typed, ClientTyped, Send
  <2>2. CASE Restart
    <3>1. client.epoch + 1 \in 1 .. MaxEpoch
      BY <1>2, <2>2, Constants DEF Restart
    <3> QED BY <2>2, <3>1 DEF Typed, ClientTyped, Clients, Restart
  <2>3. CASE Stop
    BY <2>3 DEF Typed, ClientTyped, Clients, Stop
  <2>4. CASE TakeWake
    BY <1>2, <2>4 DEF Typed, ClientTyped, Clients, TakeWake
  <2>5. CASE Receive
    <3>1. Head(events) \in Events
      BY <2>5, Channels DEF Typed, ChannelsTyped, Receive
    <3>2. <<Head(events)>> \in Seq(Events) /\ Len(<<Head(events)>>) <= 1
      BY <3>1
    <3> QED BY <2>5, <3>2 DEF Typed, ClientTyped, Clients, Receive
  <2>6. CASE Count
    <3>1. client.left - 1 \in 0 .. MaxPolls
      BY <1>2, <2>6 DEF Count, Counted
    <3>2. Delivered(client.hand[1]) \in Clients
      BY <3>1 DEF Typed, ClientTyped, Clients, Delivered
    <3>3. [client EXCEPT !.turn = "poll"] \in Clients
      BY DEF Typed, ClientTyped, Clients
    <3>4. \A c \in Clients : [c EXCEPT !.hand = <<>>] \in Clients /\ [c EXCEPT !.hand = <<>>].hand = <<>>
      <4>1. <<>> \in Seq(Events)
        OBVIOUS
      <4> QED BY <4>1, Zenon DEF Clients
    <3>5. client' \in Clients /\ client'.hand = <<>>
      <4>1. CASE Stale(client.hand[1])
        BY <2>6, <3>3, <3>4, <4>1, Zenon DEF Count
      <4>2. CASE ~Stale(client.hand[1])
        BY <2>6, <3>2, <3>4, <4>2, Zenon DEF Count
      <4> QED BY <4>1, <4>2
    <3> QED BY <3>5 DEF ClientTyped
  <2>7. CASE NoMore
    BY <2>7 DEF Typed, ClientTyped, Clients, NoMore
  <2>8. CASE EndTurn
    BY <2>8 DEF Typed, ClientTyped, Clients, EndTurn
  <2> QED BY <2>1, <2>2, <2>3, <2>4, <2>5, <2>6, <2>7, <2>8 DEF Turn
<1>4. ChannelsTyped'
  <2> USE DEF Typed, ChannelsTyped, ClientStep
  <2>1. CASE Send
    <3>1. [kind |-> "input", epoch |-> client.epoch] \in Controls
      BY <1>2 DEF Controls
    <3> QED BY <2>1, <3>1, Channels, Constants DEF Send
  <2>2. CASE Restart
    <3>1. [kind |-> "restart", epoch |-> client.epoch + 1] \in Controls
      BY <1>2, <2>2, Constants DEF Restart, Controls
    <3> QED BY <2>2, <3>1, Channels, Constants DEF Restart
  <2>3. CASE Stop
    BY <2>3, Constants DEF Stop
  <2>4. CASE TakeWake
    BY <2>4 DEF TakeWake
  <2>5. CASE Receive
    BY <2>5, Channels, Constants DEF Receive
  <2>6. CASE Count
    BY <2>6 DEF Count
  <2>7. CASE NoMore
    BY <2>7 DEF NoMore
  <2>8. CASE EndTurn
    BY <2>8 DEF EndTurn
  <2> QED BY <2>1, <2>2, <2>3, <2>4, <2>5, <2>6, <2>7, <2>8 DEF Turn
<1>5. latch' \in BOOLEAN
  BY Zenon DEF Typed, Send, Restart, Stop, Turn, TakeWake, Receive, Count, NoMore, EndTurn
<1> QED BY <1>1, <1>3, <1>4, <1>5 DEF Typed

LEMMA EmitTyped == ASSUME Typed, Emit PROVE Typed'
<1>1. ClientTyped' /\ ChildTyped'
  BY DEF Typed, ClientTyped, ChildTyped, Emit, CountEvent, SendEvent, WakeClient, SupStep
<1>2. /\ sup.emission \in Emissions /\ sup.emission.event \in Events
      /\ queued + 1 \in Int /\ queued - 1 \in Int
  BY DEF Typed, ChannelsTyped, Supervisors, Emissions, NoEmission, Emit, CountEvent, SendEvent, WakeClient
<1>3. /\ \A e \in Emissions \cup {NoEmission} : [sup EXCEPT !.emission = e] \in Supervisors
      /\ \A b \in BOOLEAN : [sup EXCEPT !.accepted = b] \in Supervisors
  BY Zenon DEF Typed, Supervisors
<1>4. CASE CountEvent
  <2>1. sup' \in Supervisors
    <3>1. [sup.emission EXCEPT !.phase = "send", !.n = queued + 1] \in Emissions
      BY <1>2, Zenon DEF Emissions
    <3>2. CASE ~sup.emission.terminal /\ queued >= EventCapacity - TerminalReserve
      BY <1>4, <3>2, Zenon DEF Typed, CountEvent, Supervisors
    <3>3. CASE ~(~sup.emission.terminal /\ queued >= EventCapacity - TerminalReserve)
      <4>1. sup' = [sup EXCEPT !.emission = [sup.emission EXCEPT !.phase = "send", !.n = queued + 1]]
        BY <1>4, <3>3, Zenon DEF CountEvent, Typed, Supervisors
      <4> QED BY <1>3, <3>1, <4>1
    <3> QED BY <3>2, <3>3
  <2>2. ChannelsTyped' /\ latch' \in BOOLEAN
    BY <1>2, <1>4, Zenon DEF Typed, ChannelsTyped, CountEvent
  <2> QED BY <1>1, <2>1, <2>2 DEF Typed
<1>5. CASE SendEvent
  <2>1. sup' \in Supervisors
    <3>1. [sup.emission EXCEPT !.phase = "wake"] \in Emissions
      BY <1>2, Zenon DEF Emissions
    <3>2. CASE client.open /\ Len(events) < EventCapacity
      <4>1. sup' = [[sup EXCEPT !.emission = [sup.emission EXCEPT !.phase = "wake"]] EXCEPT !.accepted = TRUE]
        BY <1>5, <3>2, Zenon DEF SendEvent, Typed, Supervisors
      <4> QED BY <1>3, <3>1, <4>1, Zenon DEF Supervisors
    <3>3. CASE ~(client.open /\ Len(events) < EventCapacity)
      BY <1>5, <3>3, Zenon DEF SendEvent, Typed, Supervisors
    <3> QED BY <3>2, <3>3
  <2>2. ChannelsTyped'
    <3>1. CASE client.open /\ Len(events) < EventCapacity
      <4>1. events' = Append(events, sup.emission.event)
        BY <1>5, <3>1 DEF SendEvent
      <4>2. events \in Seq(Events) /\ Len(events) + 1 <= EventCapacity
        BY <3>1, Constants DEF Typed, ChannelsTyped
      <4>3. events' \in Seq(Events) /\ Len(events') <= EventCapacity
        BY <1>2, <4>1, <4>2
      <4> QED BY <1>5, <3>1, <4>3, Zenon DEF Typed, ChannelsTyped, SendEvent
    <3>2. CASE ~(client.open /\ Len(events) < EventCapacity)
      BY <1>2, <1>5, <3>2, Zenon DEF Typed, ChannelsTyped, SendEvent
    <3> QED BY <3>1, <3>2
  <2>3. latch' \in BOOLEAN
    BY <1>5 DEF Typed, SendEvent
  <2> QED BY <1>1, <2>1, <2>2, <2>3 DEF Typed
<1>6. CASE WakeClient
  <2>1. sup' \in Supervisors
    BY <1>3, <1>6, Zenon DEF WakeClient
  <2>2. ChannelsTyped' /\ latch' \in BOOLEAN
    BY <1>6, Zenon DEF Typed, ChannelsTyped, WakeClient
  <2> QED BY <1>1, <2>1, <2>2 DEF Typed
<1> QED BY <1>4, <1>5, <1>6 DEF Emit

Supervised ==
    \/ Start \/ Started \/ TakeInput \/ TakeRestart \/ NoControl \/ Inspect
    \/ ForwardOutputs \/ ForwardWrites \/ TryWait \/ Exited \/ Decide \/ Close
    \/ Unpublish \/ StopGroup \/ Finish

LEMMA SupervisedTyped == ASSUME Typed, Placed, Supervised PROVE Typed'
<1>1. ClientTyped' /\ latch' \in BOOLEAN
  BY DEF Typed, ClientTyped, Supervised, Start, Started, TakeInput, TakeRestart, NoControl, Inspect,
         ForwardOutputs, ForwardWrites, Forward, TryWait, Exited, Decide, Close, Unpublish, StopGroup,
         Finish, Quiet, SupStep
<1>2. ChannelsTyped'
  <2>1. controls' = controls \/ controls' = <<>> \/ (controls # <<>> /\ controls' = Tail(controls))
    <3>1. CASE TakeInput \/ TakeRestart
      BY <3>1 DEF TakeInput, TakeRestart
    <3>2. CASE Finish
      BY <3>2 DEF Finish
    <3>3. CASE Start \/ Started \/ NoControl \/ Inspect
      BY <3>3 DEF Start, Started, NoControl, Inspect
    <3>4. CASE ForwardOutputs \/ ForwardWrites \/ TryWait \/ Exited
      BY <3>4 DEF ForwardOutputs, ForwardWrites, Forward, TryWait, Exited
    <3>5. CASE Decide \/ Close \/ Unpublish \/ StopGroup
      BY <3>5 DEF Decide, Close, Unpublish, StopGroup
    <3> QED BY <3>1, <3>2, <3>3, <3>4, <3>5 DEF Supervised
  <2>2. UNCHANGED <<events, queued>>
    BY DEF Supervised, Start, Started, TakeInput, TakeRestart, NoControl, Inspect,
         ForwardOutputs, ForwardWrites, Forward, TryWait, Exited, Decide, Close, Unpublish, StopGroup,
         Finish, Quiet
  <2>3. controls' \in Seq(Controls) /\ Len(controls') <= ControlCapacity
    <3>1. CASE controls' = controls
      BY <3>1 DEF Typed, ChannelsTyped
    <3>2. CASE controls' = <<>>
      BY <3>2, Constants
    <3>3. CASE controls # <<>> /\ controls' = Tail(controls)
      BY <3>3, Constants DEF Typed, ChannelsTyped
    <3> QED BY <2>1, <3>1, <3>2, <3>3
  <2> QED BY <2>2, <2>3, Zenon DEF Typed, ChannelsTyped
<1> DEFINE Kinds == {"started", "output", "input", "restarted", "ended"}
<1>3. /\ NoEmission \in Emissions \cup {NoEmission}
      /\ \A kind \in Kinds : \A e \in 1 .. MaxEpoch : \A terminal \in BOOLEAN :
             Emission(kind, e, terminal) \in Emissions
  BY EmissionTyped
<1>4. sup.epoch \in 1 .. MaxEpoch /\ (Running => child.epoch \in 1 .. MaxEpoch /\ child \in Children)
  BY DEF Typed, Supervisors, ChildTyped, Children, Running
<1>5. controls # <<>> => Head(controls) \in Controls /\ Head(controls).epoch \in 1 .. MaxEpoch
  <2>1. controls # <<>> => Head(controls) \in Controls
    BY DEF Typed, ChannelsTyped
  <2> QED BY <2>1 DEF Controls
<1>6. Running => /\ child.inbox + 1 \in Int /\ child.output - 1 \in Int /\ child.writes - 1 \in Int
  BY <1>4 DEF Children
<1>7. sup' \in Supervisors /\ ChildTyped'
  <2> USE <1>3, <1>4, <1>5 DEF Typed, ChildTyped
  <2>1. CASE Start
    <3>1. Spawned(sup.epoch) \in Children
      BY DEF Spawned, Children
    <3>2. \A terminal \in BOOLEAN : /\ Emission("started", sup.epoch, terminal) \in Emissions
                                   /\ Emission("ended", sup.epoch, terminal) \in Emissions
      OBVIOUS
    <3>3. /\ sup' \in Supervisors /\ UNCHANGED reaped
          /\ (child' = Spawned(sup.epoch) /\ pid' = sup.epoch) \/ UNCHANGED <<child, pid>>
      BY <2>1, <3>2, Zenon DEF Start, Supervisors, Steps
    <3> QED BY <3>1, <3>3, Constants
  <2>2. CASE Started
    BY <2>2, Zenon DEF Started, Quiet, SupStep, Supervisors, Steps, Reasons
  <2>3. CASE TakeInput
    <3>1. Emission("input", Head(controls).epoch, FALSE) \in Emissions
      BY <2>3 DEF TakeInput
    <3>2. Running => [child EXCEPT !.inbox = @ + 1] \in Children
      BY <1>6, Zenon DEF Children
    <3> QED BY <2>3, <3>1, <3>2, Zenon DEF TakeInput, Quiet, SupStep, Supervisors, Steps
  <2>4. CASE TakeRestart
    BY <2>4, Zenon DEF TakeRestart, Quiet, SupStep, Supervisors, Steps, Reasons
  <2>5. CASE NoControl
    BY <2>5, Zenon DEF NoControl, Quiet, SupStep, Supervisors, Steps, Reasons
  <2>6. CASE Inspect
    <3>1. Running => [child EXCEPT !.overflowed = FALSE] \in Children
      BY Zenon DEF Children
    <3> QED BY <2>6, <3>1, Zenon DEF Inspect, Quiet, SupStep, Supervisors, Steps, Reasons
  <2>7. CASE ForwardOutputs
    <3>1. Emission("output", child.epoch, FALSE) \in Emissions /\ [child EXCEPT !.output = @ - 1] \in Children
      <4>1. Running
        BY <2>7 DEF ForwardOutputs, Forward, At, Placed
      <4>2. [child EXCEPT !.output = @ - 1] \in Children
        BY <1>6, <4>1, Zenon DEF Children
      <4> QED BY <4>1, <4>2
    <3> QED BY <2>7, <3>1, Zenon DEF ForwardOutputs, Forward, Quiet, SupStep, Supervisors, Steps, Reasons
  <2>8. CASE ForwardWrites
    <3>1. Emission("input", child.epoch, FALSE) \in Emissions /\ [child EXCEPT !.writes = @ - 1] \in Children
      <4>1. Running
        BY <2>8 DEF ForwardWrites, Forward, At, Placed
      <4>2. [child EXCEPT !.writes = @ - 1] \in Children
        BY <1>6, <4>1, Zenon DEF Children
      <4> QED BY <4>1, <4>2
    <3> QED BY <2>8, <3>1, Zenon DEF ForwardWrites, Forward, Quiet, SupStep, Supervisors, Steps, Reasons
  <2>9. CASE TryWait
    BY <2>9, Zenon DEF TryWait, Quiet, SupStep, Supervisors, Steps, Placed, At
  <2>10. CASE Exited
    <3>1. 0 \in 0 .. MaxEpoch
      BY Constants
    <3> QED BY <2>10, <3>1, Zenon DEF Exited, Quiet, SupStep, Supervisors, Steps, Placed, At
  <2>11. CASE Decide
    BY <2>11, Zenon DEF Decide, Quiet, SupStep, Supervisors, Steps
  <2>12. CASE Close
    BY <2>12, Zenon DEF Close, Quiet, SupStep, Supervisors, Steps, Reasons
  <2>13. CASE Unpublish
    <3>1. 0 \in 0 .. MaxEpoch
      BY Constants
    <3> QED BY <2>13, <3>1, Zenon DEF Unpublish, Quiet, SupStep, Supervisors, Steps, Children, Placed, At
  <2>14. CASE StopGroup
    BY <2>14, Zenon DEF StopGroup, Quiet, SupStep, Supervisors, Steps, Reasons, Placed, At
  <2>15. CASE Finish
    BY <2>15, Zenon DEF Finish, Quiet, SupStep, Supervisors, Steps, Reasons
  <2> QED BY <2>1, <2>2, <2>3, <2>4, <2>5, <2>6, <2>7, <2>8, <2>9, <2>10, <2>11, <2>12, <2>13,
             <2>14, <2>15 DEF Supervised
<1> QED BY <1>1, <1>2, <1>7 DEF Typed

LEMMA ServerTyped == ASSUME Typed, Write \/ Read \/ Exit PROVE Typed'
<1>1. /\ ClientTyped' /\ ChannelsTyped' /\ latch' \in BOOLEAN /\ sup' \in Supervisors
      /\ UNCHANGED <<pid, reaped>>
  BY DEF Typed, ClientTyped, ChannelsTyped, Write, Read, Exit, ChildStep
<1>2. child \in Children
  BY DEF Typed, ChildTyped, Write, Read, Exit, Running
<1>3. /\ child.inbox - 1 \in Int /\ child.writes + 1 \in Int /\ child.output + 1 \in Int
      /\ child.writes \in Int
  BY <1>2 DEF Children
<1>4. CASE Write
  <2>1. \A n \in Int : \A b \in BOOLEAN :
          [child EXCEPT !.inbox = @ - 1, !.writes = n, !.writer = b] \in Children
    BY <1>2, <1>3, Zenon DEF Children
  <2>2. child' \in Children
    BY <1>3, <1>4, <2>1, Zenon DEF Write
  <2> QED BY <1>1, <2>2 DEF Typed, ChildTyped
<1>5. CASE Read
  <2>1. child' \in Children
    BY <1>2, <1>3, <1>5, Zenon DEF Read, Children
  <2> QED BY <1>1, <2>1 DEF Typed, ChildTyped
<1>6. CASE Exit
  <2>1. child' \in Children
    BY <1>2, <1>6, Zenon DEF Exit, Children
  <2> QED BY <1>1, <2>1 DEF Typed, ChildTyped
<1> QED BY <1>4, <1>5, <1>6

LEMMA TypedNext == ASSUME Typed, Placed, Counted, [Next]_vars PROVE Typed'
<1>1. CASE Send \/ Restart \/ Stop \/ Turn
  BY <1>1, ClientStepTyped
<1>2. CASE Emit
  BY <1>2, EmitTyped
<1>3. CASE Supervised
  BY <1>3, SupervisedTyped
<1>4. CASE Write \/ Read \/ Exit
  BY <1>4, ServerTyped
<1>5. CASE UNCHANGED vars
  BY <1>5 DEF vars, Typed, ClientTyped, ChannelsTyped, ChildTyped
<1> QED BY <1>1, <1>2, <1>3, <1>4, <1>5 DEF Next, Supervise, Supervised

---------------------------------------------------------------------------
(* The child and its number                                                *)

LEMMA RunningIsAnEpoch ==
    /\ Typed => (Running <=> child.epoch # 0)
    /\ Typed' => (Running' <=> child'.epoch # 0)
<1>1. ASSUME NEW c \in Children \cup {NoChild} PROVE c # NoChild <=> c.epoch # 0
  <2>1. CASE c = NoChild
    BY <2>1 DEF NoChild
  <2>2. CASE c \in Children
    BY <2>2, Constants DEF NoChild, Children
  <2> QED BY <2>1, <2>2
<1>2. Typed => child \in Children \cup {NoChild}
  BY DEF Typed, ChildTyped
<1>3. Typed' => child' \in Children \cup {NoChild}
  BY DEF Typed, ChildTyped
<1> QED BY <1>1, <1>2, <1>3 DEF Running

\* What these two parts look at, which only the supervisor's own steps change.
Core == <<sup.at, sup.reason, sup.epoch, child.epoch, pid, reaped, misfired>>

LEMMA CoreKept ==
    ASSUME Typed, Send \/ Restart \/ Stop \/ Turn \/ Emit \/ Write \/ Read \/ Exit \/ UNCHANGED vars
    PROVE  UNCHANGED Core
<1>1. CASE Send \/ Restart \/ Stop \/ Turn
  BY <1>1 DEF Core, Send, Restart, Stop, Turn, TakeWake, Receive, Count, NoMore, EndTurn, ClientStep
<1>2. CASE Emit
  <2>1. UNCHANGED <<child, pid, reaped, misfired>>
    BY <1>2 DEF Emit, CountEvent, SendEvent, WakeClient
  <2>2. UNCHANGED <<sup.at, sup.reason, sup.epoch>>
    BY <1>2 DEF Typed, Supervisors, Emit, CountEvent, SendEvent, WakeClient
  <2> QED BY <2>1, <2>2 DEF Core
<1>3. CASE Write \/ Read \/ Exit
  <2>1. child \in Children
    BY <1>3 DEF Typed, ChildTyped, Write, Read, Exit, Running
  <2>2. UNCHANGED child.epoch
    BY <1>3, <2>1 DEF Children, Write, Read, Exit
  <2>3. UNCHANGED <<sup, pid, reaped, misfired>>
    BY <1>3 DEF Write, Read, Exit, ChildStep
  <2> QED BY <2>2, <2>3 DEF Core
<1>4. CASE UNCHANGED vars
  BY <1>4 DEF vars, Core
<1> QED BY <1>1, <1>2, <1>3, <1>4

LEMMA CoreKeeps ==
    ASSUME Typed, Typed', UNCHANGED Core
    PROVE  (Placed => Placed') /\ (OncePerEpoch => OncePerEpoch')
BY RunningIsAnEpoch DEF Core, Placed, OncePerEpoch

(* The supervisor's steps.  What a restart takes from its channel is newer  *)
(* than whatever was reaped.                                               *)
LEMMA SupervisedPlaced ==
    ASSUME Typed, Typed', Placed, OncePerEpoch, RestartsRise, Supervised
    PROVE  Placed' /\ OncePerEpoch'
<1>1. sup \in Supervisors /\ sup.epoch \in Int /\ child.epoch \in Int /\ \A e \in reaped : e \in Int
  <2>1. child \in Children \cup {NoChild}
    BY DEF Typed, ChildTyped
  <2>2. child.epoch \in Int
    BY <2>1 DEF Children, NoChild
  <2> QED BY <2>2 DEF Typed, ChildTyped, Supervisors
<1>2. Running => child \in Children
  BY DEF Typed, ChildTyped, Running
<1>3. (Running <=> child.epoch # 0) /\ (Running' <=> child'.epoch # 0)
  BY RunningIsAnEpoch
<1>4. CASE Start
  <2>1. /\ sup.at = "start" /\ ~Running /\ sup.reason # "restart" /\ sup.epoch \notin reaped
        /\ sup'.epoch = sup.epoch /\ sup'.reason = sup.reason /\ UNCHANGED <<reaped, misfired>>
    BY <1>1, <1>4, Zenon DEF Start, Placed, OncePerEpoch, Supervisors, At
  <2>2. CASE child' = Spawned(sup.epoch) /\ pid' = sup.epoch /\ sup'.at = "started"
    <3>1. child'.epoch = sup.epoch /\ sup.epoch # 0 /\ Running'
      BY <1>1, <1>3, <2>2, Constants DEF Spawned, Supervisors
    <3> QED BY <1>1, <2>1, <2>2, <3>1 DEF Placed, OncePerEpoch
  <2>3. CASE UNCHANGED <<child, pid>> /\ sup'.at = "inspect"
    BY <1>1, <1>3, <2>1, <2>3 DEF Placed, OncePerEpoch, Running
  <2> QED BY <1>1, <1>4, <2>2, <2>3, Zenon DEF Start, Supervisors
<1>5. CASE Started
  BY <1>1, <1>2, <1>3, <1>5 DEF Started, Placed, OncePerEpoch, Supervisors, Children, NoChild, At
<1>6. CASE TakeInput
  BY <1>1, <1>2, <1>3, <1>6 DEF TakeInput, Placed, OncePerEpoch, Supervisors, Children, NoChild, At
<1>7. CASE TakeRestart
  <2>1. sup.epoch < Head(controls).epoch /\ Head(controls).epoch \in Int
    <3>1. controls # <<>> /\ 1 \in DOMAIN controls /\ controls[1] = Head(controls) /\ controls[1] \in Controls
      BY <1>7 DEF TakeRestart, Typed, ChannelsTyped
    <3> QED BY <1>7, <3>1 DEF TakeRestart, RestartsRise, Controls
  <2> QED BY <1>1, <1>3, <1>7, <2>1 DEF TakeRestart, Placed, OncePerEpoch, Supervisors, At
<1>8. CASE NoControl
  BY <1>1, <1>2, <1>3, <1>8 DEF NoControl, Placed, OncePerEpoch, Supervisors, Children, NoChild, At
<1>9. CASE Inspect
  <2>1. CASE Running
    <3>1. child'.epoch = child.epoch
      BY <1>2, <1>9, <2>1 DEF Inspect, Children
    <3>2. sup'.at = "outputs" /\ sup'.epoch = sup.epoch /\ sup'.reason # "restart" /\ sup.at = "inspect"
      BY <1>1, <1>9, <2>1, Zenon DEF Inspect, Supervisors, At
    <3> QED BY <1>1, <1>3, <1>9, <2>1, <3>1, <3>2 DEF Inspect, Placed, OncePerEpoch
  <2>2. CASE ~Running
    BY <1>1, <1>3, <1>9, <2>2 DEF Inspect, Placed, OncePerEpoch, Supervisors, At
  <2> QED BY <2>1, <2>2
<1>10. CASE ForwardOutputs
  BY <1>1, <1>2, <1>3, <1>10
    DEF ForwardOutputs, Forward, Placed, OncePerEpoch, Supervisors, Children, NoChild, At
<1>11. CASE ForwardWrites
  BY <1>1, <1>2, <1>3, <1>11
    DEF ForwardWrites, Forward, Placed, OncePerEpoch, Supervisors, Children, NoChild, At
<1>12. CASE TryWait
  BY <1>1, <1>2, <1>3, <1>12 DEF TryWait, Placed, OncePerEpoch, Supervisors, Children, NoChild, At
<1>13. CASE Exited
  BY <1>1, <1>2, <1>3, <1>13 DEF Exited, Placed, OncePerEpoch, Supervisors, Children, NoChild, At
<1>14. CASE Decide
  BY <1>1, <1>2, <1>3, <1>14 DEF Decide, Placed, OncePerEpoch, Supervisors, Children, NoChild, At
<1>15. CASE Close
  BY <1>1, <1>2, <1>3, <1>15 DEF Close, Placed, OncePerEpoch, Supervisors, Children, NoChild, At
<1>16. CASE Unpublish
  BY <1>1, <1>2, <1>3, <1>16 DEF Unpublish, Placed, OncePerEpoch, Supervisors, Children, NoChild, At
<1>17. CASE StopGroup
  <2>1. /\ sup.at = "kill" /\ Running /\ child.epoch \notin reaped /\ child.epoch <= sup.epoch
        /\ (sup.reason = "restart" => child.epoch < sup.epoch)
    BY <1>17 DEF StopGroup, Placed, OncePerEpoch, At
  <2>2. /\ pid' = 0 /\ child' = NoChild /\ ~misfired' /\ reaped' = reaped \cup {child.epoch}
    BY <1>17, <2>1 DEF StopGroup, OncePerEpoch
  <2>3. /\ sup'.epoch = sup.epoch /\ sup'.reason # "restart"
        /\ \/ sup'.at \in {"inspect", "finish"}
           \/ sup'.at = "start" /\ sup.reason = "restart"
    <3>1. CASE sup.reason = "unannounced"
      BY <1>1, <1>17, <3>1, Zenon DEF StopGroup, Supervisors
    <3>2. CASE sup.reason = "shutdown"
      BY <1>1, <1>17, <3>2, Zenon DEF StopGroup, Supervisors
    <3>3. CASE sup.reason = "restart"
      BY <1>1, <1>17, <3>3, Zenon DEF StopGroup, Supervisors
    <3>4. CASE sup.reason \notin {"unannounced", "shutdown", "restart"}
      BY <1>1, <1>17, <3>4 DEF StopGroup, Supervisors
    <3> QED BY <3>1, <3>2, <3>3, <3>4
  <2>4. ~Running'
    BY <1>3, <2>2 DEF Running
  <2> QED BY <1>1, <2>1, <2>2, <2>3, <2>4 DEF Placed, OncePerEpoch
<1>18. CASE Finish
  BY <1>1, <1>2, <1>3, <1>18 DEF Finish, Placed, OncePerEpoch, Supervisors, Children, NoChild, At
<1> QED BY <1>4, <1>5, <1>6, <1>7, <1>8, <1>9, <1>10, <1>11,
          <1>12, <1>13, <1>14, <1>15, <1>16, <1>17, <1>18 DEF Supervised

---------------------------------------------------------------------------
(* The restarts in the control channel                                     *)

LEMMA RestartsRiseNext ==
    ASSUME Typed, Typed', RestartsRise, [Next]_vars
    PROVE  RestartsRise'
<1>1. /\ sup.epoch \in Int /\ client.epoch \in Int
      /\ controls \in Seq(Controls) /\ \A n \in DOMAIN controls : controls[n].epoch \in Int
  <2>1. controls \in Seq(Controls)
    BY DEF Typed, ChannelsTyped
  <2>2. \A n \in DOMAIN controls : controls[n] \in Controls
    BY <2>1
  <2> QED BY <2>1, <2>2 DEF Typed, ClientTyped, Clients, Supervisors, Controls
<1>2. CASE UNCHANGED <<controls, sup.epoch, client.epoch>>
  BY <1>2 DEF RestartsRise
<1>3. CASE Send
  <2>1. controls' = Append(controls, [kind |-> "input", epoch |-> client.epoch]) /\ UNCHANGED <<sup, client>>
    BY <1>3 DEF Send, ClientStep
  <2>2. /\ Len(controls') = Len(controls) + 1 /\ DOMAIN controls' = 1 .. Len(controls) + 1
        /\ \A n \in DOMAIN controls : controls'[n] = controls[n]
        /\ controls'[Len(controls) + 1] = [kind |-> "input", epoch |-> client.epoch]
    BY <1>1, <2>1
  <2>3. \A n \in DOMAIN controls' : controls'[n].kind = "restart" => n \in DOMAIN controls
    BY <1>1, <2>2
  <2> QED BY <1>1, <2>1, <2>2, <2>3 DEF RestartsRise
<1>4. CASE Restart
  <2>1. /\ controls' = Append(controls, [kind |-> "restart", epoch |-> client.epoch + 1])
        /\ client'.epoch = client.epoch + 1 /\ sup'.epoch = sup.epoch
    BY <1>4 DEF Restart, ClientStep, Typed, ClientTyped, Clients
  <2>2. /\ Len(controls') = Len(controls) + 1 /\ DOMAIN controls' = 1 .. Len(controls) + 1
        /\ \A n \in DOMAIN controls : controls'[n] = controls[n]
        /\ controls'[Len(controls) + 1] = [kind |-> "restart", epoch |-> client.epoch + 1]
    BY <1>1, <2>1
  <2> QED BY <1>1, <2>1, <2>2 DEF RestartsRise
<1>5. CASE TakeInput \/ TakeRestart
  <2>1. /\ controls # <<>> /\ controls' = Tail(controls) /\ UNCHANGED client
        /\ (sup'.epoch = sup.epoch) \/ (controls[1].kind = "restart" /\ sup'.epoch = controls[1].epoch)
    <3>1. Head(controls) = controls[1]
      BY <1>1
    <3>2. CASE TakeInput
      <4>1. sup'.epoch = sup.epoch
        BY <3>2, Zenon DEF TakeInput, Typed, Supervisors
      <4> QED BY <3>2, <4>1 DEF TakeInput, Quiet, SupStep
    <3>3. CASE TakeRestart
      <4>1. sup'.epoch = Head(controls).epoch
        BY <3>3, Zenon DEF TakeRestart, Typed, Supervisors
      <4> QED BY <3>1, <3>3, <4>1 DEF TakeRestart, Quiet, SupStep
    <3> QED BY <1>5, <3>2, <3>3
  <2>2. /\ Len(controls') = Len(controls) - 1 /\ DOMAIN controls' = 1 .. Len(controls) - 1
        /\ \A n \in DOMAIN controls' : controls'[n] = controls[n + 1] /\ n + 1 \in DOMAIN controls
    BY <1>1, <2>1
  <2>3. 1 \in DOMAIN controls
    BY <1>1, <2>1
  <2>4. sup'.epoch <= client'.epoch
    BY <1>1, <2>1, <2>3 DEF RestartsRise
  <2>5. ASSUME NEW n \in DOMAIN controls', controls'[n].kind = "restart"
        PROVE  /\ sup'.epoch < controls'[n].epoch /\ controls'[n].epoch <= client'.epoch
               /\ \A m \in 1 .. n - 1 : controls'[m].kind = "restart" => controls'[m].epoch < controls'[n].epoch
    <3>1. /\ controls'[n] = controls[n + 1] /\ n + 1 \in DOMAIN controls /\ n \in Nat
          /\ \A m \in 1 .. n - 1 : controls'[m] = controls[m + 1] /\ m + 1 \in 1 .. (n + 1) - 1
      BY <1>1, <2>2, <2>5
    <3>2. 1 \in 1 .. (n + 1) - 1
      BY <2>2, <2>5
    <3> QED BY <1>1, <2>1, <2>5, <3>1, <3>2 DEF RestartsRise
  <2> QED BY <2>4, <2>5 DEF RestartsRise
<1>6. CASE Finish
  BY <1>1, <1>6 DEF Finish, Quiet, SupStep, RestartsRise, Typed, Supervisors
<1>7. CASE Stop \/ Turn
  BY <1>2, <1>7 DEF Stop, Turn, TakeWake, Receive, Count, Delivered, NoMore, EndTurn, ClientStep,
                    Typed, ClientTyped, Clients
<1>8. CASE Emit
  BY <1>2, <1>8 DEF Emit, CountEvent, SendEvent, WakeClient, SupStep, Typed, Supervisors
<1>9. CASE Supervised /\ ~TakeInput /\ ~TakeRestart /\ ~Finish
  <2> USE DEF Quiet, SupStep, Typed, Supervisors
  <2>1. CASE Start \/ Started \/ NoControl \/ Inspect
    BY <1>2, <2>1 DEF Start, Started, NoControl, Inspect
  <2>2. CASE ForwardOutputs \/ ForwardWrites \/ TryWait \/ Exited
    BY <1>2, <2>2 DEF ForwardOutputs, ForwardWrites, Forward, TryWait, Exited
  <2>3. CASE Decide \/ Close \/ Unpublish
    BY <1>2, <2>3 DEF Decide, Close, Unpublish
  <2>4. CASE StopGroup
    BY <1>2, <2>4 DEF StopGroup
  <2> QED BY <1>9, <2>1, <2>2, <2>3, <2>4 DEF Supervised
<1>10. CASE Write \/ Read \/ Exit \/ UNCHANGED vars
  BY <1>2, <1>10 DEF Write, Read, Exit, ChildStep, vars
<1> QED BY <1>3, <1>4, <1>5, <1>6, <1>7, <1>8, <1>9, <1>10 DEF Next, Supervise, Supervised

---------------------------------------------------------------------------
(* The counter beside the event channel, and the wake                      *)

Announced == Counted /\ FirstWakes /\ EventsAreAnnounced

\* What this part looks at of the supervisor: an emission that is only begun
\* does not count.
LEMMA SupervisedAnnounces ==
    ASSUME Typed, Announced, Supervised
    PROVE  Announced'
<1>1. Silent /\ UNCHANGED <<client, events, queued, latch>>
  <2> USE DEF Quiet, SupStep, At
  <2>1. CASE Start \/ Started \/ TakeInput \/ TakeRestart \/ NoControl
    BY <2>1 DEF Start, Started, TakeInput, TakeRestart, NoControl
  <2>2. CASE Inspect \/ ForwardOutputs \/ ForwardWrites \/ TryWait \/ Exited
    BY <2>2 DEF Inspect, ForwardOutputs, ForwardWrites, Forward, TryWait, Exited
  <2>3. CASE Decide \/ Close \/ Unpublish \/ StopGroup \/ Finish
    BY <2>3 DEF Decide, Close, Unpublish, StopGroup, Finish
  <2> QED BY <2>1, <2>2, <2>3 DEF Supervised
<1>2. sup.emission = NoEmission /\ NoEmission.phase = "none"
  BY <1>1 DEF Silent, NoEmission
<1>3. \A kind, e, terminal : Emission(kind, e, terminal).phase = "count"
  BY DEF Emission
<1>4. sup'.emission.phase \in {"none", "count"}
  <2> USE DEF Typed, Supervisors
  <2>1. CASE Start
    <3>1. sup'.emission = Emission("started", sup.epoch, FALSE)
            \/ sup'.emission = Emission("ended", sup.epoch, TRUE)
      <4>1. CASE sup' = [sup EXCEPT !.at = "started", !.emission = Emission("started", sup.epoch, FALSE)]
        BY <4>1, Zenon
      <4>2. CASE sup' = [sup EXCEPT !.at = "inspect", !.emission = Emission("ended", sup.epoch, TRUE)]
        BY <4>2, Zenon
      <4> QED BY <2>1, <4>1, <4>2, Zenon DEF Start
    <3> QED BY <3>1 DEF Emission
  <2>2. CASE Started \/ NoControl \/ Inspect
    <3>1. sup'.emission = NoEmission
      BY <1>2, <2>2, Zenon DEF Started, NoControl, Inspect
    <3> QED BY <1>2, <3>1
  <2>3. CASE TakeInput
    <3>1. sup'.emission = NoEmission \/ sup'.emission = Emission("input", Head(controls).epoch, FALSE)
      <4>1. CASE sup' = [sup EXCEPT !.at = "inspect"]
        BY <1>2, <4>1, Zenon
      <4>2. CASE sup' = [sup EXCEPT !.at = "inspect", !.emission = Emission("input", Head(controls).epoch,
                   FALSE)]
        BY <4>2, Zenon
      <4> QED BY <2>3, <4>1, <4>2, Zenon DEF TakeInput
    <3> QED BY <3>1 DEF Emission, NoEmission
  <2>4. CASE TakeRestart \/ TryWait
    <3>1. sup'.emission = NoEmission
      BY <1>2, <2>4, Zenon DEF TakeRestart, TryWait
    <3> QED BY <1>2, <3>1
  <2>5. CASE Exited
    <3>1. sup'.emission = Emission("ended", child.epoch, TRUE)
      BY <2>5, Zenon DEF Exited
    <3> QED BY <3>1 DEF Emission
  <2>6. CASE ForwardOutputs
    <3>1. sup'.emission = NoEmission \/ sup'.emission = Emission("output", child.epoch, FALSE)
      <4>1. CASE sup' = [sup EXCEPT !.emission = Emission("output", child.epoch, FALSE)]
        BY <4>1, Zenon
      <4>2. CASE sup' = [sup EXCEPT !.at = "writes", !.accepted = TRUE,
                                    !.reason = IF sup.accepted THEN @ ELSE "event overflow"]
        BY <1>2, <4>2, Zenon
      <4> QED BY <2>6, <4>1, <4>2, Zenon DEF ForwardOutputs, Forward
    <3> QED BY <3>1 DEF Emission, NoEmission
  <2>7. CASE ForwardWrites
    <3>1. sup'.emission = NoEmission \/ sup'.emission = Emission("input", child.epoch, FALSE)
      <4>1. CASE sup' = [sup EXCEPT !.emission = Emission("input", child.epoch, FALSE)]
        BY <4>1, Zenon
      <4>2. CASE sup' = [sup EXCEPT !.at = "wait", !.accepted = TRUE,
                                    !.reason = IF sup.accepted THEN @ ELSE "event overflow"]
        BY <1>2, <4>2, Zenon
      <4> QED BY <2>7, <4>1, <4>2, Zenon DEF ForwardWrites, Forward
    <3> QED BY <3>1 DEF Emission, NoEmission
  <2>8. CASE Decide \/ Close \/ Unpublish \/ Finish
    <3>1. sup'.emission = NoEmission
      BY <1>2, <2>8, Zenon DEF Decide, Close, Unpublish, Finish
    <3> QED BY <1>2, <3>1
  <2>9. CASE StopGroup
    <3>1. \/ sup'.emission = NoEmission \/ sup'.emission = Emission("restarted", child.epoch, TRUE)
          \/ sup'.emission = Emission("ended", child.epoch, TRUE)
      <4>1. CASE sup.reason = "unannounced"
        BY <1>2, <2>9, <4>1, Zenon DEF StopGroup
      <4>2. CASE sup.reason = "shutdown"
        <5>1. sup' = [sup EXCEPT !.at = "finish"]
          BY <2>9, <4>2 DEF StopGroup
        <5> QED BY <1>2, <5>1, Zenon
      <4>3. CASE sup.reason = "restart"
        <5>1. sup' = [sup EXCEPT !.at = "start", !.reason = "none",
                                 !.emission = Emission("restarted", child.epoch, TRUE)]
          BY <2>9, <4>3 DEF StopGroup
        <5> QED BY <5>1, Zenon
      <4>4. CASE sup.reason \notin {"unannounced", "shutdown", "restart"}
        <5>1. sup' = [sup EXCEPT !.at = "finish", !.emission = Emission("ended", child.epoch, TRUE)]
          BY <2>9, <4>4 DEF StopGroup
        <5> QED BY <5>1, Zenon
      <4> QED BY <4>1, <4>2, <4>3, <4>4
    <3> QED BY <3>1 DEF Emission, NoEmission
  <2> QED BY <2>1, <2>2, <2>3, <2>4, <2>5, <2>6, <2>7, <2>8, <2>9 DEF Supervised
<1> QED BY <1>1, <1>2, <1>4 DEF Announced, Counted, FirstWakes, EventsAreAnnounced, InFlight

LEMMA EmitAnnounces ==
    ASSUME Typed, Announced, Emit
    PROVE  Announced'
<1>1. /\ UNCHANGED client /\ queued \in Int /\ events \in Seq(Events)
      /\ sup.emission \in Emissions
  BY DEF Typed, ChannelsTyped, Supervisors, Emit, CountEvent, SendEvent, WakeClient, SupStep, NoEmission
<1>2. Len(events) \in Nat /\ client.hand \in Seq(Events) /\ Len(client.hand) \in Nat
  BY <1>1 DEF Typed, ClientTyped, Clients
<1>3. (events = <<>> <=> Len(events) = 0) /\ (client.hand = <<>> <=> Len(client.hand) = 0)
  BY <1>1, <1>2
<1>4. CASE CountEvent
  <2>1. UNCHANGED <<events, latch>> /\ sup.emission.phase = "count"
    BY <1>4 DEF CountEvent
  <2>2. \/ queued' = queued /\ sup'.emission.phase = "none"
        \/ queued' = queued + 1 /\ sup'.emission.phase = "send" /\ sup'.emission.n = queued + 1
    <3>1. CASE ~sup.emission.terminal /\ queued >= EventCapacity - TerminalReserve
      <4>1. queued' = queued /\ sup'.emission = NoEmission
        BY <1>4, <3>1, Zenon DEF CountEvent, Typed, Supervisors
      <4> QED BY <4>1 DEF NoEmission
    <3>2. CASE ~(~sup.emission.terminal /\ queued >= EventCapacity - TerminalReserve)
      <4>1. sup' = [sup EXCEPT !.emission = [sup.emission EXCEPT !.phase = "send", !.n = queued + 1]]
        BY <1>4, <3>2, Zenon DEF CountEvent, Typed, Supervisors
      <4>2. sup'.emission = [sup.emission EXCEPT !.phase = "send", !.n = queued + 1]
        BY <4>1 DEF Typed, Supervisors
      <4>3. queued' = queued + 1
        BY <1>4, <3>2, Zenon DEF CountEvent
      <4> QED BY <1>1, <4>2, <4>3 DEF Emissions
    <3> QED BY <3>1, <3>2
  <2>3. Counted'
    <3>1. InFlight = 0 /\ queued = Len(events) + Len(client.hand)
      BY <1>1, <1>2, <2>1 DEF Announced, Counted, InFlight
    <3>2. queued' = Len(events) + Len(client.hand) + InFlight'
      <4>1. CASE queued' = queued /\ sup'.emission.phase = "none"
        <5>1. InFlight' = 0
          BY <4>1 DEF InFlight
        <5> QED BY <1>1, <1>2, <3>1, <4>1, <5>1
      <4>2. CASE queued' = queued + 1 /\ sup'.emission.phase = "send"
        <5>1. InFlight' = 1
          BY <4>2 DEF InFlight
        <5> QED BY <1>1, <1>2, <3>1, <4>2, <5>1
      <4> QED BY <2>2, <4>1, <4>2
    <3> QED BY <1>1, <2>1, <3>2 DEF Announced, Counted
  <2>4. client.open /\ client.turn = "idle" /\ ~latch => queued = 0
    BY <1>1, <1>2, <1>3, <2>1 DEF Announced, Counted, InFlight, EventsAreAnnounced
  <2>5. FirstWakes'
    BY <1>1, <2>1, <2>2, <2>4 DEF FirstWakes
  <2>6. EventsAreAnnounced'
    BY <1>1, <2>1, <2>2 DEF Announced, EventsAreAnnounced
  <2> QED BY <2>3, <2>5, <2>6 DEF Announced
<1>5. CASE SendEvent
  <2>1. UNCHANGED latch /\ sup.emission.phase = "send"
    BY <1>5 DEF SendEvent
  <2>2. CASE client.open /\ Len(events) < EventCapacity
    <3>1. /\ queued' = queued /\ events' = Append(events, sup.emission.event)
      BY <1>5, <2>2, Zenon DEF SendEvent
    <3>2. sup'.emission = [sup.emission EXCEPT !.phase = "wake"]
      BY <1>5, <2>2, Zenon DEF SendEvent, Typed, Supervisors
    <3>3. sup'.emission.phase = "wake" /\ sup'.emission.n = sup.emission.n
      BY <1>1, <3>2 DEF Emissions
    <3>4. Len(events') = Len(events) + 1
      BY <1>1, <3>1 DEF Emissions
    <3>5. Counted'
      <4>1. InFlight = 1 /\ InFlight' = 0
        BY <2>1, <3>3 DEF InFlight
      <4>2. queued = Len(events) + Len(client.hand) + 1
        BY <4>1, Zenon DEF Announced, Counted
      <4>3. queued' = Len(events') + Len(client'.hand) + InFlight'
        <5>1. client' = client /\ queued' = queued
          BY <1>1, <3>1
        <5>2. Len(events) \in Nat /\ Len(client.hand) \in Nat
          BY <1>2
        <5>3. Len(events) + Len(client.hand) + 1 = (Len(events) + 1) + Len(client.hand) + 0
          <6>1. \A a, b \in Nat : a + b + 1 = (a + 1) + b + 0
            OBVIOUS
          <6> QED BY <5>2, <6>1, Zenon
        <5> QED BY <3>4, <4>1, <4>2, <5>1, <5>3, Zenon
      <4> QED BY <1>1, <2>2, <4>3 DEF Announced, Counted
    <3> QED BY <1>1, <2>1, <3>3, <3>5 DEF Announced, FirstWakes, EventsAreAnnounced
  <2>3. CASE ~(client.open /\ Len(events) < EventCapacity)
    <3>1. queued' = queued - 1 /\ events' = events /\ sup'.emission = NoEmission
      BY <1>5, <2>3, Zenon DEF SendEvent, Typed, Supervisors
    <3>2. sup'.emission.phase = "none"
      BY <3>1 DEF NoEmission
    <3> QED BY <1>1, <1>2, <2>1, <3>1, <3>2 DEF Announced, Counted, FirstWakes, EventsAreAnnounced, InFlight
  <2> QED BY <2>2, <2>3
<1>6. CASE WakeClient
  <2>1. /\ UNCHANGED <<events, queued>> /\ sup.emission.phase = "wake" /\ sup'.emission = NoEmission
        /\ (latch \/ sup.emission.n = 1 => latch')
    BY <1>6, Zenon DEF WakeClient, Typed, Supervisors
  <2>2. sup'.emission.phase = "none"
    BY <2>1 DEF NoEmission
  <2> QED BY <1>1, <2>1, <2>2 DEF Announced, Counted, FirstWakes, EventsAreAnnounced, InFlight
<1> QED BY <1>4, <1>5, <1>6 DEF Emit

(* The main thread's steps.  A turn ends by latching what is still counted. *)
LEMMA ClientAnnounces ==
    ASSUME Typed, Announced, Send \/ Restart \/ Stop \/ Turn
    PROVE  Announced'
<1>1. /\ client \in Clients /\ queued \in Int /\ events \in Seq(Events) /\ Len(events) \in Nat
      /\ client.hand \in Seq(Events) /\ Len(client.hand) \in 0 .. 1 /\ client.left \in Int
      /\ (events = <<>> <=> Len(events) = 0) /\ (client.hand = <<>> <=> Len(client.hand) = 0)
  <2>1. client \in Clients /\ queued \in Int /\ events \in Seq(Events) /\ Len(client.hand) <= 1
    BY DEF Typed, ClientTyped, ChannelsTyped
  <2>2. client.hand \in Seq(Events) /\ client.left \in Int
    BY <2>1, Constants DEF Clients
  <2>3. Len(events) \in Nat /\ (events = <<>> <=> Len(events) = 0)
    BY <2>1
  <2>4. Len(client.hand) \in Nat /\ (client.hand = <<>> <=> Len(client.hand) = 0)
    BY <2>2
  <2>5. Len(client.hand) \in 0 .. 1
    <3>1. \A n \in Nat : n <= 1 => n \in 0 .. 1
      OBVIOUS
    <3> QED BY <2>1, <2>4, <3>1, Zenon
  <2> QED BY <2>1, <2>2, <2>3, <2>4, <2>5, Zenon
<1>2. UNCHANGED sup /\ InFlight' = InFlight /\ InFlight \in {0, 1}
  BY DEF Send, Restart, Stop, Turn, TakeWake, Receive, Count, NoMore, EndTurn, ClientStep, InFlight
<1>3. CASE Send
  BY <1>2, <1>3 DEF Send, Announced, Counted, FirstWakes, EventsAreAnnounced
<1>4. CASE Restart
  <2>1. UNCHANGED <<client.open, client.turn, client.hand, client.left, events, queued, latch>>
    BY <1>1, <1>4 DEF Restart, Clients
  <2> QED BY <1>2, <2>1 DEF Announced, Counted, FirstWakes, EventsAreAnnounced
<1>5. CASE Stop
  <2>1. /\ ~client'.open /\ client'.turn = "idle" /\ client'.hand = client.hand /\ client.turn # "count"
        /\ events' = <<>> /\ queued' = queued - Len(events)
    BY <1>1, <1>5 DEF Stop, Free, Clients
  <2>2. client.hand = <<>> /\ queued = Len(events) + Len(client.hand) + InFlight
    BY <2>1 DEF Announced, Counted
  <2>3. queued' = Len(events') + Len(client'.hand) + InFlight'
    BY <1>1, <1>2, <2>1, <2>2
  <2> QED BY <2>1, <2>2, <2>3 DEF Announced, Counted, FirstWakes, EventsAreAnnounced
<1>6. CASE TakeWake
  <2>1. UNCHANGED <<events, queued>> /\ client.turn = "idle"
    BY <1>6 DEF TakeWake
  <2>2. CASE client.open
    <3>1. client'.turn = "poll" /\ client'.hand = client.hand /\ client'.open
      BY <1>1, <1>6, <2>2 DEF TakeWake, Clients
    <3> QED BY <1>2, <2>1, <3>1 DEF Announced, Counted, FirstWakes, EventsAreAnnounced
  <2>3. CASE ~client.open
    <3>1. client' = client
      BY <1>6, <2>3 DEF TakeWake
    <3> QED BY <1>2, <2>1, <2>3, <3>1 DEF Announced, Counted, FirstWakes, EventsAreAnnounced
  <2> QED BY <2>2, <2>3
<1>7. CASE Receive
  <2>1. /\ client.turn = "poll" /\ client.left > 0 /\ events # <<>> /\ events' = Tail(events)
        /\ UNCHANGED queued
        /\ client' = [client EXCEPT !.turn = "count", !.hand = <<Head(events)>>]
    BY <1>7 DEF Receive
  <2>2. /\ client'.turn = "count" /\ client'.hand = <<Head(events)>> /\ client'.open = client.open
        /\ client'.left = client.left
    BY <1>1, <2>1 DEF Clients
  <2>3. Len(client'.hand) = 1 /\ client'.hand # <<>> /\ Len(events') = Len(events) - 1
    BY <1>1, <2>1, <2>2
  <2>4. client.hand = <<>> /\ queued = Len(events) + Len(client.hand) + InFlight /\ client.open
    BY <2>1 DEF Announced, Counted
  <2>5. queued' = Len(events') + Len(client'.hand) + InFlight'
    BY <1>1, <1>2, <2>1, <2>3, <2>4
  <2> QED BY <2>1, <2>2, <2>3, <2>4, <2>5 DEF Announced, Counted, FirstWakes, EventsAreAnnounced
<1>8. CASE Count
  <2>1. client.turn = "count" /\ queued' = queued - 1 /\ UNCHANGED events
    BY <1>8 DEF Count
  <2>2. \A c \in Clients : [c EXCEPT !.hand = <<>>].hand = <<>> /\ [c EXCEPT !.hand = <<>>].turn = c.turn
                            /\ [c EXCEPT !.hand = <<>>].open = c.open
    BY DEF Clients
  <2>3. [client EXCEPT !.turn = "poll"] \in Clients /\ Delivered(client.hand[1]) \in Clients
    <3>1. client.left - 1 \in 0 .. MaxPolls
      BY <1>1, <2>1, Constants DEF Announced, Counted, Clients
    <3> QED BY <1>1, <3>1 DEF Clients, Delivered
  <2>4. /\ [client EXCEPT !.turn = "poll"].turn = "poll" /\ [client EXCEPT !.turn = "poll"].open = client.open
        /\ Delivered(client.hand[1]).turn \in {"poll", "end"} /\ Delivered(client.hand[1]).open = client.open
    BY <1>1 DEF Clients, Delivered
  <2>5. client'.turn \in {"poll", "end"} /\ client'.hand = <<>> /\ client'.open = client.open
    <3>1. CASE Stale(client.hand[1])
      BY <1>8, <2>2, <2>3, <2>4, <3>1, Zenon DEF Count
    <3>2. CASE ~Stale(client.hand[1])
      BY <1>8, <2>2, <2>3, <2>4, <3>2, Zenon DEF Count
    <3> QED BY <3>1, <3>2
  <2>6. Len(client.hand) = 1 /\ queued = Len(events) + Len(client.hand) + InFlight /\ client.open
    BY <1>1, <2>1 DEF Announced, Counted
  <2>7. queued' = Len(events') + Len(client'.hand) + InFlight'
    BY <1>1, <1>2, <2>1, <2>5, <2>6
  <2> QED BY <2>5, <2>6, <2>7 DEF Announced, Counted, FirstWakes, EventsAreAnnounced
<1>9. CASE NoMore
  <2>1. client.turn = "poll" /\ UNCHANGED <<events, queued, latch>>
    BY <1>9 DEF NoMore
  <2>2. client'.turn = "end" /\ client'.hand = client.hand /\ client'.open = client.open
    BY <1>1, <1>9 DEF NoMore, Clients
  <2> QED BY <1>2, <2>1, <2>2 DEF Announced, Counted, FirstWakes, EventsAreAnnounced
<1>10. CASE EndTurn
  <2>1. client.turn = "end" /\ UNCHANGED <<events, queued>> /\ (queued # 0 => latch')
    BY <1>10 DEF EndTurn
  <2>2. client'.turn = "idle" /\ client'.hand = client.hand /\ client'.open = client.open
    BY <1>1, <1>10 DEF EndTurn, Clients
  <2>3. client.hand = <<>> /\ queued = Len(events) + InFlight /\ client.open
    BY <1>1, <1>2, <2>1 DEF Announced, Counted
  <2>4. Counted'
    BY <1>2, <2>1, <2>2, <2>3 DEF Announced, Counted
  <2>5. events # <<>> \/ sup.emission.phase = "send" => latch'
    BY <1>1, <2>1, <2>3 DEF InFlight
  <2> QED BY <1>2, <2>1, <2>4, <2>5 DEF Announced, FirstWakes, EventsAreAnnounced
<1> QED BY <1>3, <1>4, <1>5, <1>6, <1>7, <1>8, <1>9, <1>10 DEF Turn

---------------------------------------------------------------------------
(* The theorems                                                            *)

LEMMA NextIInv == ASSUME IInv, [Next]_vars PROVE IInv'
<1>1. Typed /\ Placed /\ OncePerEpoch /\ RestartsRise /\ Announced
  BY DEF IInv, Announced
<1>2. Typed'
  BY <1>1, TypedNext DEF Announced
<1>3. RestartsRise'
  BY <1>1, <1>2, RestartsRiseNext
<1>4. Placed' /\ OncePerEpoch'
  <2>1. CASE Supervised
    BY <1>1, <1>2, <2>1, SupervisedPlaced
  <2>2. CASE Send \/ Restart \/ Stop \/ Turn \/ Emit \/ Write \/ Read \/ Exit \/ UNCHANGED vars
    BY <1>1, <1>2, <2>2, CoreKept, CoreKeeps
  <2> QED BY <2>1, <2>2 DEF Next, Supervise, Supervised
<1>5. Announced'
  <2>1. CASE Supervised
    BY <1>1, <2>1, SupervisedAnnounces
  <2>2. CASE Emit
    BY <1>1, <2>2, EmitAnnounces
  <2>3. CASE Send \/ Restart \/ Stop \/ Turn
    BY <1>1, <2>3, ClientAnnounces
  <2>4. CASE Write \/ Read \/ Exit \/ UNCHANGED vars
    <3>1. UNCHANGED <<client, events, queued, latch, sup>>
      BY <2>4 DEF Write, Read, Exit, ChildStep, vars
    <3> QED BY <1>1, <3>1 DEF Announced, Counted, InFlight, FirstWakes, EventsAreAnnounced
  <2> QED BY <2>1, <2>2, <2>3, <2>4 DEF Next, Supervise, Supervised
<1> QED BY <1>1, <1>2, <1>3, <1>4, <1>5 DEF IInv, Announced

LEMMA IInvTypes == IInv => TypeOK
<1> SUFFICES ASSUME IInv PROVE TypeOK
  OBVIOUS
<1>1. client \in Clients /\ Len(client.hand) <= 1 /\ ChannelsTyped /\ latch \in BOOLEAN /\ ChildTyped
  BY DEF IInv, Typed, ClientTyped
<1>2. child.epoch \in 0 .. MaxEpoch
  <2>1. CASE child = NoChild
    BY <2>1, Constants DEF NoChild
  <2>2. CASE child \in Children
    BY <2>2, Constants DEF Children
  <2> QED BY <1>1, <2>1, <2>2 DEF ChildTyped
<1>3. queued \in 0 .. EventCapacity + 2
  <2>1. queued = Len(events) + Len(client.hand) + InFlight /\ InFlight \in {0, 1}
    BY DEF IInv, Counted, InFlight
  <2>2. client.hand \in Seq(Events) /\ events \in Seq(Events) /\ Len(events) <= EventCapacity
    BY <1>1 DEF Clients, ChannelsTyped
  <2>3. Len(client.hand) \in Nat /\ Len(events) \in Nat /\ EventCapacity \in Nat
    <3>1. Len(client.hand) \in Nat
      BY <2>2
    <3>2. Len(events) \in Nat
      BY <2>2
    <3> QED BY <3>1, <3>2, Constants
  <2>4. \A a, b \in Nat : \A i \in {0, 1} :
          a <= EventCapacity /\ b <= 1 => a + b + i \in 0 .. EventCapacity + 2
    BY <2>3
  <2> QED BY <1>1, <2>1, <2>2, <2>3, <2>4, Zenon
<1> QED BY <1>1, <1>2, <1>3 DEF TypeOK, Clients, ChannelsTyped, ChildTyped

\* Whatever the capacities and however often it restarts, the session stays in
\* the inductive invariant: typed, with a child where the supervisor's place
\* says so, each epoch's child reaped once, and a counter that is exact.
THEOREM Inductive == Spec => []IInv
<1>1. Init => IInv
  BY InitIInv
<1>2. IInv /\ [Next]_vars => IInv'
  BY NextIInv
<1> QED BY <1>1, <1>2, PTL DEF Spec

\* lsp_process.rs never shows the number of a child that has been reaped, and
\* never signals a group whose leader has been, whatever made it stop.
THEOREM ChildIsOursHolds == Spec => []ChildIsOurs
<1>1. IInv => ChildIsOurs
  <2> SUFFICES ASSUME IInv PROVE ChildIsOurs
    OBVIOUS
  <2>1. TypeOK
    BY IInvTypes
  <2>2. Typed /\ OncePerEpoch
    BY DEF IInv
  <2>3. pid # 0 => Running /\ pid = child.epoch
    BY <2>2, RunningIsAnEpoch DEF OncePerEpoch
  <2> QED BY <2>1, <2>2, <2>3 DEF OncePerEpoch, ChildIsOurs
<1> QED BY <1>1, Inductive, PTL

\* An event the supervisor has queued is announced, is being announced, or is
\* found by the main thread's turn, whatever the capacity of the channel.
THEOREM EventsAreAnnouncedHolds == Spec => []EventsAreAnnounced
<1>1. IInv => EventsAreAnnounced
  BY DEF IInv
<1> QED BY <1>1, Inductive, PTL

---------------------------------------------------------------------------
(***************************************************************************)
(* What the client is told                                                 *)
(*                                                                         *)
(* The events on their way to the client are a pipe: the one in its hand,  *)
(* the channel, and the one that the supervisor is about to send.          *)
(***************************************************************************)

Awaited == sup.emission.phase \in {"count", "send"}

Waiting == IF Awaited THEN 1 ELSE 0

InHand == Len(client.hand)
InChannel == Len(events)
Size == InHand + InChannel + Waiting

Pipe == [n \in 1 .. Size |->
            IF n <= InHand THEN client.hand[n]
            ELSE IF n <= InHand + InChannel THEN events[n - InHand]
            ELSE sup.emission.event]

Shown == {Pipe[n] : n \in 1 .. Size}

Event(kind, e) == [kind |-> kind, epoch |-> e]

Terminal == {"restarted", "ended"}
Life == {"started"} \cup Terminal

\* The oldest child whose end the client may still have to hear of.
Oldest == IF client.told \in {"started", "ended"} THEN client.epoch ELSE client.epoch - 1

\* A child's life is told in order: it starts before it ends, and ends before
\* the next one starts.  So no two children's ends have the same epoch.
Follows(v, w) ==
    \/ v.epoch < w.epoch
    \/ v.epoch = w.epoch /\ v.kind = "started" /\ w.kind \in Terminal
Ordered ==
    \A m, n \in 1 .. Size :
        m < n /\ Pipe[m].kind \in Life /\ Pipe[n].kind \in Life => Follows(Pipe[m], Pipe[n])

\* Nothing is told of a child before it runs, nor its end while it does, and
\* only the ends of two children can still be on their way.
Bounded ==
    \A v \in Shown : v.kind \in Life =>
        /\ v.epoch <= sup.epoch
        /\ sup.at = "start" => v.epoch < sup.epoch
        /\ Running => v.epoch <= child.epoch
        /\ v.kind \in Terminal => Oldest <= v.epoch /\ (Running => v.epoch < child.epoch)

Recent == Oldest <= sup.epoch /\ (Running => Oldest <= child.epoch)

\* Only the ends of children use the reserve.
Reserved ==
    \A n \in 1 .. Size :
        n <= queued /\ Pipe[n].kind \notin Terminal => n <= EventCapacity - TerminalReserve

\* What the supervisor announces is what it is doing.
EmissionFits ==
    /\ ~Silent => (sup.emission.terminal <=> sup.emission.event.kind \in Terminal)
    /\ Awaited /\ sup.emission.event.kind = "started" => sup.at = "started"
    /\ Awaited /\ sup.at = "started" => sup.emission.event = Event("started", sup.epoch)
    /\ sup.at = "started" => child.epoch = sup.epoch

\* A start that was accepted is on its way to a client that waits for it, and
\* one that was refused has been told to no one.
StartQueued ==
    sup.at = "started" /\ ~Awaited /\ sup.accepted /\ client.told = "starting" /\ sup.epoch = client.epoch =>
        Event("started", client.epoch) \in Shown

Refused == sup.reason = "unannounced" \/ (sup.at = "started" /\ ~Awaited /\ ~sup.accepted)

StartRefused ==
    /\ sup.reason = "unannounced" => sup.at \in {"unpublish", "kill"} /\ child.epoch \in silent
    /\ Refused => Event("started", child.epoch) \notin Shown
    /\ Refused \/ (sup.at = "started" /\ Awaited) => client.epoch # child.epoch \/ client.told # "started"

Alive == Running /\ child.epoch = client.epoch

\* The supervisor has yet to start the child the client waits for.
Due == ToBeStarted(client.epoch)

\* The client's picture, of what it has been told and of what it will be.
Pictured ==
    /\ client.told = "ended" => sup.epoch = client.epoch /\ ~Running /\ sup.at # "start"
    /\ client.told = "started" \/ Event("started", client.epoch) \in Shown =>
          Alive \/ Event("ended", client.epoch) \in Shown
    /\ client.told = "starting" =>
          \/ Due \/ client.epoch \in silent
          \/ Event("started", client.epoch) \in Shown \/ Event("ended", client.epoch) \in Shown

\* A client that still listens has not stopped its supervisor.
Telling ==
    /\ Ordered /\ Bounded /\ Recent /\ Reserved
    /\ EmissionFits /\ StartQueued /\ StartRefused /\ Pictured
    /\ sup.reason # "shutdown"
Told == client.open => Telling

---------------------------------------------------------------------------
(* The pipe                                                                *)

\* The part of the inductive invariant that this needs throughout.
Plainly == Typed /\ Counted /\ RestartsRise

LEMMA WaitingOne ==
    /\ Waiting \in {0, 1} /\ (Awaited <=> Waiting = 1) /\ (~Awaited <=> Waiting = 0)
    /\ Waiting' \in {0, 1} /\ (Awaited' <=> Waiting' = 1) /\ (~Awaited' <=> Waiting' = 0)
BY DEF Waiting

LEMMA Plain ==
    ASSUME Plainly
    PROVE  /\ client \in Clients /\ sup \in Supervisors
           /\ client.epoch \in Int /\ sup.epoch \in Int /\ child.epoch \in Int /\ queued \in Int
           /\ sup.epoch <= client.epoch
           /\ events \in Seq(Events) /\ client.hand \in Seq(Events)
           /\ InChannel \in Nat /\ InHand \in {0, 1}
           /\ InChannel <= EventCapacity
           /\ Awaited => sup.emission \in Emissions /\ sup.emission.event \in Events
           /\ queued = InChannel + InHand + InFlight
<1>1. client \in Clients /\ Len(client.hand) <= 1 /\ sup \in Supervisors
  BY DEF Plainly, Typed, ClientTyped
<1>2. client.epoch \in Int /\ sup.epoch \in Int /\ client.hand \in Seq(Events)
  BY <1>1 DEF Clients, Supervisors
<1>3. InHand \in {0, 1}
  <2>1. Len(client.hand) \in Nat
    BY <1>2
  <2>2. \A n \in Nat : n <= 1 => n \in {0, 1}
    OBVIOUS
  <2> QED BY <1>1, <2>1, <2>2, Zenon DEF InHand
<1>4. events \in Seq(Events) /\ InChannel <= EventCapacity /\ InChannel \in Nat /\ queued \in Int
  BY DEF Plainly, Typed, ChannelsTyped, InChannel
<1>5. child.epoch \in Int
  <2>1. child \in Children \cup {NoChild}
    BY DEF Plainly, Typed, ChildTyped
  <2> QED BY <2>1 DEF Children, NoChild
<1>6. Awaited => sup.emission \in Emissions /\ sup.emission.event \in Events
  BY <1>1 DEF Supervisors, Emissions, Awaited, NoEmission
<1> QED BY <1>1, <1>2, <1>3, <1>4, <1>5, <1>6, Zenon DEF Plainly, RestartsRise, Counted, InHand, InChannel

LEMMA PipeTyped ==
    ASSUME Plainly
    PROVE  /\ Size \in Nat /\ Size = InHand + InChannel + Waiting
           /\ \A n \in 1 .. Size : Pipe[n] \in Events
           /\ \A v \in Shown : v \in Events /\ v.epoch \in Int
<1>1. /\ events \in Seq(Events) /\ client.hand \in Seq(Events) /\ InChannel \in Nat /\ InHand \in {0, 1}
      /\ Awaited => sup.emission.event \in Events
  BY Plain
<1>2. Size \in Nat /\ Size = InHand + InChannel + Waiting
  BY <1>1, WaitingOne DEF Size
<1>3. ASSUME NEW n \in 1 .. Size PROVE Pipe[n] \in Events
  <2>1. CASE n <= InHand
    <3>1. Pipe[n] = client.hand[n]
      BY <2>1 DEF Pipe
    <3>2. n \in 1 .. Len(client.hand)
      BY <1>1, <1>2, <2>1 DEF InHand
    <3> QED BY <1>1, <3>1, <3>2
  <2>2. CASE ~(n <= InHand) /\ n <= InHand + InChannel
    <3>1. Pipe[n] = events[n - InHand]
      BY <2>2 DEF Pipe
    <3>2. n - InHand \in 1 .. InChannel
      BY <1>1, <1>2, <2>2
    <3> QED BY <1>1, <3>1, <3>2 DEF InChannel
  <2>3. CASE ~(n <= InHand) /\ ~(n <= InHand + InChannel)
    <3>1. Pipe[n] = sup.emission.event
      BY <2>3 DEF Pipe
    <3>2. Awaited
      BY <1>1, <1>2, <2>3, WaitingOne
    <3> QED BY <1>1, <3>1, <3>2
  <2> QED BY <2>1, <2>2, <2>3
<1>4. \A v \in Events : v.epoch \in Int
  BY DEF Events
<1> QED BY <1>2, <1>3, <1>4 DEF Shown

\* What a step does to the pipe: nothing, one event more at its end, its last
\* event lost, or its first one served.
SamePipe == Size' = Size /\ \A n \in 1 .. Size : Pipe'[n] = Pipe[n]
Joined(v) == Size' = Size + 1 /\ (\A n \in 1 .. Size : Pipe'[n] = Pipe[n]) /\ Pipe'[Size'] = v
Lost == Size' = Size - 1 /\ \A n \in 1 .. Size' : Pipe'[n] = Pipe[n]
Served == Size' = Size - 1 /\ \A n \in 1 .. Size' : Pipe'[n] = Pipe[n + 1]

LEMMA PipeMoves ==
    ASSUME Plainly, UNCHANGED <<client.hand, events>>
    PROVE  /\ (Awaited' <=> Awaited) /\ (Awaited => sup'.emission.event = sup.emission.event) => SamePipe
           /\ ~Awaited /\ Awaited' => Joined(sup'.emission.event)
           /\ Awaited /\ ~Awaited' => Lost /\ Size \in Nat \ {0} /\ Pipe[Size] = sup.emission.event
<1>1. /\ Size \in Nat /\ Size = InHand + InChannel + Waiting
      /\ InChannel \in Nat /\ InHand \in {0, 1}
      /\ Waiting \in {0, 1} /\ (Awaited <=> Waiting = 1) /\ (~Awaited <=> Waiting = 0)
      /\ Waiting' \in {0, 1} /\ (Awaited' <=> Waiting' = 1) /\ (~Awaited' <=> Waiting' = 0)
      /\ Size' = InHand + InChannel + Waiting'
      /\ InHand' = InHand /\ InChannel' = InChannel
  <2>1. InHand' = InHand /\ InChannel' = InChannel
    BY DEF InHand, InChannel
  <2>2. Size' = InHand + InChannel + Waiting'
    BY <2>1, Zenon DEF Size
  <2> QED BY <2>1, <2>2, Plain, PipeTyped, WaitingOne, Zenon
<1>2. ASSUME NEW n \in 1 .. Size, n \in 1 .. Size'
      PROVE \/ n <= InHand + InChannel /\ Pipe'[n] = Pipe[n]
            \/ ~(n <= InHand + InChannel) /\ Pipe[n] = sup.emission.event /\ Pipe'[n] = sup'.emission.event
  <2>1. Pipe[n] = IF n <= InHand THEN client.hand[n]
                  ELSE IF n <= InHand + InChannel THEN events[n - InHand] ELSE sup.emission.event
    BY <1>2, Zenon DEF Pipe
  <2>2. Pipe'[n] = IF n <= InHand' THEN client'.hand[n]
                   ELSE IF n <= InHand' + InChannel' THEN events'[n - InHand'] ELSE sup'.emission.event
    BY <1>2, Zenon DEF Pipe
  <2>3. n <= InHand => n <= InHand + InChannel
    BY <1>1
  <2>4. CASE n <= InHand
    BY <1>1, <2>1, <2>2, <2>3, <2>4, Zenon
  <2>5. CASE ~(n <= InHand) /\ n <= InHand + InChannel
    BY <1>1, <2>1, <2>2, <2>5, Zenon
  <2>6. CASE ~(n <= InHand) /\ ~(n <= InHand + InChannel)
    BY <1>1, <2>1, <2>2, <2>6, Zenon
  <2> QED BY <2>4, <2>5, <2>6
<1>3. ASSUME Awaited PROVE Size \in Nat \ {0} /\ Pipe[Size] = sup.emission.event
  <2>1. Size \in 1 .. Size /\ Size \in Nat \ {0} /\ ~(Size <= InHand) /\ ~(Size <= InHand + InChannel)
    BY <1>1, <1>3
  <2> QED BY <2>1, Zenon DEF Pipe
<1>4. ASSUME Awaited' PROVE Pipe'[Size'] = sup'.emission.event
  <2>1. Size' \in 1 .. Size' /\ ~(Size' <= InHand') /\ ~(Size' <= InHand' + InChannel')
    BY <1>1, <1>4
  <2> QED BY <2>1, Zenon DEF Pipe
<1>5. ASSUME Awaited' <=> Awaited, Awaited => sup'.emission.event = sup.emission.event PROVE SamePipe
  <2>1. Size' = Size
    BY <1>1, <1>5
  <2>2. ASSUME NEW n \in 1 .. Size PROVE Pipe'[n] = Pipe[n]
    <3>1. CASE Awaited
      BY <1>2, <1>5, <2>1, <3>1
    <3>2. CASE ~Awaited
      <4>1. n <= InHand + InChannel
        BY <1>1, <3>2
      <4> QED BY <1>2, <2>1, <4>1
    <3> QED BY <3>1, <3>2
  <2> QED BY <2>1, <2>2 DEF SamePipe
<1>6. ASSUME ~Awaited, Awaited' PROVE Joined(sup'.emission.event)
  <2>1. Size' = Size + 1 /\ Size = InHand + InChannel /\ InHand + InChannel \in Nat /\ Size' \in Nat
    BY <1>1, <1>6
  <2>2. ASSUME NEW n \in 1 .. Size PROVE Pipe'[n] = Pipe[n]
    <3>1. n \in 1 .. Size' /\ n <= InHand + InChannel
      <4>1. \A s \in Nat : \A k \in 1 .. s : k \in 1 .. s + 1 /\ k <= s
        OBVIOUS
      <4> QED BY <1>1, <2>1, <4>1, Zenon
    <3> QED BY <1>2, <3>1
  <2> QED BY <1>4, <1>6, <2>1, <2>2 DEF Joined
<1>7. ASSUME Awaited, ~Awaited' PROVE Lost
  <2>1. Size' = Size - 1 /\ Size' = InHand + InChannel /\ InHand + InChannel \in Nat
    <3>1. Waiting = 1 /\ Waiting' = 0
      BY <1>1, <1>7
    <3> QED BY <1>1, <3>1
  <2>2. ASSUME NEW n \in 1 .. Size' PROVE Pipe'[n] = Pipe[n]
    <3>1. n \in 1 .. Size /\ n <= InHand + InChannel
      <4>1. \A s \in Nat : \A k \in 1 .. s - 1 : k \in 1 .. s /\ k <= s - 1
        OBVIOUS
      <4> QED BY <1>1, <2>1, <4>1, Zenon
    <3> QED BY <1>2, <3>1
  <2> QED BY <2>1, <2>2 DEF Lost
<1> QED BY <1>3, <1>5, <1>6, <1>7

\* Taken into the hand or sent into the channel, an event keeps its place.
LEMMA PipeTaken ==
    ASSUME Plainly, client.hand = <<>>, events # <<>>, client'.hand = <<Head(events)>>,
           events' = Tail(events), UNCHANGED sup
    PROVE  SamePipe
<1>1. /\ Size \in Nat /\ Size = InHand + InChannel + Waiting /\ InHand = 0
      /\ InChannel \in Nat /\ events \in Seq(Events) /\ Waiting \in {0, 1}
  <2>1. InHand = 0
    BY DEF InHand
  <2> QED BY <2>1, Plain, PipeTyped, WaitingOne, Zenon
<1>2. /\ InHand' = 1 /\ client'.hand[1] = events[1] /\ InChannel' = InChannel - 1
      /\ \A n \in 1 .. InChannel - 1 : events'[n] = events[n + 1]
  BY <1>1 DEF InHand, InChannel
<1>3. Size' = Size
  <2>1. Waiting' = Waiting
    BY DEF Waiting, Awaited
  <2>2. Size' = InHand' + InChannel' + Waiting'
    BY Zenon DEF Size
  <2> QED BY <1>1, <1>2, <2>1, <2>2
<1>4. ASSUME NEW n \in 1 .. Size PROVE Pipe'[n] = Pipe[n]
  <2>1. Pipe[n] = IF n <= InHand THEN client.hand[n]
                  ELSE IF n <= InHand + InChannel THEN events[n - InHand] ELSE sup.emission.event
    BY Zenon DEF Pipe
  <2>2. Pipe'[n] = IF n <= InHand' THEN client'.hand[n]
                   ELSE IF n <= InHand' + InChannel' THEN events'[n - InHand'] ELSE sup'.emission.event
    BY <1>3, Zenon DEF Pipe
  <2>3. ~(n <= InHand) /\ n - InHand = n /\ InHand' + InChannel' = InChannel /\ InHand + InChannel = InChannel
    BY <1>1, <1>2
  <2>4. CASE n = 1
    <3>1. n <= InHand'
      BY <1>2, <2>4
    <3>2. 1 <= InChannel
      BY <1>1 DEF InChannel
    <3> QED BY <1>2, <2>1, <2>2, <2>3, <2>4, <3>1, <3>2, Zenon
  <2>5. CASE n # 1 /\ n <= InChannel
    <3>1. /\ ~(n <= InHand') /\ n - InHand' \in 1 .. InChannel - 1 /\ (n - InHand') + 1 = n
      BY <1>1, <1>2, <2>5
    <3>2. events'[n - InHand'] = events[n]
      BY <1>2, <3>1
    <3> QED BY <2>1, <2>2, <2>3, <2>5, <3>1, <3>2, Zenon
  <2>6. CASE n # 1 /\ ~(n <= InChannel)
    <3>1. ~(n <= InHand')
      BY <1>1, <1>2, <2>6
    <3> QED BY <2>1, <2>2, <2>3, <2>6, <3>1, Zenon
  <2> QED BY <2>4, <2>5, <2>6
<1> QED BY <1>3, <1>4 DEF SamePipe

LEMMA PipeSent ==
    ASSUME Plainly, Awaited, ~Awaited', UNCHANGED client, events' = Append(events, sup.emission.event)
    PROVE  SamePipe
<1>1. /\ Size \in Nat /\ Size = InHand + InChannel + 1
      /\ InHand \in {0, 1} /\ InChannel \in Nat /\ events \in Seq(Events)
      /\ sup.emission.event \in Events
  BY Plain, PipeTyped, WaitingOne
<1>2. /\ InHand' = InHand /\ InChannel' = InChannel + 1 /\ events'[InChannel + 1] = sup.emission.event
      /\ \A n \in 1 .. InChannel : events'[n] = events[n]
  BY <1>1 DEF InHand, InChannel
<1>3. Size' = Size
  <2>1. Size' = InHand' + InChannel' + Waiting' /\ Waiting' = 0
    BY WaitingOne, Zenon DEF Size
  <2> QED BY <1>1, <1>2, <2>1
<1>4. ASSUME NEW n \in 1 .. Size PROVE Pipe'[n] = Pipe[n]
  <2>1. Pipe[n] = IF n <= InHand THEN client.hand[n]
                  ELSE IF n <= InHand + InChannel THEN events[n - InHand] ELSE sup.emission.event
    BY Zenon DEF Pipe
  <2>2. Pipe'[n] = IF n <= InHand' THEN client'.hand[n]
                   ELSE IF n <= InHand' + InChannel' THEN events'[n - InHand'] ELSE sup'.emission.event
    BY <1>3, Zenon DEF Pipe
  <2>3. n <= InHand' + InChannel'
    BY <1>1, <1>2
  <2>4. CASE n <= InHand
    BY <1>2, <2>1, <2>2, <2>4, Zenon
  <2>5. CASE ~(n <= InHand) /\ n <= InHand + InChannel
    <3>1. n - InHand \in 1 .. InChannel
      BY <1>1, <2>5
    <3>2. events'[n - InHand] = events[n - InHand]
      BY <1>2, <3>1
    <3> QED BY <1>2, <2>1, <2>2, <2>3, <2>5, <3>2, Zenon
  <2>6. CASE ~(n <= InHand) /\ ~(n <= InHand + InChannel)
    <3>1. n - InHand = InChannel + 1
      BY <1>1, <2>6
    <3> QED BY <1>2, <2>1, <2>2, <2>3, <2>6, <3>1, Zenon
  <2> QED BY <2>4, <2>5, <2>6
<1> QED BY <1>3, <1>4 DEF SamePipe

LEMMA PipeServed ==
    ASSUME Plainly, client.hand # <<>>, client'.hand = <<>>, UNCHANGED <<events, sup>>
    PROVE  Served /\ Size \in Nat \ {0} /\ Pipe[1] = client.hand[1]
<1>1. /\ Size \in Nat /\ Size = InHand + InChannel + Waiting
      /\ InHand = 1 /\ InChannel \in Nat /\ Waiting \in {0, 1}
  <2>1. client.hand \in Seq(Events) /\ InHand \in {0, 1}
    BY Plain
  <2>2. InHand # 0
    BY <2>1 DEF InHand
  <2> QED BY <2>1, <2>2, Plain, PipeTyped, WaitingOne
<1>2. InHand' = 0 /\ InChannel' = InChannel /\ Waiting' = Waiting
  BY DEF InHand, InChannel, Waiting, Awaited
<1>3. Size' = Size - 1 /\ Size \in Nat \ {0} /\ 1 \in 1 .. Size
  <2>1. Size' = InHand' + InChannel' + Waiting'
    BY Zenon DEF Size
  <2> QED BY <1>1, <1>2, <2>1
<1>4. Pipe[1] = client.hand[1]
  BY <1>1, <1>3 DEF Pipe
<1>5. ASSUME NEW n \in 1 .. Size' PROVE Pipe'[n] = Pipe[n + 1]
  <2>1. /\ n + 1 \in 1 .. Size /\ ~(n + 1 <= InHand) /\ ~(n <= InHand') /\ (n + 1) - InHand = n
        /\ n - InHand' = n
        /\ (n + 1 <= InHand + InChannel <=> n <= InHand' + InChannel')
    BY <1>1, <1>2, <1>3
  <2>2. Pipe[n + 1] = IF n + 1 <= InHand THEN client.hand[n + 1]
                      ELSE IF n + 1 <= InHand + InChannel THEN events[(n + 1) - InHand]
                      ELSE sup.emission.event
    BY <2>1, Zenon DEF Pipe
  <2>3. Pipe'[n] = IF n <= InHand' THEN client'.hand[n]
                   ELSE IF n <= InHand' + InChannel' THEN events'[n - InHand'] ELSE sup'.emission.event
    BY Zenon DEF Pipe
  <2> QED BY <2>1, <2>2, <2>3
<1> QED BY <1>3, <1>4, <1>5 DEF Served

LEMMA SameKeeps ==
    ASSUME SamePipe
    PROVE  Shown' = Shown /\ (Ordered => Ordered') /\ (queued' = queued /\ Reserved => Reserved')
<1>1. Size' = Size /\ \A n \in 1 .. Size : Pipe'[n] = Pipe[n]
  BY DEF SamePipe
<1>2. Shown' = Shown
  BY <1>1 DEF Shown
<1>3. Ordered => Ordered'
  BY <1>1 DEF Ordered
<1>4. queued' = queued /\ Reserved => Reserved'
  BY <1>1 DEF Reserved
<1> QED BY <1>2, <1>3, <1>4

LEMMA JoinedKeeps ==
    ASSUME Size \in Nat, NEW v, Joined(v)
    PROVE  /\ Shown' = Shown \cup {v}
           /\ Ordered /\ (v.kind \in Life => \A w \in Shown : w.kind \in Life => Follows(w, v)) => Ordered'
           /\ queued \in Int /\ queued' = queued /\ queued <= Size /\ Reserved => Reserved'
<1>1. /\ Size' = Size + 1 /\ Pipe'[Size'] = v /\ \A n \in 1 .. Size : Pipe'[n] = Pipe[n]
      /\ Size' \in 1 .. Size'
  BY DEF Joined
<1>2. \A n \in 1 .. Size' : n = Size' \/ n \in 1 .. Size
  BY <1>1
<1>3. \A n \in 1 .. Size : n \in 1 .. Size'
  BY <1>1
<1>4. Shown' = Shown \cup {v}
  <2>1. ASSUME NEW w \in Shown' PROVE w \in Shown \cup {v}
    <3>1. PICK n \in 1 .. Size' : w = Pipe'[n]
      BY DEF Shown
    <3> QED BY <1>1, <1>2, <3>1 DEF Shown
  <2>2. ASSUME NEW w \in Shown \cup {v} PROVE w \in Shown'
    <3>1. CASE w = v
      BY <1>1, <3>1 DEF Shown
    <3>2. CASE w \in Shown
      <4>1. PICK n \in 1 .. Size : w = Pipe[n]
        BY <3>2 DEF Shown
      <4> QED BY <1>1, <1>3, <4>1 DEF Shown
    <3> QED BY <3>1, <3>2
  <2> QED BY <2>1, <2>2
<1>5. ASSUME Ordered, v.kind \in Life => \A w \in Shown : w.kind \in Life => Follows(w, v)
      PROVE  Ordered'
  <2>1. SUFFICES ASSUME NEW m \in 1 .. Size', NEW n \in 1 .. Size', m < n,
                        Pipe'[m].kind \in Life, Pipe'[n].kind \in Life
                 PROVE  Follows(Pipe'[m], Pipe'[n])
    BY Zenon DEF Ordered
  <2>2. m \in 1 .. Size
    BY <1>1, <2>1
  <2>3. Pipe'[m] = Pipe[m] /\ Pipe[m] \in Shown
    BY <1>1, <2>2 DEF Shown
  <2>4. CASE n = Size'
    BY <1>1, <1>5, <2>1, <2>3, <2>4, Zenon
  <2>5. CASE n \in 1 .. Size
    BY <1>1, <1>5, <2>1, <2>2, <2>5, Zenon DEF Ordered
  <2> QED BY <1>2, <2>4, <2>5
<1>6. ASSUME queued \in Int, queued' = queued, queued <= Size, Reserved PROVE Reserved'
  <2>1. SUFFICES ASSUME NEW n \in 1 .. Size', n <= queued, Pipe'[n].kind \notin Terminal
                 PROVE  n <= EventCapacity - TerminalReserve
    BY <1>6 DEF Reserved
  <2>2. n \in 1 .. Size
    BY <1>1, <1>6, <2>1
  <2> QED BY <1>1, <1>6, <2>1, <2>2, Zenon DEF Reserved
<1> QED BY <1>4, <1>5, <1>6

LEMMA LostKeeps ==
    ASSUME Size \in Nat \ {0}, Lost
    PROVE  /\ Shown = Shown' \cup {Pipe[Size]}
           /\ Ordered => Ordered'
           /\ Ordered /\ Pipe[Size].kind \in Life =>
                \A w \in Shown' : w.kind \in Life => Follows(w, Pipe[Size])
           /\ queued' = queued /\ Reserved => Reserved'
<1>1. /\ Size' = Size - 1 /\ \A n \in 1 .. Size' : Pipe'[n] = Pipe[n] /\ n \in 1 .. Size /\ n < Size
      /\ Size \in 1 .. Size
  BY DEF Lost
<1>2. \A n \in 1 .. Size : n = Size \/ n \in 1 .. Size'
  BY <1>1
<1>3. Shown = Shown' \cup {Pipe[Size]}
  <2>1. ASSUME NEW w \in Shown PROVE w \in Shown' \cup {Pipe[Size]}
    <3>1. PICK n \in 1 .. Size : w = Pipe[n]
      BY DEF Shown
    <3> QED BY <1>1, <1>2, <3>1 DEF Shown
  <2>2. ASSUME NEW w \in Shown' \cup {Pipe[Size]} PROVE w \in Shown
    <3>1. CASE w = Pipe[Size]
      BY <1>1, <3>1 DEF Shown
    <3>2. CASE w \in Shown'
      <4>1. PICK n \in 1 .. Size' : w = Pipe'[n]
        BY <3>2 DEF Shown
      <4> QED BY <1>1, <4>1 DEF Shown
    <3> QED BY <3>1, <3>2
  <2> QED BY <2>1, <2>2
<1>4. Ordered => Ordered'
  BY <1>1, Zenon DEF Ordered
<1>5. ASSUME Ordered, Pipe[Size].kind \in Life, NEW w \in Shown', w.kind \in Life
      PROVE  Follows(w, Pipe[Size])
  <2>1. PICK n \in 1 .. Size' : w = Pipe'[n]
    BY DEF Shown
  <2> QED BY <1>1, <1>5, <2>1, Zenon DEF Ordered
<1>6. queued' = queued /\ Reserved => Reserved'
  BY <1>1, Zenon DEF Reserved
<1> QED BY <1>3, <1>4, <1>5, <1>6

LEMMA ServedKeeps ==
    ASSUME Size \in Nat \ {0}, Served
    PROVE  /\ Shown = Shown' \cup {Pipe[1]}
           /\ Ordered => Ordered'
           /\ Ordered /\ Pipe[1].kind \in Life =>
                \A w \in Shown' : w.kind \in Life => Follows(Pipe[1], w)
           /\ queued \in Int /\ queued' = queued - 1 /\ Reserved => Reserved'
<1>1. /\ Size' = Size - 1 /\ 1 \in 1 .. Size
      /\ \A n \in 1 .. Size' : Pipe'[n] = Pipe[n + 1] /\ n + 1 \in 1 .. Size /\ 1 < n + 1
  BY DEF Served
<1>2. \A n \in 1 .. Size : n = 1 \/ (n - 1 \in 1 .. Size' /\ (n - 1) + 1 = n)
  BY <1>1
<1>3. Shown = Shown' \cup {Pipe[1]}
  <2>1. ASSUME NEW w \in Shown PROVE w \in Shown' \cup {Pipe[1]}
    <3>1. PICK n \in 1 .. Size : w = Pipe[n]
      BY DEF Shown
    <3>2. CASE n = 1
      BY <3>1, <3>2
    <3>3. CASE n - 1 \in 1 .. Size' /\ (n - 1) + 1 = n
      <4>1. w = Pipe'[n - 1]
        BY <1>1, <3>1, <3>3
      <4> QED BY <3>3, <4>1 DEF Shown
    <3> QED BY <1>2, <3>2, <3>3
  <2>2. ASSUME NEW w \in Shown' \cup {Pipe[1]} PROVE w \in Shown
    <3>1. CASE w = Pipe[1]
      BY <1>1, <3>1 DEF Shown
    <3>2. CASE w \in Shown'
      <4>1. PICK n \in 1 .. Size' : w = Pipe'[n]
        BY <3>2 DEF Shown
      <4> QED BY <1>1, <4>1 DEF Shown
    <3> QED BY <3>1, <3>2
  <2> QED BY <2>1, <2>2
<1>4. ASSUME Ordered PROVE Ordered'
  <2>1. SUFFICES ASSUME NEW m \in 1 .. Size', NEW n \in 1 .. Size', m < n,
                        Pipe'[m].kind \in Life, Pipe'[n].kind \in Life
                 PROVE  Follows(Pipe'[m], Pipe'[n])
    BY Zenon DEF Ordered
  <2>2. m + 1 < n + 1
    BY <2>1
  <2> QED BY <1>1, <1>4, <2>1, <2>2, Zenon DEF Ordered
<1>5. ASSUME Ordered, Pipe[1].kind \in Life, NEW w \in Shown', w.kind \in Life
      PROVE  Follows(Pipe[1], w)
  <2>1. PICK n \in 1 .. Size' : w = Pipe'[n]
    BY DEF Shown
  <2> QED BY <1>1, <1>5, <2>1, Zenon DEF Ordered
<1>6. ASSUME queued \in Int, queued' = queued - 1, Reserved PROVE Reserved'
  <2>1. SUFFICES ASSUME NEW n \in 1 .. Size', n <= queued', Pipe'[n].kind \notin Terminal
                 PROVE  n <= EventCapacity - TerminalReserve
    BY Zenon DEF Reserved
  <2>2. n + 1 <= queued
    BY <1>6, <2>1
  <2>3. n + 1 <= EventCapacity - TerminalReserve
    BY <1>1, <1>6, <2>1, <2>2, Zenon DEF Reserved
  <2>4. EventCapacity - TerminalReserve \in Int
    BY LanguageProcessAssumption
  <2> QED BY <2>3, <2>4
<1> QED BY <1>3, <1>4, <1>5, <1>6

---------------------------------------------------------------------------
(* The supervisor's steps                                                  *)

LEMMA EventFields ==
    /\ \A kind, e : Event(kind, e).kind = kind /\ Event(kind, e).epoch = e
    /\ \A v \in Events : v = Event(v.kind, v.epoch)
    /\ \A kind, e, terminal : /\ Emission(kind, e, terminal).event = Event(kind, e)
                              /\ Emission(kind, e, terminal).terminal = terminal
                              /\ Emission(kind, e, terminal).phase = "count"
                              /\ Emission(kind, e, terminal) # NoEmission
    /\ NoEmission.phase = "none"
<1>1. \A v \in Events : v = Event(v.kind, v.epoch)
  BY DEF Event, Events
<1>2. \A kind, e : Event(kind, e).kind = kind /\ Event(kind, e).epoch = e
  BY DEF Event
<1>3. \A kind, e, terminal : /\ Emission(kind, e, terminal).event = Event(kind, e)
                             /\ Emission(kind, e, terminal).terminal = terminal
                             /\ Emission(kind, e, terminal).phase = "count"
  BY DEF Emission, Event
<1>4. NoEmission.phase = "none"
  BY DEF NoEmission
<1> QED BY <1>1, <1>2, <1>3, <1>4

\* An emission is begun, or none.
Begins(kind, e, terminal) == sup'.emission = Emission(kind, e, terminal)
Chatters == \E kind \in {"input", "output"}, e \in Int : Begins(kind, e, FALSE)

LEMMA Beginning ==
    ASSUME Plainly, Silent, UNCHANGED <<client, events, queued>>
    PROVE  /\ ~Awaited /\ queued = Size
           /\ sup'.emission = NoEmission => SamePipe /\ Silent' /\ ~Awaited'
           /\ \A kind, e, terminal : Begins(kind, e, terminal) =>
                 /\ Joined(Event(kind, e)) /\ ~Silent' /\ Awaited'
                 /\ sup'.emission.event = Event(kind, e) /\ sup'.emission.terminal = terminal
<1>1. ~Awaited
  BY EventFields DEF Silent, Awaited
<1>2. queued = Size
  <2>1. InFlight = 0 /\ Waiting = 0
    BY EventFields, WaitingOne, <1>1 DEF InFlight, Silent
  <2> QED BY <2>1, Plain, PipeTyped
<1>3. sup'.emission = NoEmission => SamePipe /\ Silent' /\ ~Awaited'
  <2>1. sup'.emission = NoEmission => ~Awaited' /\ Silent'
    BY EventFields DEF Awaited, Silent
  <2> QED BY <1>1, <2>1, PipeMoves
<1>4. ASSUME NEW kind, NEW e, NEW terminal, Begins(kind, e, terminal)
      PROVE  /\ Joined(Event(kind, e)) /\ ~Silent' /\ Awaited'
             /\ sup'.emission.event = Event(kind, e) /\ sup'.emission.terminal = terminal
  <2>1. /\ sup'.emission.event = Event(kind, e) /\ sup'.emission.terminal = terminal
        /\ sup'.emission.phase = "count" /\ sup'.emission # NoEmission
    BY <1>4, EventFields DEF Begins
  <2>2. Awaited' /\ ~Silent'
    BY <2>1 DEF Awaited, Silent
  <2>3. Joined(sup'.emission.event)
    BY <1>1, <2>2, PipeMoves
  <2> QED BY <2>1, <2>2, <2>3
<1> QED BY <1>1, <1>2, <1>3, <1>4

\* What a step that starts no child and ends none leaves of the pipe.
LEMMA QuietPipe ==
    ASSUME Plainly, Ordered, Reserved, Silent, UNCHANGED <<client, events, queued>>,
           sup'.emission = NoEmission \/ Chatters
    PROVE  /\ Ordered' /\ Reserved'
           /\ \A w \in Shown' : w \in Shown \/ w.kind \in {"input", "output"}
           /\ \A w \in Shown : w \in Shown'
           /\ ~Silent' => /\ sup'.emission.event.kind \in {"input", "output"}
                          /\ ~sup'.emission.terminal
<1>1. CASE sup'.emission = NoEmission
  <2>1. SamePipe /\ Silent'
    BY <1>1, Beginning
  <2> QED BY <2>1, SameKeeps
<1>2. CASE Chatters
  <2>1. PICK kind \in {"input", "output"}, e \in Int : Begins(kind, e, FALSE)
    BY <1>2 DEF Chatters
  <2>2. /\ Joined(Event(kind, e)) /\ Event(kind, e).kind = kind /\ queued = Size
        /\ sup'.emission.event = Event(kind, e) /\ sup'.emission.terminal = FALSE
    BY <2>1, Beginning, EventFields
  <2>3. kind \notin Life
    BY DEF Life, Terminal
  <2>4. Size \in Nat /\ queued \in Int /\ queued <= Size
    BY <2>2, Plain, PipeTyped
  <2>5. /\ Shown' = Shown \cup {Event(kind, e)} /\ Ordered' /\ Reserved'
    BY <2>2, <2>3, <2>4, JoinedKeeps
  <2> QED BY <2>2, <2>5
<1> QED BY <1>1, <1>2

LEMMA QuietKeeps ==
    ASSUME Plainly, Telling, Silent, UNCHANGED <<client, events, queued>>,
           sup'.emission = NoEmission \/ Chatters,
           sup'.epoch = sup.epoch, child'.epoch = child.epoch, Running' <=> Running,
           sup.at # "start", sup'.at \notin {"start", "started"}, sup'.reason # "shutdown",
           sup'.reason = "unannounced" =>
               Refused /\ sup'.at \in {"unpublish", "kill"} /\ child.epoch \in silent',
           Due /\ client.told = "starting" =>
               Due' \/ Event("started", client.epoch) \in Shown \/ client.epoch \in silent',
           silent \subseteq silent'
    PROVE  Telling'
<1>1. /\ Ordered /\ Bounded /\ Recent /\ Reserved
      /\ EmissionFits /\ StartQueued /\ StartRefused /\ Pictured
  BY DEF Telling
<1>2. /\ Ordered' /\ Reserved'
      /\ \A w \in Shown' : w.kind \in Life => w \in Shown
      /\ \A e : Event("started", e) \in Shown' <=> Event("started", e) \in Shown
      /\ \A e : Event("ended", e) \in Shown' <=> Event("ended", e) \in Shown
  BY <1>1, QuietPipe, EventFields DEF Life, Terminal
<1>3. Oldest' = Oldest
  BY DEF Oldest
<1>4. Bounded'
  BY <1>1, <1>2, <1>3 DEF Bounded
<1>5. Recent'
  BY <1>1, <1>3 DEF Recent
<1>6. EmissionFits'
  <2>1. ~Silent' => /\ sup'.emission.event.kind \in {"input", "output"}
                    /\ ~sup'.emission.terminal
    BY <1>1, QuietPipe
  <2>2. Awaited' => ~Silent'
    BY EventFields DEF Awaited, Silent
  <2> QED BY <2>1, <2>2 DEF EmissionFits, Terminal
<1>7. StartQueued'
  BY DEF StartQueued
<1>8. Refused' => Refused /\ sup'.reason = "unannounced"
  BY DEF Refused
<1>9. StartRefused'
  BY <1>1, <1>2, <1>8 DEF StartRefused
<1>10. Pictured'
  BY <1>1, <1>2 DEF Pictured, Alive
<1> QED BY <1>2, <1>4, <1>5, <1>6, <1>7, <1>9, <1>10 DEF Telling

\* A restart that waits in its channel is still there after an input is taken.
LEMMA DueKept ==
    ASSUME Plainly, UNCHANGED client, sup'.epoch = sup.epoch, sup.at \notin {"start", "started"},
           sup.reason = "restart" => sup'.reason = "restart",
           \/ controls' = controls
           \/ controls # <<>> /\ Head(controls).kind = "input" /\ controls' = Tail(controls)
    PROVE  Due => Due'
<1> SUFFICES ASSUME Due PROVE Due'
  OBVIOUS
<1>1. \/ sup.reason = "restart" /\ sup.epoch = client.epoch
      \/ \E n \in DOMAIN controls : controls[n] = [kind |-> "restart", epoch |-> client.epoch]
  BY DEF Due, ToBeStarted
<1>2. CASE sup.reason = "restart" /\ sup.epoch = client.epoch
  BY <1>2 DEF Due, ToBeStarted
<1>3. CASE \E n \in DOMAIN controls : controls[n] = [kind |-> "restart", epoch |-> client.epoch]
  <2>1. PICK n \in DOMAIN controls : controls[n] = [kind |-> "restart", epoch |-> client.epoch]
    BY <1>3
  <2>2. CASE controls' = controls
    BY <2>1, <2>2 DEF Due, ToBeStarted
  <2>3. CASE controls # <<>> /\ Head(controls).kind = "input" /\ controls' = Tail(controls)
    <3>1. controls \in Seq(Controls)
      BY DEF Plainly, Typed, ChannelsTyped
    <3>2. n # 1
      BY <2>1, <2>3, <3>1
    <3>3. n - 1 \in DOMAIN controls' /\ controls'[n - 1] = controls[n]
      BY <2>1, <2>3, <3>1, <3>2
    <3> QED BY <2>1, <3>3 DEF Due, ToBeStarted
  <2> QED BY <2>2, <2>3
<1> QED BY <1>1, <1>2, <1>3

LEMMA QuietSteps ==
    ASSUME Plainly, Plainly', Placed, Telling,
           \/ Started \/ TakeInput \/ NoControl \/ Inspect \/ ForwardOutputs \/ ForwardWrites
           \/ TryWait \/ Decide \/ Unpublish \/ Finish
    PROVE  Telling'
<1>1. /\ sup \in Supervisors /\ sup.reason # "shutdown"
      /\ (sup.reason = "restart" => sup.at \in {"unpublish", "kill"})
      /\ (sup.reason = "unannounced" => sup.at \in {"unpublish", "kill"} /\ child.epoch \in silent)
      /\ (Running <=> child.epoch # 0) /\ (Running' <=> child'.epoch # 0)
      /\ (sup.at = "started" => child.epoch = sup.epoch)
      /\ StartQueued
  BY RunningIsAnEpoch DEF Plainly, Typed, Placed, Telling, StartRefused, EmissionFits
<1>2. Running => child \in Children
  BY DEF Plainly, Typed, ChildTyped, Running
<1>3. Silent /\ ~Awaited /\ UNCHANGED <<client, events, queued>>
  <2>1. Silent /\ UNCHANGED <<client, events, queued>>
    BY Zenon DEF Started, TakeInput, NoControl, Inspect, ForwardOutputs, ForwardWrites, Forward, TryWait,
                 Decide, Unpublish, Finish, At, Quiet, SupStep
  <2> QED BY <2>1, EventFields DEF Silent, Awaited
<1>4. sup.emission = NoEmission
  BY <1>3 DEF Silent
<1>5. CASE Started
  <2>1. /\ sup.at = "started" /\ sup'.emission = NoEmission /\ sup'.epoch = sup.epoch
        /\ UNCHANGED child
        /\ \/ sup.accepted /\ sup'.at = "inspect" /\ sup'.reason = sup.reason /\ silent' = silent
           \/ /\ ~sup.accepted /\ sup'.at = "unpublish" /\ sup'.reason = "unannounced"
              /\ silent' = silent \cup {sup.epoch}
    BY <1>1, <1>4, <1>5 DEF Started, At, Supervisors
  <2>2. Due /\ client.told = "starting" => Due' \/ Event("started", client.epoch) \in Shown
          \/ client.epoch \in silent'
    <3> SUFFICES ASSUME Due, client.told = "starting"
                   PROVE Due' \/ Event("started", client.epoch) \in Shown \/ client.epoch \in silent'
      OBVIOUS
    <3>1. sup.epoch = client.epoch
            \/ \E n \in DOMAIN controls : controls[n] = [kind |-> "restart", epoch |-> client.epoch]
      BY <1>1, <2>1 DEF Due, ToBeStarted
    <3>2. CASE \E n \in DOMAIN controls : controls[n] = [kind |-> "restart", epoch |-> client.epoch]
      <4>1. UNCHANGED <<controls, client>>
        BY <1>3, <1>5 DEF Started
      <4> QED BY <3>2, <4>1 DEF Due, ToBeStarted
    <3>3. CASE sup.epoch = client.epoch
      BY <3>3, <1>1, <1>3, <2>1 DEF StartQueued
    <3> QED BY <3>1, <3>2, <3>3
  <2>3. sup'.reason = "unannounced" => Refused /\ sup'.at \in {"unpublish", "kill"} /\ child.epoch \in silent'
    BY <1>1, <1>3, <2>1 DEF Refused
  <2> QED BY <1>1, <1>3, <2>1, <2>2, <2>3, QuietKeeps DEF Running
<1>6. CASE TakeInput
  <2>1. /\ sup.at = "loop" /\ sup'.at = "inspect" /\ sup'.reason = sup.reason /\ sup'.epoch = sup.epoch
        /\ silent' = silent /\ controls # <<>> /\ Head(controls).kind = "input" /\ controls' = Tail(controls)
    BY <1>1, <1>6 DEF TakeInput, At, Supervisors
  <2>2. child'.epoch = child.epoch
    <3>1. CASE Running
      BY <1>2, <1>6, <3>1 DEF TakeInput, Children
    <3>2. CASE ~Running
      BY <1>6, <3>2 DEF TakeInput
    <3> QED BY <3>1, <3>2
  <2>3. sup'.emission = NoEmission \/ Chatters
    <3>1. sup'.emission = NoEmission \/ Begins("input", Head(controls).epoch, FALSE)
      <4>1. CASE sup' = [sup EXCEPT !.at = "inspect"]
        BY <1>1, <1>4, <4>1 DEF Supervisors
      <4>2. CASE sup' = [sup EXCEPT !.at = "inspect", !.emission = Emission("input", Head(controls).epoch,
                   FALSE)]
        BY <1>1, <4>2 DEF Begins, Supervisors
      <4> QED BY <1>6, <4>1, <4>2, Zenon DEF TakeInput
    <3>2. Head(controls).epoch \in Int
      <4>1. controls \in Seq(Controls) /\ Head(controls) \in Controls
        BY <2>1 DEF Plainly, Typed, ChannelsTyped
      <4> QED BY <4>1 DEF Controls
    <3> QED BY <3>1, <3>2 DEF Chatters
  <2>4. Due => Due'
    BY <1>1, <1>3, <2>1, DueKept
  <2> QED BY <1>1, <1>3, <2>1, <2>2, <2>3, <2>4, QuietKeeps
<1>7. CASE NoControl \/ Decide
  <2>1. /\ sup.at \in {"loop", "decide"} /\ sup'.at \in {"inspect", "loop", "unpublish", "finish"}
        /\ sup'.reason = sup.reason /\ sup'.epoch = sup.epoch /\ sup'.emission = sup.emission
        /\ UNCHANGED <<controls, child, silent>>
    BY <1>1, <1>7 DEF NoControl, Decide, At, Supervisors
  <2>2. Due => Due'
    BY <1>1, <1>3, <2>1, DueKept
  <2> QED BY <1>1, <1>3, <1>4, <2>1, <2>2, QuietKeeps DEF Running
<1>8. CASE Inspect
  <2>1. /\ sup.at = "inspect" /\ sup'.at \in {"outputs", "loop"}
        /\ sup'.reason \in {"output overflow", "none", sup.reason}
        /\ sup'.epoch = sup.epoch /\ sup'.emission = sup.emission /\ UNCHANGED <<controls, silent>>
    BY <1>1, <1>8, Zenon DEF Inspect, At, Supervisors
  <2>2. child'.epoch = child.epoch
    BY <1>2, <1>8 DEF Inspect, Children
  <2>3. Due => Due'
    BY <1>1, <1>3, <2>1, DueKept
  <2> QED BY <1>1, <1>3, <1>4, <2>1, <2>2, <2>3, QuietKeeps
<1>9. CASE ForwardOutputs
  <2>1. /\ sup.at = "outputs" /\ sup'.at \in {"outputs", "writes"}
        /\ sup'.reason \in {"event overflow", sup.reason}
        /\ sup'.epoch = sup.epoch /\ UNCHANGED <<controls, silent>>
        /\ sup'.emission = NoEmission \/ Begins("output", child.epoch, FALSE)
    BY <1>1, <1>4, <1>9, Zenon DEF ForwardOutputs, Forward, At, Supervisors, Begins
  <2>2. child'.epoch = child.epoch /\ child.epoch \in Int
    <3>1. Running
      BY <2>1 DEF Placed
    <3> QED BY <1>2, <1>9, <3>1, Plain DEF ForwardOutputs, Forward, Children
  <2>3. Due => Due'
    BY <1>1, <1>3, <2>1, DueKept
  <2> QED BY <1>1, <1>3, <2>1, <2>2, <2>3, QuietKeeps DEF Chatters
<1>10. CASE ForwardWrites
  <2>1. /\ sup.at = "writes" /\ sup'.at \in {"writes", "wait"}
        /\ sup'.reason \in {"event overflow", sup.reason}
        /\ sup'.epoch = sup.epoch /\ UNCHANGED <<controls, silent>>
        /\ sup'.emission = NoEmission \/ Begins("input", child.epoch, FALSE)
    BY <1>1, <1>4, <1>10, Zenon DEF ForwardWrites, Forward, At, Supervisors, Begins
  <2>2. child'.epoch = child.epoch /\ child.epoch \in Int
    <3>1. Running
      BY <2>1 DEF Placed
    <3> QED BY <1>2, <1>10, <3>1, Plain DEF ForwardWrites, Forward, Children
  <2>3. Due => Due'
    BY <1>1, <1>3, <2>1, DueKept
  <2> QED BY <1>1, <1>3, <2>1, <2>2, <2>3, QuietKeeps DEF Chatters
<1>11. CASE TryWait
  <2>1. /\ sup.at = "wait" /\ sup'.at \in {"exited", "decide"}
        /\ sup'.reason = sup.reason /\ sup'.epoch = sup.epoch /\ sup'.emission = sup.emission
        /\ UNCHANGED <<controls, child, silent>>
    BY <1>1, <1>11 DEF TryWait, At, Supervisors
  <2>2. Due => Due'
    BY <1>1, <1>3, <2>1, DueKept
  <2> QED BY <1>1, <1>3, <1>4, <2>1, <2>2, QuietKeeps DEF Running
<1>12. CASE Unpublish
  <2>1. /\ sup.at = "unpublish" /\ sup'.at = "kill"
        /\ sup'.reason = sup.reason /\ sup'.epoch = sup.epoch /\ sup'.emission = sup.emission
        /\ UNCHANGED <<controls, silent>>
    BY <1>1, <1>12 DEF Unpublish, At, Supervisors
  <2>2. child'.epoch = child.epoch
    <3>1. Running
      BY <2>1 DEF Placed
    <3> QED BY <1>2, <1>12, <3>1 DEF Unpublish, Children
  <2>3. Due => Due'
    BY <1>1, <1>3, <2>1, DueKept
  <2>4. sup'.reason = "unannounced" => Refused
    BY <2>1 DEF Refused
  <2> QED BY <1>1, <1>3, <1>4, <2>1, <2>2, <2>3, <2>4, QuietKeeps
<1>13. CASE Finish
  <2>1. /\ sup.at = "finish" /\ sup'.at = "done" /\ sup'.reason = "none"
        /\ sup'.epoch = sup.epoch /\ sup'.emission = sup.emission /\ UNCHANGED child
        /\ silent' = silent \cup
             {controls[n].epoch : n \in {n \in DOMAIN controls : controls[n].kind = "restart"}}
    BY <1>1, <1>13 DEF Finish, At, Supervisors
  <2>2. Due => client.epoch \in silent'
    <3> SUFFICES ASSUME Due PROVE client.epoch \in silent'
      OBVIOUS
    <3>1. \E n \in DOMAIN controls : controls[n] = [kind |-> "restart", epoch |-> client.epoch]
      BY <1>1, <2>1 DEF Due, ToBeStarted
    <3>2. PICK n \in DOMAIN controls : controls[n] = [kind |-> "restart", epoch |-> client.epoch]
      BY <3>1
    <3>3. controls[n].kind = "restart" /\ controls[n].epoch = client.epoch
      BY <3>2
    <3> QED BY <2>1, <3>3
  <2> QED BY <1>1, <1>3, <1>4, <2>1, <2>2, QuietKeeps DEF Running
<1> QED BY <1>5, <1>6, <1>7, <1>8, <1>9, <1>10, <1>11, <1>12, <1>13

\* What the beginning of a child, or its end, adds to the pipe.
LEMMA LifeJoins ==
    ASSUME Plainly, Telling, Silent, UNCHANGED <<client, events, queued>>
    PROVE  \A kind, e, terminal :
              /\ sup'.emission = Emission(kind, e, terminal)
              /\ \A w \in Shown : w.kind \in Life => Follows(w, Event(kind, e))
              => /\ Shown' = Shown \cup {Event(kind, e)} /\ Ordered' /\ Reserved'
                 /\ ~Silent' /\ Awaited'
                 /\ sup'.emission.event = Event(kind, e)
                 /\ Event(kind, e).kind = kind /\ Event(kind, e).epoch = e
<1> SUFFICES ASSUME NEW kind, NEW e, NEW terminal, sup'.emission = Emission(kind, e, terminal),
                    \A w \in Shown : w.kind \in Life => Follows(w, Event(kind, e))
             PROVE  /\ Shown' = Shown \cup {Event(kind, e)} /\ Ordered' /\ Reserved'
                    /\ ~Silent' /\ Awaited'
                    /\ sup'.emission.event = Event(kind, e)
                    /\ Event(kind, e).kind = kind /\ Event(kind, e).epoch = e
  OBVIOUS
<1>1. /\ Joined(Event(kind, e)) /\ ~Silent' /\ Awaited' /\ queued = Size
      /\ sup'.emission.event = Event(kind, e)
  BY Beginning DEF Begins
<1>2. Size \in Nat /\ queued \in Int /\ queued <= Size
  BY <1>1, Plain, PipeTyped
<1> QED BY <1>1, <1>2, JoinedKeeps, EventFields DEF Telling

LEMMA StartTells ==
    ASSUME Plainly, Plainly', Placed, Telling, Start
    PROVE  Telling'
<1>1. /\ sup \in Supervisors /\ sup.reason # "shutdown" /\ sup.reason \notin {"restart", "unannounced"}
      /\ sup.at = "start" /\ ~Running /\ (Running' <=> child'.epoch # 0)
      /\ Silent /\ UNCHANGED <<client, events, queued, controls, silent>>
      /\ sup.epoch \in Int /\ client.epoch \in Int /\ sup.epoch # 0
  <2>1. sup.epoch \in 1 .. MaxEpoch
    BY DEF Plainly, Typed, Supervisors
  <2>2. sup.epoch # 0
    BY <2>1, Constants
  <2> QED BY <2>2, Plain, RunningIsAnEpoch
        DEF Plainly, Placed, Telling, StartRefused, Start, At, Quiet, SupStep
<1>2. /\ Bounded /\ Recent /\ Pictured
  BY DEF Telling
<1>3. \A w \in Shown : w.kind \in Life => w.epoch < sup.epoch
  BY <1>1, <1>2 DEF Bounded
<1>4. Oldest' = Oldest /\ \A w \in Shown : w.epoch \in Int
  BY <1>1, PipeTyped DEF Oldest
<1>5. CASE child' = Spawned(sup.epoch)
             /\ sup' = [sup EXCEPT !.at = "started", !.emission = Emission("started", sup.epoch, FALSE)]
  <2>1. /\ sup'.at = "started" /\ sup'.epoch = sup.epoch /\ sup'.reason = sup.reason
        /\ Begins("started", sup.epoch, FALSE)
        /\ child'.epoch = sup.epoch /\ Running'
    BY <1>1, <1>5 DEF Supervisors, Begins, Spawned
  <2>2. /\ Shown' = Shown \cup {Event("started", sup.epoch)} /\ Ordered' /\ Reserved'
        /\ ~Silent' /\ Awaited'
        /\ sup'.emission.event = Event("started", sup.epoch) /\ ~sup'.emission.terminal
        /\ Event("started", sup.epoch).kind = "started" /\ Event("started", sup.epoch).epoch = sup.epoch
    <3>1. \A w \in Shown : w.kind \in Life => Follows(w, Event("started", sup.epoch))
      BY <1>3, EventFields DEF Follows
    <3>2. UNCHANGED <<client, events, queued>>
      BY <1>1
    <3>3. ~sup'.emission.terminal
      BY <2>1 DEF Begins, Emission
    <3>4. sup'.emission = Emission("started", sup.epoch, FALSE) /\ Silent
      BY <1>1, <2>1 DEF Begins
    <3>5. /\ Shown' = Shown \cup {Event("started", sup.epoch)} /\ Ordered' /\ Reserved' /\ ~Silent'
          /\ Awaited' /\ sup'.emission.event = Event("started", sup.epoch)
      BY <3>1, <3>2, <3>4, LifeJoins
    <3> QED BY <3>3, <3>5, EventFields
  <2>3. Bounded'
    BY <1>1, <1>2, <1>3, <1>4, <2>1, <2>2 DEF Bounded, Life, Terminal
  <2>4. Recent'
    BY <1>2, <1>4, <2>1 DEF Recent
  <2>5. EmissionFits'
    BY <2>1, <2>2 DEF EmissionFits, Terminal
  <2>6. StartQueued'
    BY <2>2 DEF StartQueued
  <2>7. sup.epoch = client.epoch => client.told # "started" /\ Event("ended", client.epoch) \notin Shown
    <3>1. sup.epoch = client.epoch => Event("ended", client.epoch) \notin Shown
      BY <1>1, <1>3, EventFields DEF Life, Terminal
    <3> QED BY <1>1, <1>2, <3>1 DEF Pictured, Alive
  <2>8. StartRefused'
    BY <1>1, <2>1, <2>2, <2>7 DEF StartRefused, Refused
  <2>9. Pictured'
    <3>1. client.told # "ended"
      BY <1>1, <1>2 DEF Pictured
    <3>2. client.told = "started" \/ Event("started", client.epoch) \in Shown' =>
            Alive' \/ Event("ended", client.epoch) \in Shown'
      <4>1. CASE sup.epoch = client.epoch
        BY <1>1, <2>1, <4>1 DEF Alive
      <4>2. CASE sup.epoch # client.epoch
        <5>1. Event("started", client.epoch) # Event("started", sup.epoch)
          BY <4>2, EventFields
        <5> QED BY <1>1, <1>2, <2>2, <5>1 DEF Pictured, Alive
      <4> QED BY <4>1, <4>2
    <3>3. Due => Due'
      BY <1>1, <2>1 DEF Due, ToBeStarted
    <3> QED BY <1>1, <1>2, <2>2, <3>1, <3>2, <3>3 DEF Pictured
  <2> QED BY <1>1, <2>1, <2>2, <2>3, <2>4, <2>5, <2>6, <2>8, <2>9 DEF Telling
<1>6. CASE UNCHANGED child
             /\ sup' = [sup EXCEPT !.at = "inspect", !.emission = Emission("ended", sup.epoch, TRUE)]
  <2>1. /\ sup'.at = "inspect" /\ sup'.epoch = sup.epoch /\ sup'.reason = sup.reason
        /\ Begins("ended", sup.epoch, TRUE)
        /\ ~Running'
    BY <1>1, <1>6 DEF Supervisors, Begins, Running
  <2>2. /\ Shown' = Shown \cup {Event("ended", sup.epoch)} /\ Ordered' /\ Reserved'
        /\ ~Silent' /\ Awaited'
        /\ sup'.emission.event = Event("ended", sup.epoch) /\ sup'.emission.terminal
        /\ Event("ended", sup.epoch).kind = "ended" /\ Event("ended", sup.epoch).epoch = sup.epoch
    <3>1. \A w \in Shown : w.kind \in Life => Follows(w, Event("ended", sup.epoch))
      BY <1>3, EventFields DEF Follows
    <3>2. UNCHANGED <<client, events, queued>>
      BY <1>1
    <3>3. sup'.emission.terminal
      BY <2>1 DEF Begins, Emission
    <3>4. sup'.emission = Emission("ended", sup.epoch, TRUE) /\ Silent
      BY <1>1, <2>1 DEF Begins
    <3>5. /\ Shown' = Shown \cup {Event("ended", sup.epoch)} /\ Ordered' /\ Reserved' /\ ~Silent'
          /\ Awaited' /\ sup'.emission.event = Event("ended", sup.epoch)
      BY <3>1, <3>2, <3>4, LifeJoins
    <3> QED BY <3>3, <3>5, EventFields
  <2>3. Bounded'
    BY <1>1, <1>2, <1>3, <1>4, <2>1, <2>2 DEF Bounded, Recent, Life, Terminal
  <2>4. Recent'
    BY <1>2, <1>4, <2>1 DEF Recent
  <2>5. EmissionFits'
    BY <2>1, <2>2 DEF EmissionFits, Terminal
  <2>6. StartQueued' /\ StartRefused'
    BY <1>1, <2>1, <2>2 DEF StartQueued, StartRefused, Refused
  <2>7. Pictured'
    <3>1. client.told # "ended"
      BY <1>1, <1>2 DEF Pictured
    <3>2. Event("started", client.epoch) # Event("ended", sup.epoch)
      BY EventFields
    <3>3. Due => Due' \/ Event("ended", client.epoch) \in Shown'
      BY <1>1, <2>1, <2>2 DEF Due, ToBeStarted
    <3> QED BY <1>1, <1>2, <2>2, <3>1, <3>2, <3>3 DEF Pictured, Alive
  <2> QED BY <1>1, <2>1, <2>2, <2>3, <2>4, <2>5, <2>6, <2>7 DEF Telling
<1> QED BY <1>5, <1>6, Zenon DEF Start

LEMMA TakeRestartTells ==
    ASSUME Plainly, Plainly', Placed, Telling, TakeRestart
    PROVE  Telling'
<1>1. /\ sup \in Supervisors /\ sup.reason \notin {"shutdown", "restart", "unannounced"}
      /\ sup.at = "loop" /\ Silent /\ sup.emission = NoEmission
      /\ UNCHANGED <<client, events, queued, child, silent>>
      /\ sup.epoch \in Int /\ client.epoch \in Int /\ child.epoch \in Int
      /\ controls \in Seq(Controls) /\ controls # <<>> /\ controls' = Tail(controls)
  BY Plain
    DEF Plainly, Typed, ChannelsTyped, Placed, Telling, StartRefused, TakeRestart, At, Quiet, SupStep, Silent
<1>2. /\ sup'.epoch = Head(controls).epoch /\ sup'.emission = NoEmission
      /\ \/ Running /\ sup'.at = "unpublish" /\ sup'.reason = "restart"
         \/ ~Running /\ sup'.at = "start" /\ sup'.reason = sup.reason
  BY <1>1 DEF TakeRestart, Supervisors
<1>3. sup.epoch < sup'.epoch /\ sup'.epoch <= client.epoch /\ sup'.epoch \in Int
  <2>1. 1 \in DOMAIN controls /\ controls[1] = Head(controls) /\ controls[1] \in Controls
    BY <1>1
  <2>2. controls[1].epoch \in Int /\ controls[1].kind = "restart"
    BY <2>1 DEF Controls, TakeRestart
  <2> QED BY <1>2, <2>1, <2>2 DEF Plainly, RestartsRise
<1>4. Bounded /\ Recent /\ Pictured /\ Ordered /\ Reserved /\ SamePipe /\ Silent' /\ ~Awaited'
  BY <1>1, <1>2, Beginning DEF Telling
<1>5. Shown' = Shown /\ Ordered' /\ Reserved' /\ Oldest' = Oldest /\ (Running' <=> Running)
  BY <1>1, <1>4, SameKeeps DEF Oldest, Running
<1>6. Oldest \in Int /\ \A w \in Shown : w.epoch \in Int
  BY <1>1, PipeTyped DEF Oldest
<1>7. Bounded'
  BY <1>1, <1>3, <1>4, <1>5, <1>6 DEF Bounded
<1>8. Recent'
  BY <1>1, <1>3, <1>4, <1>5, <1>6 DEF Recent
<1>9. EmissionFits' /\ StartQueued' /\ StartRefused'
  BY <1>1, <1>2, <1>4 DEF EmissionFits, StartQueued, StartRefused, Refused
<1>10. Pictured'
  <2>1. client.told # "ended"
    BY <1>1, <1>3, <1>4 DEF Pictured
  <2>2. Due => Due'
    <3> SUFFICES ASSUME Due PROVE Due'
      OBVIOUS
    <3>1. PICK n \in DOMAIN controls : controls[n] = [kind |-> "restart", epoch |-> client.epoch]
      BY <1>1 DEF Due, ToBeStarted
    <3>2. CASE n = 1
      <4>1. sup'.epoch = client.epoch
        BY <1>1, <1>2, <3>1, <3>2
      <4> QED BY <1>1, <1>2, <4>1 DEF Due, ToBeStarted
    <3>3. CASE n # 1
      <4>1. n - 1 \in DOMAIN controls' /\ controls'[n - 1] = controls[n]
        BY <1>1, <3>1, <3>3
      <4> QED BY <1>1, <3>1, <4>1 DEF Due, ToBeStarted
    <3> QED BY <3>2, <3>3
  <2> QED BY <1>1, <1>4, <1>5, <2>1, <2>2 DEF Pictured, Alive
<1> QED BY <1>2, <1>1, <1>5, <1>7, <1>8, <1>9, <1>10 DEF Telling

\* The end of a running child is told: it has exited, or has been stopped.
LEMMA EndTells ==
    ASSUME Plainly, Plainly', Placed, OncePerEpoch, Telling, Running, Silent,
           UNCHANGED <<client, events, queued, controls, silent>>, child' = NoChild, sup'.epoch = sup.epoch,
           NEW kind \in Terminal, Begins(kind, child.epoch, TRUE),
           sup.at \notin {"start", "started"}, sup'.at # "started",
           sup.reason # "unannounced", sup'.reason \notin {"unannounced", "shutdown"},
           kind = "restarted" => sup.reason = "restart",
           sup.reason = "restart" => sup'.at = "start",
           sup'.at = "start" => sup.reason = "restart"
    PROVE  Telling'
<1>1. /\ sup.epoch \in Int /\ client.epoch \in Int /\ child.epoch \in Int /\ sup.epoch <= client.epoch
      /\ child.epoch <= sup.epoch /\ (sup.reason = "restart" => child.epoch < sup.epoch)
      /\ ~Running'
  BY Plain DEF OncePerEpoch, Running
<1>2. Bounded /\ Recent /\ Pictured
  BY DEF Telling
<1>3. Oldest' = Oldest /\ Oldest \in Int /\ \A w \in Shown : w.epoch \in Int
  BY <1>1, PipeTyped DEF Oldest
<1>4. \A w \in Shown : w.kind \in Life => Follows(w, Event(kind, child.epoch))
  <2>1. Event(kind, child.epoch).kind = kind /\ Event(kind, child.epoch).epoch = child.epoch
    BY EventFields
  <2> QED BY <1>1, <1>2, <1>3, <2>1 DEF Bounded, Follows, Life
<1>5. /\ Shown' = Shown \cup {Event(kind, child.epoch)} /\ Ordered' /\ Reserved'
      /\ ~Silent' /\ Awaited'
      /\ sup'.emission.event = Event(kind, child.epoch) /\ sup'.emission.terminal
      /\ Event(kind, child.epoch).kind = kind /\ Event(kind, child.epoch).epoch = child.epoch
  <2>1. UNCHANGED <<client, events, queued>>
    OBVIOUS
  <2>2. sup'.emission.terminal
    BY DEF Begins, Emission
  <2>3. sup'.emission = Emission(kind, child.epoch, TRUE)
    BY DEF Begins
  <2>4. /\ Shown' = Shown \cup {Event(kind, child.epoch)} /\ Ordered' /\ Reserved' /\ ~Silent'
        /\ Awaited' /\ sup'.emission.event = Event(kind, child.epoch)
    <3>1. \A k, e, terminal :
              /\ sup'.emission = Emission(k, e, terminal)
              /\ \A w \in Shown : w.kind \in Life => Follows(w, Event(k, e))
              => /\ Shown' = Shown \cup {Event(k, e)} /\ Ordered' /\ Reserved'
                 /\ ~Silent' /\ Awaited'
                 /\ sup'.emission.event = Event(k, e)
      BY <2>1, LifeJoins
    <3> QED BY <1>4, <2>3, <3>1, Zenon
  <2> QED BY <2>2, <2>4, EventFields
<1>6. Bounded'
  BY <1>1, <1>2, <1>3, <1>5 DEF Bounded, Recent
<1>7. Recent'
  BY <1>1, <1>2, <1>3 DEF Recent
<1>8. EmissionFits'
  BY <1>5 DEF EmissionFits, Terminal
<1>9. StartQueued' /\ StartRefused'
  BY DEF StartQueued, StartRefused, Refused
<1>10. Pictured'
  <2>1. client.told # "ended"
    BY <1>2 DEF Pictured
  <2>2. Event("started", client.epoch) # Event(kind, child.epoch)
    BY EventFields DEF Terminal
  <2>3. Alive => Event("ended", client.epoch) \in Shown'
    <3>1. Alive => kind = "ended" /\ child.epoch = client.epoch
      BY <1>1 DEF Alive, Terminal
    <3> QED BY <1>5, <3>1
  <2>4. Due => Due'
    BY <1>1 DEF Due, ToBeStarted
  <2> QED BY <1>2, <1>5, <2>1, <2>2, <2>3, <2>4 DEF Pictured
<1> QED BY <1>5, <1>6, <1>7, <1>8, <1>9, <1>10 DEF Telling

LEMMA ExitedTells ==
    ASSUME Plainly, Plainly', Placed, OncePerEpoch, Telling, Exited
    PROVE  Telling'
<1>1. /\ sup \in Supervisors /\ sup.at = "exited" /\ Running /\ Silent
      /\ sup.reason \notin {"unannounced", "shutdown", "restart"}
      /\ UNCHANGED <<client, events, queued, controls, silent>> /\ child' = NoChild
  BY DEF Plainly, Typed, Placed, Telling, StartRefused, Exited, At, Quiet, SupStep
<1>2. /\ sup'.at = "decide" /\ sup'.epoch = sup.epoch /\ sup'.reason = sup.reason
      /\ Begins("ended", child.epoch, TRUE)
  BY <1>1 DEF Exited, Supervisors, Begins
<1>3. "ended" \in Terminal
  BY DEF Terminal
<1> QED BY <1>1, <1>2, <1>3, EndTells

LEMMA StopGroupTells ==
    ASSUME Plainly, Plainly', Placed, OncePerEpoch, Telling, StopGroup
    PROVE  Telling'
<1>1. /\ sup \in Supervisors /\ sup.at = "kill" /\ Running /\ Silent /\ sup.emission = NoEmission
      /\ sup.reason # "shutdown"
      /\ UNCHANGED <<client, events, queued, controls, silent>> /\ child' = NoChild
  BY DEF Plainly, Typed, Placed, Telling, StopGroup, At, Quiet, SupStep, Silent
<1>2. CASE sup.reason = "restart"
  <2>1. sup' = [sup EXCEPT !.at = "start", !.reason = "none",
                           !.emission = Emission("restarted", child.epoch, TRUE)]
    BY <1>2 DEF StopGroup
  <2>2. /\ sup'.at = "start" /\ sup'.epoch = sup.epoch /\ sup'.reason = "none"
        /\ Begins("restarted", child.epoch, TRUE)
    BY <1>1, <2>1 DEF Supervisors, Begins
  <2>3. "restarted" \in Terminal
    BY DEF Terminal
  <2> QED BY <1>1, <1>2, <2>2, <2>3, EndTells
<1>3. CASE sup.reason \notin {"unannounced", "restart"}
  <2>1. sup' = [sup EXCEPT !.at = "finish", !.emission = Emission("ended", child.epoch, TRUE)]
    BY <1>1, <1>3 DEF StopGroup
  <2>2. /\ sup'.at = "finish" /\ sup'.epoch = sup.epoch /\ sup'.reason = sup.reason
        /\ Begins("ended", child.epoch, TRUE)
    BY <1>1, <2>1 DEF Supervisors, Begins
  <2>3. "ended" \in Terminal
    BY DEF Terminal
  <2> QED BY <1>1, <1>3, <2>2, <2>3, EndTells
<1>4. CASE sup.reason = "unannounced"
  <2>1. sup' = [sup EXCEPT !.at = "inspect", !.reason = "none"]
    BY <1>4, Zenon DEF StopGroup
  <2>2. sup'.at = "inspect" /\ sup'.epoch = sup.epoch /\ sup'.reason = "none" /\ sup'.emission = NoEmission
    BY <1>1, <2>1 DEF Supervisors
  <2>3. /\ Ordered /\ Bounded /\ Recent /\ Reserved /\ StartRefused /\ Pictured
        /\ SamePipe /\ Silent' /\ ~Awaited'
    BY <1>1, <2>2, Beginning DEF Telling
  <2>4. Shown' = Shown /\ Ordered' /\ Reserved' /\ Oldest' = Oldest /\ ~Running'
    BY <1>1, <2>3, SameKeeps DEF Oldest, Running
  <2>5. Bounded' /\ Recent'
    BY <1>1, <2>2, <2>3, <2>4 DEF Bounded, Recent
  <2>6. EmissionFits' /\ StartQueued' /\ StartRefused'
    BY <2>2, <2>3 DEF EmissionFits, StartQueued, StartRefused, Refused
  <2>7. Pictured'
    <3>1. client.told # "ended"
      BY <1>1, <2>3 DEF Pictured
    <3>2. client.told = "started" \/ Event("started", client.epoch) \in Shown => ~Alive
      BY <1>4, <2>3 DEF StartRefused, Refused, Alive
    <3>3. Due => Due'
      BY <1>1, <1>4, <2>2 DEF Due, ToBeStarted
    <3> QED BY <1>1, <2>3, <2>4, <3>1, <3>2, <3>3 DEF Pictured
  <2> QED BY <2>2, <2>4, <2>5, <2>6, <2>7 DEF Telling
<1> QED BY <1>1, <1>2, <1>3, <1>4

---------------------------------------------------------------------------
(* Emitting                                                                *)

\* TERMINAL_EVENT_RESERVE is enough.  Were the channel full, the last three
\* events on their way would each be the end of a child; but the client has at
\* most the child before its own and its own to hear the end of.
LEMMA ReserveIsEnough ==
    ASSUME Plainly, Telling, sup.emission.phase = "send"
    PROVE  InChannel < EventCapacity
<1>1. /\ InChannel \in Nat /\ InHand \in {0, 1} /\ queued = InChannel + InHand + InFlight
      /\ InChannel <= EventCapacity
      /\ Size = InHand + InChannel + Waiting
      /\ sup.epoch \in Int /\ client.epoch \in Int /\ sup.epoch <= client.epoch
      /\ \A v \in Shown : v.epoch \in Int
  BY Plain, PipeTyped
<1>2. InFlight = 1 /\ Waiting = 1
  BY WaitingOne DEF InFlight, Awaited
<1>3. TerminalReserve \in Int /\ TerminalReserve >= 2 /\ EventCapacity \in Nat
        /\ TerminalReserve <= EventCapacity
  BY LanguageProcessAssumption, ReserveAssumption
<1> SUFFICES ASSUME InChannel = EventCapacity PROVE FALSE
  BY <1>1, <1>3
<1> DEFINE last == InHand + EventCapacity + 1
<1>4. Size = last /\ queued = last /\ last \in Int /\ last >= EventCapacity + 1
  BY <1>1, <1>2, <1>3
<1> HIDE DEF last
<1>5. /\ last - 2 \in 1 .. Size /\ last - 1 \in 1 .. Size /\ last \in 1 .. Size
      /\ last - 2 < last - 1 /\ last - 1 < last
      /\ ~(last - 2 <= EventCapacity - TerminalReserve)
      /\ ~(last - 1 <= EventCapacity - TerminalReserve)
      /\ ~(last <= EventCapacity - TerminalReserve)
      /\ last - 2 <= queued /\ last - 1 <= queued /\ last <= queued
  BY <1>3, <1>4
<1>6. /\ Pipe[last - 2].kind \in Terminal /\ Pipe[last - 1].kind \in Terminal /\ Pipe[last].kind \in Terminal
  BY <1>5, Zenon DEF Telling, Reserved
<1>7. Follows(Pipe[last - 2], Pipe[last - 1]) /\ Follows(Pipe[last - 1], Pipe[last])
  BY <1>5, <1>6 DEF Telling, Ordered, Life
<1>8. Pipe[last - 2].epoch < Pipe[last - 1].epoch /\ Pipe[last - 1].epoch < Pipe[last].epoch
  BY <1>6, <1>7 DEF Follows, Terminal
<1>9. Pipe[last - 2] \in Shown /\ Pipe[last - 1] \in Shown /\ Pipe[last] \in Shown
  BY <1>5 DEF Shown
<1>10. Oldest <= Pipe[last - 2].epoch /\ Pipe[last].epoch <= sup.epoch
  BY <1>6, <1>9 DEF Telling, Bounded, Life
<1>11. Oldest \in Int /\ client.epoch - 1 <= Oldest
  BY <1>1 DEF Oldest
<1> QED BY <1>1, <1>8, <1>9, <1>10, <1>11

LEMMA CountEventTells ==
    ASSUME Plainly, Plainly', Telling, CountEvent
    PROVE  Telling'
<1>1. /\ sup \in Supervisors /\ sup.emission \in Emissions
      /\ sup.emission.phase = "count" /\ Awaited /\ ~Silent
      /\ UNCHANGED <<client, controls, events, child, silent>>
      /\ Size \in Nat \ {0} /\ Size = queued + 1 /\ queued \in Int /\ Pipe[Size] = sup.emission.event
      /\ sup.emission.event \in Events
  <2>1. sup.emission.phase = "count" /\ Awaited /\ ~Silent
          /\ UNCHANGED <<client, controls, events, child, silent>>
    BY EventFields DEF CountEvent, SupStep, Awaited, Silent
  <2>2. InFlight = 0 /\ Waiting = 1
    BY <2>1, WaitingOne DEF InFlight
  <2>3. Size = queued + 1 /\ queued \in Int
    BY <2>2, Plain, PipeTyped
  <2>4. Size \in Nat \ {0} /\ Pipe[Size] = sup.emission.event
    <3>1. Size \in Nat /\ Size = InHand + InChannel + Waiting /\ InHand \in {0, 1} /\ InChannel \in Nat
      BY Plain, PipeTyped
    <3>2. Size \in 1 .. Size /\ ~(Size <= InHand) /\ ~(Size <= InHand + InChannel) /\ Size \in Nat \ {0}
      BY <2>2, <3>1
    <3> QED BY <3>2, Zenon DEF Pipe
  <2>5. sup \in Supervisors /\ sup.emission \in Emissions /\ sup.emission.event \in Events
    BY <2>1, Plain
  <2> QED BY <2>1, <2>3, <2>4, <2>5
<1>2. /\ Ordered /\ Bounded /\ Recent /\ Reserved
      /\ EmissionFits /\ StartQueued /\ StartRefused /\ Pictured
  BY DEF Telling
<1>3. CASE ~sup.emission.terminal /\ queued >= EventCapacity - TerminalReserve
  <2>1. /\ sup'.at = sup.at /\ sup'.epoch = sup.epoch /\ sup'.reason = sup.reason
        /\ sup'.emission = NoEmission /\ ~sup'.accepted /\ queued' = queued
    BY <1>1, <1>3 DEF CountEvent, Supervisors
  <2>2. Silent' /\ ~Awaited'
    BY <2>1, EventFields DEF Silent, Awaited
  <2>3. sup.emission.event.kind \notin Terminal
    BY <1>1, <1>2, <1>3 DEF EmissionFits
  <2>4. Lost
    BY <1>1, <2>2, PipeMoves
  <2>5. /\ Shown = Shown' \cup {sup.emission.event} /\ Ordered' /\ Reserved'
        /\ sup.emission.event.kind \in Life =>
             \A w \in Shown' : w.kind \in Life => Follows(w, sup.emission.event)
    BY <1>1, <1>2, <2>1, <2>4, LostKeeps
  <2>6. Bounded' /\ Recent'
    BY <1>1, <1>2, <2>1, <2>5 DEF Bounded, Recent, Oldest, Running
  <2>7. EmissionFits' /\ StartQueued'
    BY <1>1, <1>2, <2>1, <2>2 DEF EmissionFits, StartQueued
  <2>8. StartRefused'
    <3>1. CASE sup.reason = "unannounced"
      BY <1>1, <1>2, <2>1, <2>5, <3>1 DEF StartRefused, Refused
    <3>2. CASE sup.reason # "unannounced" /\ sup.at = "started"
      <4>1. sup.emission.event = Event("started", sup.epoch) /\ child.epoch = sup.epoch
        BY <1>1, <1>2, <3>2 DEF EmissionFits
      <4>2. Event("started", child.epoch) \notin Shown'
        <5>1. sup.epoch \in Int /\ ~Follows(Event("started", sup.epoch), Event("started", sup.epoch))
          BY Plain, EventFields DEF Follows, Terminal
        <5> QED BY <2>5, <4>1, <5>1, EventFields DEF Life
      <4> QED BY <1>1, <1>2, <2>1, <3>2, <4>2 DEF StartRefused, Refused
    <3>3. CASE sup.reason # "unannounced" /\ sup.at # "started"
      BY <2>1, <3>3 DEF StartRefused, Refused
    <3> QED BY <3>1, <3>2, <3>3
  <2>9. Pictured'
    <3>1. Event("ended", client.epoch) # sup.emission.event
      BY <2>3, EventFields DEF Terminal
    <3>2. Due => Due'
      BY <1>1, <2>1 DEF Due, ToBeStarted
    <3>3. Event("started", client.epoch) = sup.emission.event => Due'
      <4>1. Event("started", client.epoch) = sup.emission.event => sup.at = "started"
              /\ sup.epoch = client.epoch
        BY <1>1, <1>2, EventFields DEF EmissionFits
      <4> QED BY <1>1, <2>1, <4>1 DEF Due, ToBeStarted
    <3> QED BY <1>1, <1>2, <2>1, <2>5, <3>1, <3>2, <3>3 DEF Pictured, Alive, Running
  <2> QED BY <1>2, <2>1, <2>5, <2>6, <2>7, <2>8, <2>9 DEF Telling
<1>4. CASE ~(~sup.emission.terminal /\ queued >= EventCapacity - TerminalReserve)
  <2>1. sup' = [sup EXCEPT !.emission = [sup.emission EXCEPT !.phase = "send", !.n = queued + 1]]
          /\ queued' = queued + 1
    BY <1>1, <1>4, Zenon DEF CountEvent, Supervisors
  <2>2. /\ sup'.at = sup.at /\ sup'.epoch = sup.epoch /\ sup'.reason = sup.reason
             /\ sup'.accepted = sup.accepted
        /\ sup'.emission = [sup.emission EXCEPT !.phase = "send", !.n = queued + 1]
    BY <1>1, <2>1 DEF Supervisors
  <2>3. /\ sup'.emission.event = sup.emission.event /\ sup'.emission.terminal = sup.emission.terminal
        /\ sup'.emission.phase = "send"
    BY <1>1, <2>2 DEF Emissions
  <2>4. Awaited' /\ ~Silent'
    BY <2>3, EventFields DEF Awaited, Silent
  <2>5. SamePipe
    BY <1>1, <2>3, <2>4, PipeMoves
  <2>6. Shown' = Shown /\ Ordered'
    BY <1>2, <2>5, SameKeeps
  <2>7. Reserved'
    <3>1. SUFFICES ASSUME NEW n \in 1 .. Size, n <= queued + 1, Pipe[n].kind \notin Terminal
                   PROVE  n <= EventCapacity - TerminalReserve
      BY <2>1, <2>5 DEF Reserved, SamePipe
    <3>2. CASE n <= queued
      BY <1>2, <3>1, <3>2, Zenon DEF Reserved
    <3>3. CASE n = Size
      <4>1. ~sup.emission.terminal
        BY <1>1, <1>2, <3>1, <3>3 DEF EmissionFits
      <4>2. EventCapacity - TerminalReserve \in Int
        BY LanguageProcessAssumption
      <4> QED BY <1>1, <1>4, <3>3, <4>1, <4>2
    <3> QED BY <1>1, <3>1, <3>2, <3>3
  <2>8. Bounded' /\ Recent'
    BY <1>1, <1>2, <2>2, <2>6 DEF Bounded, Recent, Oldest, Running
  <2>9. EmissionFits' /\ StartQueued'
    BY <1>1, <1>2, <2>2, <2>3, <2>4 DEF EmissionFits, StartQueued
  <2>10. StartRefused'
    BY <1>1, <1>2, <2>2, <2>4, <2>6 DEF StartRefused, Refused
  <2>11. Pictured'
    BY <1>1, <1>2, <2>2, <2>6 DEF Pictured, Alive, Running, Due, ToBeStarted
  <2> QED BY <1>2, <2>2, <2>6, <2>7, <2>8, <2>9, <2>10, <2>11 DEF Telling
<1> QED BY <1>3, <1>4

LEMMA SendEventTells ==
    ASSUME Plainly, Plainly', client.open, Telling, SendEvent
    PROVE  Telling'
<1>1. /\ sup \in Supervisors /\ sup.emission \in Emissions
      /\ sup.emission.phase = "send" /\ Awaited /\ ~Silent
      /\ UNCHANGED <<client, controls, child, silent>>
  <2>1. sup.emission.phase = "send" /\ Awaited /\ ~Silent /\ UNCHANGED <<client, controls, child, silent>>
    BY EventFields DEF SendEvent, SupStep, Awaited, Silent
  <2> QED BY <2>1, Plain
<1>2. /\ Ordered /\ Bounded /\ Recent /\ Reserved
      /\ EmissionFits /\ StartQueued /\ StartRefused /\ Pictured
  BY DEF Telling
<1>3. client.open /\ Len(events) < EventCapacity
  BY <1>1, ReserveIsEnough DEF InChannel
<1>4. /\ sup' = [[sup EXCEPT !.emission = [sup.emission EXCEPT !.phase = "wake"]] EXCEPT !.accepted = TRUE]
      /\ events' = Append(events, sup.emission.event) /\ queued' = queued
  BY <1>1, <1>3, Zenon DEF SendEvent, Supervisors
<1>5. /\ sup'.at = sup.at /\ sup'.epoch = sup.epoch /\ sup'.reason = sup.reason /\ sup'.accepted
      /\ sup'.emission = [sup.emission EXCEPT !.phase = "wake"]
  BY <1>1, <1>4 DEF Supervisors
<1>6. /\ sup'.emission.event = sup.emission.event /\ sup'.emission.terminal = sup.emission.terminal
      /\ sup'.emission.phase = "wake" /\ ~Awaited'
  <2>1. /\ sup'.emission.event = sup.emission.event /\ sup'.emission.terminal = sup.emission.terminal
        /\ sup'.emission.phase = "wake"
    BY <1>1, <1>5 DEF Emissions
  <2> QED BY <2>1 DEF Awaited
<1>7. SamePipe
  BY <1>1, <1>4, <1>6, PipeSent
<1>8. Shown' = Shown /\ Ordered' /\ Reserved'
  BY <1>2, <1>4, <1>7, SameKeeps
<1>9. Bounded' /\ Recent'
  BY <1>1, <1>2, <1>5, <1>8 DEF Bounded, Recent, Oldest, Running
<1>10. EmissionFits'
  BY <1>1, <1>2, <1>5, <1>6 DEF EmissionFits
<1>11. StartQueued'
  <2>1. sup.emission.event \in Shown
    <3>1. Size \in Nat /\ Size = InHand + InChannel + Waiting /\ InHand \in {0, 1} /\ InChannel \in Nat
            /\ Waiting = 1
      BY <1>1, Plain, PipeTyped, WaitingOne
    <3>2. Size \in 1 .. Size /\ ~(Size <= InHand) /\ ~(Size <= InHand + InChannel)
      BY <3>1
    <3>3. Pipe[Size] = sup.emission.event
      BY <3>2, Zenon DEF Pipe
    <3> QED BY <3>2, <3>3 DEF Shown
  <2> QED BY <1>1, <1>2, <1>5, <1>8, <2>1 DEF StartQueued, EmissionFits
<1>12. StartRefused'
  BY <1>1, <1>2, <1>5, <1>6, <1>8 DEF StartRefused, Refused
<1>13. Pictured'
  BY <1>1, <1>2, <1>5, <1>8 DEF Pictured, Alive, Running, Due, ToBeStarted
<1> QED BY <1>2, <1>5, <1>8, <1>9, <1>10, <1>11, <1>12, <1>13 DEF Telling

\* Steps that move nothing in the pipe and leave the supervisor where it is.
LEMMA StillTells ==
    ASSUME Telling, SamePipe, queued' = queued, silent' = silent,
           UNCHANGED <<client.told, client.epoch, sup.at, sup.epoch, sup.reason, sup.accepted, child.epoch>>,
           Running' <=> Running, Awaited' <=> Awaited, Due => Due',
           Silent' \/ (~Silent /\ sup'.emission = sup.emission)
    PROVE  Telling'
<1>1. /\ Ordered /\ Bounded /\ Recent /\ Reserved
      /\ EmissionFits /\ StartQueued /\ StartRefused /\ Pictured
  BY DEF Telling
<1>2. Shown' = Shown /\ Ordered' /\ Reserved'
  BY <1>1, SameKeeps
<1>3. Bounded' /\ Recent'
  BY <1>1, <1>2 DEF Bounded, Recent, Oldest
<1>4. EmissionFits'
  <2>1. Silent' => ~Awaited'
    BY EventFields DEF Silent, Awaited
  <2> QED BY <1>1, <2>1 DEF EmissionFits
<1>5. StartQueued' /\ StartRefused'
  BY <1>1, <1>2 DEF StartQueued, StartRefused, Refused
<1>6. Pictured'
  BY <1>1, <1>2 DEF Pictured, Alive
<1> QED BY <1>2, <1>3, <1>4, <1>5, <1>6 DEF Telling

LEMMA WakeClientTells ==
    ASSUME Plainly, Plainly', Telling, WakeClient
    PROVE  Telling'
<1>1. /\ sup \in Supervisors /\ sup.emission.phase = "wake" /\ ~Awaited
      /\ UNCHANGED <<client, controls, events, queued, child, silent>>
  BY Plain DEF WakeClient, SupStep, Awaited
<1>2. /\ UNCHANGED <<sup.at, sup.epoch, sup.reason, sup.accepted>> /\ sup'.emission = NoEmission
  BY <1>1 DEF WakeClient, Supervisors
<1>3. Silent' /\ ~Awaited' /\ (Running' <=> Running) /\ (Due => Due')
  BY <1>1, <1>2, EventFields DEF Silent, Awaited, Running, Due, ToBeStarted
<1>4. SamePipe
  BY <1>1, <1>3, PipeMoves
<1> QED BY <1>1, <1>2, <1>3, <1>4, StillTells

---------------------------------------------------------------------------
(* The main thread's steps                                                 *)

LEMMA RestartTells ==
    ASSUME Plainly, Plainly', Telling, Restart
    PROVE  Telling'
<1>1. /\ client \in Clients /\ client.told \in {"started", "ended"}
      /\ UNCHANGED <<sup, child, events, queued, silent>>
      /\ controls' = Append(controls, [kind |-> "restart", epoch |-> client.epoch + 1])
      /\ sup.epoch \in Int /\ client.epoch \in Int /\ sup.epoch <= client.epoch
      /\ controls \in Seq(Controls)
  BY Plain DEF Plainly, Typed, ChannelsTyped, Restart, ClientStep
<1>2. client'.told = "starting" /\ client'.epoch = client.epoch + 1 /\ client'.hand = client.hand
  BY <1>1 DEF Restart, Clients
<1>3. /\ Ordered /\ Bounded /\ Recent /\ Reserved
      /\ EmissionFits /\ StartQueued /\ StartRefused /\ Pictured
  BY DEF Telling
<1>4. (Awaited' <=> Awaited) /\ (Silent' <=> Silent) /\ (Running' <=> Running) /\ (Refused' <=> Refused)
  BY <1>1 DEF Awaited, Silent, Running, Refused
<1>5. SamePipe
  BY <1>1, <1>2, <1>4, PipeMoves
<1>6. Shown' = Shown /\ Ordered' /\ Reserved'
  BY <1>1, <1>3, <1>5, SameKeeps
<1>7. Oldest' = Oldest
  BY <1>1, <1>2 DEF Oldest
<1>8. Bounded' /\ Recent'
  BY <1>1, <1>3, <1>4, <1>6, <1>7 DEF Bounded, Recent
<1>9. EmissionFits'
  BY <1>1, <1>3, <1>4 DEF EmissionFits
<1>10. StartQueued'
  BY <1>1, <1>2 DEF StartQueued
<1>11. StartRefused'
  BY <1>1, <1>2, <1>3, <1>4, <1>6 DEF StartRefused
<1>12. Pictured'
  <2>1. Event("started", client.epoch + 1) \notin Shown
    BY <1>1, <1>3, EventFields DEF Bounded, Life
  <2>2. Due'
    <3>1. /\ Len(controls) + 1 \in DOMAIN controls'
          /\ controls'[Len(controls) + 1] = [kind |-> "restart", epoch |-> client.epoch + 1]
      BY <1>1
    <3> QED BY <1>2, <3>1 DEF Due, ToBeStarted
  <2> QED BY <1>2, <1>6, <2>1, <2>2 DEF Pictured
<1> QED BY <1>1, <1>3, <1>6, <1>8, <1>9, <1>10, <1>11, <1>12 DEF Telling

\* The client takes an event: of another child, of no life's importance, or of
\* its own child's start or end.
LEMMA CountTells ==
    ASSUME Plainly, Plainly', OncePerEpoch, Telling, Count
    PROVE  Telling'
<1> DEFINE h == client.hand[1]
<1>1. /\ client \in Clients /\ client.hand # <<>> /\ sup.epoch \in Int /\ client.epoch \in Int
      /\ child.epoch \in Int /\ sup.epoch <= client.epoch
      /\ queued \in Int /\ queued' = queued - 1
      /\ UNCHANGED <<sup, child, events, controls, silent>>
      /\ client.left \in Int /\ \A v \in Shown : v \in Events /\ v.epoch \in Int
  <2>1. client.hand # <<>> /\ queued' = queued - 1 /\ UNCHANGED <<sup, child, events, controls, silent>>
    BY DEF Plainly, Counted, Count, ClientStep
  <2>2. client \in Clients /\ client.left \in Int
    BY Plain, Constants DEF Clients
  <2> QED BY <2>1, <2>2, Plain, PipeTyped
<1>2. /\ client'.hand = <<>> /\ client'.epoch = client.epoch
      /\ client'.told = IF ~Stale(h) /\ h.kind \in {"started", "ended"} THEN h.kind ELSE client.told
  <2>1. CASE Stale(h)
    <3>1. client' = [[client EXCEPT !.turn = "poll"] EXCEPT !.hand = <<>>]
      BY <2>1, Zenon DEF Count
    <3> QED BY <1>1, <2>1, <3>1 DEF Clients
  <2>2. CASE ~Stale(h)
    <3>1. client' = [Delivered(h) EXCEPT !.hand = <<>>]
      BY <2>2, Zenon DEF Count
    <3>2. CASE h.kind = "started"
      <4>1. Delivered(h) = [client EXCEPT !.told = "started", !.turn = "poll", !.left = @ - 1]
        BY <3>2 DEF Delivered
      <4> QED BY <1>1, <2>2, <3>1, <3>2, <4>1 DEF Clients
    <3>3. CASE h.kind = "ended"
      <4>1. Delivered(h) = [client EXCEPT !.told = "ended", !.turn = "end"]
        BY <3>3 DEF Delivered
      <4> QED BY <1>1, <2>2, <3>1, <3>3, <4>1 DEF Clients
    <3>4. CASE h.kind \notin {"started", "ended"}
      <4>1. Delivered(h) = [client EXCEPT !.turn = "poll", !.left = @ - 1]
        BY <3>4 DEF Delivered
      <4> QED BY <1>1, <2>2, <3>1, <3>4, <4>1 DEF Clients
    <3> QED BY <3>2, <3>3, <3>4
  <2> QED BY <2>1, <2>2
<1>3. Served /\ Size \in Nat \ {0} /\ Pipe[1] = h
  BY <1>1, <1>2, PipeServed
<1>4. /\ Ordered /\ Bounded /\ Recent /\ Reserved
      /\ EmissionFits /\ StartQueued /\ StartRefused /\ Pictured
  BY DEF Telling
<1>5. /\ Shown = Shown' \cup {h} /\ Ordered' /\ Reserved'
      /\ h.kind \in Life => \A w \in Shown' : w.kind \in Life => Follows(h, w)
  BY <1>1, <1>3, <1>4, ServedKeeps
<1>6. (Awaited' <=> Awaited) /\ (Silent' <=> Silent) /\ (Running' <=> Running) /\ (Refused' <=> Refused)
  BY <1>1 DEF Awaited, Silent, Running, Refused
<1>7. EmissionFits' /\ sup'.reason # "shutdown"
  BY <1>1, <1>4, <1>6 DEF EmissionFits, Telling
<1>8. Due' = Due
  BY <1>1, <1>2 DEF Due, ToBeStarted
<1>9. h \in Shown /\ h \in Events /\ h.epoch \in Int /\ h = Event(h.kind, h.epoch)
  BY <1>1, <1>5, EventFields
<1> HIDE DEF h
<1>10. CASE Stale(h) \/ h.kind \notin {"started", "ended"}
  <2>1. client'.told = client.told
    BY <1>2, <1>10
  <2>2. Event("started", client.epoch) # h /\ Event("ended", client.epoch) # h
    BY <1>10, EventFields DEF Stale
  <2>3. Bounded' /\ Recent'
    BY <1>1, <1>2, <1>4, <1>5, <1>6, <2>1 DEF Bounded, Recent, Oldest
  <2>4. StartQueued' /\ StartRefused'
    BY <1>1, <1>2, <1>4, <1>5, <1>6, <2>1, <2>2 DEF StartQueued, StartRefused
  <2>5. Pictured'
    BY <1>1, <1>2, <1>4, <1>5, <1>6, <1>8, <2>1, <2>2 DEF Pictured, Alive
  <2> QED BY <1>5, <1>7, <2>3, <2>4, <2>5 DEF Telling
<1>11. CASE ~Stale(h) /\ h.kind = "started"
  <2>1. h = Event("started", client.epoch) /\ client'.told = "started" /\ h.epoch = client.epoch
    BY <1>2, <1>9, <1>11 DEF Stale
  <2>2. Oldest' = client.epoch
    BY <1>2, <2>1 DEF Oldest
  <2>3. \A w \in Shown' : w.kind \in Life => client.epoch <= w.epoch
    BY <1>1, <1>5, <1>11, <2>1 DEF Follows, Life
  <2>4. client.epoch <= sup.epoch /\ (Running => client.epoch <= child.epoch)
    BY <1>4, <1>9, <1>11, <2>1 DEF Bounded, Life
  <2>5. Bounded' /\ Recent'
    BY <1>1, <1>4, <1>5, <1>6, <2>2, <2>3, <2>4 DEF Bounded, Recent
  <2>6. StartQueued'
    BY <2>1 DEF StartQueued
  <2>7. sup.at = "started" /\ Awaited => client.epoch # child.epoch
    <3> SUFFICES ASSUME sup.at = "started", Awaited, client.epoch = child.epoch PROVE FALSE
      OBVIOUS
    <3>1. sup.emission.event = Event("started", client.epoch)
      BY <1>4 DEF EmissionFits
    <3>2. sup'.emission.event = Event("started", client.epoch) /\ Awaited'
      BY <1>1, <1>6, <3>1
    <3>3. Event("started", client.epoch) \in Shown'
      <4>1. Size' \in 1 .. Size' /\ ~(Size' <= InHand') /\ ~(Size' <= InHand' + InChannel')
        <5>1. InHand' = 0 /\ InChannel' = InChannel /\ Waiting' = 1 /\ Size' = InHand' + InChannel' + Waiting'
          BY <1>1, <1>2, <3>2, WaitingOne, Zenon DEF InChannel, Size, InHand
        <5> QED BY <5>1, Plain
      <4>2. Pipe'[Size'] = sup'.emission.event
        BY <4>1, Zenon DEF Pipe
      <4> QED BY <3>2, <4>1, <4>2 DEF Shown
    <3>4. Follows(h, Event("started", client.epoch))
      BY <1>5, <1>11, <3>3, EventFields DEF Life
    <3> QED BY <1>1, <2>1, <3>4, EventFields DEF Follows, Terminal
  <2>8. StartRefused'
    <3>1. Refused => client.epoch # child.epoch
      BY <1>4, <1>9, <2>1 DEF StartRefused
    <3> QED BY <1>1, <1>2, <1>4, <1>5, <1>6, <2>7, <3>1 DEF StartRefused
  <2>9. Pictured'
    <3>1. Alive \/ Event("ended", client.epoch) \in Shown'
      <4>1. Event("ended", client.epoch) # h
        BY <1>11, EventFields
      <4> QED BY <1>4, <1>5, <1>9, <2>1, <4>1 DEF Pictured
    <3> QED BY <1>1, <1>2, <1>6, <2>1, <3>1 DEF Pictured, Alive
  <2> QED BY <1>5, <1>7, <2>5, <2>6, <2>8, <2>9 DEF Telling
<1>12. CASE ~Stale(h) /\ h.kind = "ended"
  <2>1. h = Event("ended", client.epoch) /\ client'.told = "ended" /\ h.epoch = client.epoch
    BY <1>2, <1>9, <1>12 DEF Stale
  <2>2. Oldest' = client.epoch
    BY <1>2, <2>1 DEF Oldest
  <2>3. client.epoch <= sup.epoch /\ (Running => client.epoch < child.epoch)
        /\ (sup.at = "start" => client.epoch < sup.epoch)
    BY <1>4, <1>9, <1>12, <2>1 DEF Bounded, Life, Terminal
  <2>4. \A w \in Shown' : w.kind \notin Life
    <3>1. ASSUME NEW w \in Shown', w.kind \in Life PROVE FALSE
      <4>1. Follows(h, w) /\ w \in Shown
        BY <1>5, <1>12, <3>1 DEF Life, Terminal
      <4>2. w.epoch <= sup.epoch /\ w.epoch \in Int
        BY <1>1, <1>4, <3>1, <4>1 DEF Bounded
      <4> QED BY <1>1, <1>12, <2>1, <4>1, <4>2 DEF Follows
    <3> QED BY <3>1
  <2>5. sup.epoch = client.epoch /\ sup.at # "start"
    BY <1>1, <2>3
  <2>6. ~Running
    BY <1>1, <2>3 DEF OncePerEpoch
  <2>7. Bounded' /\ Recent'
    BY <1>1, <1>6, <2>2, <2>4, <2>5, <2>6 DEF Bounded, Recent
  <2>8. StartQueued' /\ StartRefused'
    BY <1>1, <1>2, <1>4, <1>5, <1>6, <2>1 DEF StartQueued, StartRefused
  <2>9. Pictured'
    <3>1. Event("started", client.epoch) \notin Shown'
      BY <2>4, EventFields DEF Life
    <3> QED BY <1>1, <1>2, <1>6, <2>1, <2>5, <2>6, <3>1 DEF Pictured
  <2> QED BY <1>5, <1>7, <2>7, <2>8, <2>9 DEF Telling
<1> QED BY <1>10, <1>11, <1>12

\* The rest of a turn, and the server's own steps.
LEMMA OthersTell ==
    ASSUME Plainly, Plainly', client.open, Telling,
           Send \/ TakeWake \/ Receive \/ NoMore \/ EndTurn \/ Write \/ Read \/ Exit \/ UNCHANGED vars
    PROVE  Telling'
<1>1. /\ client \in Clients /\ UNCHANGED <<sup, queued, silent, child.epoch>>
      /\ (Running <=> child.epoch # 0) /\ (Running' <=> child'.epoch # 0)
  <2>1. UNCHANGED <<sup, queued, silent>>
    BY DEF Send, TakeWake, Receive, NoMore, EndTurn, Write, Read, Exit, ClientStep, ChildStep, vars
  <2>2. UNCHANGED child.epoch
    BY CoreKept DEF Plainly, Turn, Core
  <2> QED BY <2>1, <2>2, Plain, RunningIsAnEpoch DEF Plainly
<1>2. (Running' <=> Running) /\ (Awaited' <=> Awaited) /\ (Silent' <=> Silent)
  BY <1>1 DEF Awaited, Silent
<1>3. ASSUME SamePipe, client'.told = client.told, client'.epoch = client.epoch, Due => Due'
      PROVE  Telling'
  BY <1>1, <1>2, <1>3, StillTells
<1>4. UNCHANGED controls /\ client'.epoch = client.epoch => (Due => Due')
  BY <1>1 DEF Due, ToBeStarted
<1>5. UNCHANGED <<client.hand, events>> => SamePipe
  BY <1>1, <1>2, PipeMoves
<1>6. CASE Send
  <2>1. UNCHANGED <<client, events>> /\ controls' = Append(controls, [kind |-> "input", epoch |-> client.epoch])
    BY <1>6 DEF Send
  <2>2. Due => Due'
    <3>1. controls \in Seq(Controls)
      BY DEF Plainly, Typed, ChannelsTyped
    <3>2. \A n \in DOMAIN controls : n \in DOMAIN controls' /\ controls'[n] = controls[n]
      BY <2>1, <3>1
    <3> QED BY <1>1, <2>1, <3>2 DEF Due, ToBeStarted
  <2> QED BY <1>3, <1>5, <2>1, <2>2
<1>7. CASE TakeWake \/ EndTurn
  <2>1. UNCHANGED <<client.hand, client.told, client.epoch, events, controls>>
    BY <1>1, <1>7 DEF TakeWake, EndTurn, Clients
  <2> QED BY <1>3, <1>4, <1>5, <2>1
<1>8. CASE Receive
  <2>1. /\ client.turn = "poll" /\ events # <<>> /\ events' = Tail(events) /\ UNCHANGED controls
        /\ client' = [client EXCEPT !.turn = "count", !.hand = <<Head(events)>>]
    BY <1>8 DEF Receive
  <2>2. /\ client'.hand = <<Head(events)>> /\ client'.told = client.told /\ client'.epoch = client.epoch
        /\ client.hand = <<>>
    BY <1>1, <2>1 DEF Clients, Plainly, Counted
  <2>3. SamePipe
    BY <1>1, <2>1, <2>2, PipeTaken
  <2> QED BY <1>3, <1>4, <2>1, <2>2, <2>3
<1>9. CASE NoMore
  <2>1. /\ client'.hand = client.hand /\ client'.epoch = client.epoch /\ UNCHANGED <<events, controls>>
        /\ client'.told \in {"gone", client.told}
    BY <1>1, <1>9 DEF NoMore, Clients
  <2>2. CASE client'.told = client.told
    BY <1>3, <1>4, <1>5, <2>1, <2>2
  <2>3. CASE client'.told = "gone"
    <3>1. SamePipe /\ (Due => Due')
      BY <1>4, <1>5, <2>1
    <3>2. /\ Ordered /\ Bounded /\ Recent /\ Reserved
          /\ EmissionFits /\ StartQueued /\ StartRefused /\ Pictured
      BY DEF Telling
    <3>3. Shown' = Shown /\ Ordered' /\ Reserved'
      BY <1>1, <3>1, <3>2, SameKeeps
    <3>4. Oldest' \in Int /\ Oldest \in Int /\ Oldest' <= Oldest /\ sup.epoch \in Int /\ child.epoch \in Int
          /\ \A v \in Shown : v.epoch \in Int
      BY <2>1, <2>3, Plain, PipeTyped DEF Oldest
    <3>5. Bounded' /\ Recent'
      BY <1>1, <1>2, <3>2, <3>3, <3>4 DEF Bounded, Recent
    <3>6. EmissionFits' /\ StartQueued' /\ StartRefused'
      BY <1>1, <1>2, <2>1, <2>3, <3>2, <3>3 DEF EmissionFits, StartQueued, StartRefused, Refused
    <3>7. Pictured'
      BY <1>1, <1>2, <2>1, <2>3, <3>2, <3>3 DEF Pictured, Alive
    <3> QED BY <1>1, <3>3, <3>5, <3>6, <3>7 DEF Telling
  <2> QED BY <2>1, <2>2, <2>3
<1>10. CASE Write \/ Read \/ Exit \/ UNCHANGED vars
  <2>1. UNCHANGED <<client, events, controls>>
    BY <1>10 DEF Write, Read, Exit, ChildStep, vars
  <2> QED BY <1>3, <1>4, <1>5, <2>1
<1> QED BY <1>6, <1>7, <1>8, <1>9, <1>10

LEMMA ToldNext ==
    ASSUME IInv, IInv', Told, [Next]_vars
    PROVE  Told'
<1>1. /\ Plainly /\ Plainly' /\ Placed /\ OncePerEpoch /\ client \in Clients
  BY DEF IInv, Plainly, Typed, ClientTyped
<1>2. CASE ~client'.open
  BY <1>2 DEF Told
<1>3. CASE client'.open
  <2>1. CASE Restart
    <3>1. client.open
      BY <2>1 DEF Restart, Free
    <3> QED BY <1>1, <2>1, <3>1, RestartTells DEF Told
  <2>2. CASE Stop
    BY <1>1, <1>3, <2>2 DEF Stop, Clients
  <2>3. CASE Count
    <3>1. client.open
      BY <2>3 DEF Count, IInv, Counted
    <3> QED BY <1>1, <2>3, <3>1, CountTells DEF Told
  <2>4. CASE Send \/ TakeWake \/ Receive \/ NoMore \/ EndTurn \/ Write \/ Read \/ Exit \/ UNCHANGED vars
    <3>1. client.open
      BY <1>1, <1>3, <2>4
        DEF Send, Free, TakeWake, Receive, NoMore, EndTurn, Write, Read, Exit, ChildStep, vars, Clients
    <3> QED BY <1>1, <2>4, <3>1, OthersTell DEF Told
  <2>5. CASE Emit
    <3>1. client.open
      BY <1>3, <2>5 DEF Emit, CountEvent, SendEvent, WakeClient, SupStep
    <3> QED BY <1>1, <2>5, <3>1, CountEventTells, SendEventTells, WakeClientTells DEF Told, Emit
  <2>6. CASE Supervised
    <3>1. client' = client
      BY <2>6 DEF Supervised, Start, Started, TakeInput, TakeRestart, NoControl, Inspect, ForwardOutputs,
                  ForwardWrites, Forward, TryWait, Exited, Decide, Close, Unpublish, StopGroup, Finish, Quiet,
                    SupStep
    <3>2. Telling
      BY <1>3, <3>1 DEF Told
    <3>3. CASE Close
      BY <1>3, <3>1, <3>3 DEF Close, StopRequested
    <3>4. CASE ~Close
      <4>1. Telling'
        BY <1>1, <2>6, <3>2, <3>4, QuietSteps, StartTells, TakeRestartTells, ExitedTells, StopGroupTells
          DEF Supervised
      <4> QED BY <4>1 DEF Told
    <3> QED BY <3>3, <3>4
  <2> QED BY <2>1, <2>2, <2>3, <2>4, <2>5, <2>6 DEF Next, Supervise, Supervised, Turn
<1> QED BY <1>2, <1>3

LEMMA InitTold == Init => Told
<1> SUFFICES ASSUME Init PROVE Telling
  BY DEF Told
<1>1. Silent /\ ~Awaited /\ ~Running
  BY EventFields DEF Init, Silent, Awaited, Running
<1>2. Size = 0
  <2>1. InHand = 0 /\ InChannel = 0 /\ Waiting = 0
    BY <1>1, WaitingOne DEF Init, InHand, InChannel
  <2> QED BY <2>1 DEF Size
<1>3. Shown = {}
  BY <1>2 DEF Shown
<1>4. Ordered /\ Reserved
  BY <1>2 DEF Ordered, Reserved
<1>5. Bounded /\ Recent
  BY <1>1, <1>3 DEF Init, Bounded, Recent, Oldest
<1>6. EmissionFits /\ StartQueued /\ StartRefused
  BY <1>1, <1>3 DEF Init, EmissionFits, StartQueued, StartRefused, Refused
<1>7. Pictured
  BY <1>3 DEF Init, Pictured, Due, ToBeStarted
<1> QED BY <1>4, <1>5, <1>6, <1>7 DEF Init, Telling

\* What the client is told stays in step with its server: a client told of its
\* end has none running, one told of its start has it running or its end on
\* the way, and one that waits is told, unless it is one of the silent epochs.
\* A reserve of two makes the end of a child never refused, whatever the
\* capacity of the channel and the number of restarts.
THEOREM ClientIsToldHolds == Spec => []ClientIsTold
<1>1. IInv /\ Told => ClientIsTold
  <2> SUFFICES ASSUME IInv, Told, client.open PROVE ClientIsTold
    BY DEF ClientIsTold
  <2>1. Plainly /\ Telling
    BY DEF IInv, Plainly, Told
  <2>2. Pictured /\ client.epoch \in Int
    BY <2>1, Plain DEF Telling
  <2>3. ASSUME NEW kind, NEW e, Event(kind, e) \in Shown PROVE OnItsWay(kind, e)
    <3>1. PICK n \in 1 .. Size : Pipe[n] = Event(kind, e)
      BY <2>3 DEF Shown
    <3>2. /\ InHand \in {0, 1} /\ InChannel \in Nat /\ Size = InHand + InChannel + Waiting
          /\ events \in Seq(Events) /\ client.hand \in Seq(Events)
      BY <2>1, Plain, PipeTyped
    <3>3. Pipe[n] = IF n <= InHand THEN client.hand[n]
                    ELSE IF n <= InHand + InChannel THEN events[n - InHand] ELSE sup.emission.event
      BY Zenon DEF Pipe
    <3>4. CASE n <= InHand
      <4>1. n = 1 /\ InHand = 1
        BY <3>2, <3>4
      <4> QED BY <3>1, <3>2, <3>3, <4>1 DEF OnItsWay, Event, InHand
    <3>5. CASE ~(n <= InHand) /\ n <= InHand + InChannel
      <4>1. n - InHand \in 1 .. InChannel /\ events[n - InHand] = Event(kind, e)
        BY <3>1, <3>2, <3>3, <3>5
      <4>2. Queued(kind, e)
        BY <3>2, <4>1, EventFields DEF Queued, InChannel
      <4> QED BY <4>2 DEF OnItsWay
    <3>6. CASE ~(n <= InHand) /\ ~(n <= InHand + InChannel)
      <4>1. Awaited
        BY <3>2, <3>6, WaitingOne
      <4>2. sup.emission.event = Event(kind, e)
        BY <3>1, <3>3, <3>6
      <4> QED BY <4>1, <4>2, EventFields DEF OnItsWay, Event, Awaited, Silent
    <3> QED BY <3>4, <3>5, <3>6
  <2>4. /\ Event("started", client.epoch) \in Shown => OnItsWay("started", client.epoch)
        /\ Event("ended", client.epoch) \in Shown => OnItsWay("ended", client.epoch)
    <3>1. \A e : Event("started", e) \in Shown => OnItsWay("started", e)
      BY <2>3
    <3>2. \A e : Event("ended", e) \in Shown => OnItsWay("ended", e)
      BY <2>3
    <3> QED BY <3>1, <3>2
  <2> QED BY <2>2, <2>4 DEF Pictured, Alive, Due, ClientIsTold
<1>2. IInv /\ Told /\ [Next]_vars => IInv' /\ Told'
  BY NextIInv, ToldNext
<1> QED BY <1>1, <1>2, InitIInv, InitTold, PTL DEF Spec
===============================================================================
