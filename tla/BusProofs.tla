------------------------------ MODULE BusProofs -----------------------------
(***************************************************************************)
(* The calls and deliveries of module GameBus come to the steps of module  *)
(* Holdem, whoever subscribes to what GameModel publishes: the stack is at *)
(* every moment what is left of one handler, below deliveries to those who *)
(* only watch.                                                             *)
(***************************************************************************)
EXTENDS GameBus, ConsoleProofs, SequenceTheorems

-----------------------------------------------------------------------------
(* The stack.                                                              *)

IsStack(s) == \E T : s \in Seq(Seq(T))

Watched(task) == task.do = "deliver" /\ task.to # "controller"

Watchers(tasks) == \A i \in 1..Len(tasks) : Watched(tasks[i])

\* Nothing is left to do in any frame.
Finished(s) == \A i \in 1..Len(s) : s[i] = << >>

\* Of all the frames only one has anything left to do, and that is todo.
Holds(s, todo) ==
    IF todo = << >> THEN Finished(s)
    ELSE \E k \in 1..Len(s) : s[k] = todo /\ \A i \in 1..Len(s) : i # k => s[i] = << >>

\* The same, but for deliveries on top to those who watch.
Laid(s, todo) ==
    \/ Holds(s, todo)
    \/ s # << >> /\ Watchers(Head(s)) /\ Holds(Tail(s), todo)

\* Pushed: a frame put on a stack leaves the ones below as they are.
LEMMA Pushed ==
    ASSUME NEW T, NEW s \in Seq(T), NEW x \in T
    PROVE  /\ <<x>> \o s \in Seq(T) /\ <<x>> \o s # << >>
           /\ Len(<<x>> \o s) = Len(s) + 1
           /\ (<<x>> \o s)[1] = x /\ Head(<<x>> \o s) = x /\ Tail(<<x>> \o s) = s
           /\ \A i \in 2..(Len(s) + 1) : (<<x>> \o s)[i] = s[i - 1]
OBVIOUS

\* Popped: the frames below the innermost one, counted anew.
LEMMA Popped ==
    ASSUME NEW T, NEW s \in Seq(T), s # << >>
    PROVE  /\ Head(s) = s[1] /\ Head(s) \in T /\ Len(s) \in Nat /\ Len(s) >= 1
           /\ Tail(s) \in Seq(T) /\ Len(Tail(s)) = Len(s) - 1
           /\ \A i \in 1..(Len(s) - 1) : Tail(s)[i] = s[i + 1]
           /\ \A i \in 2..Len(s) : s[i] = Tail(s)[i - 1]
OBVIOUS

\* HoldsInnermost: a stack on which one frame has all that is left to do.
LEMMA HoldsInnermost ==
    ASSUME NEW T, NEW s \in Seq(T), NEW x \in T, Finished(s)
    PROVE  Holds(<<x>> \o s, x)
<1>. DEFINE u == <<x>> \o s
<1>1. /\ Len(u) = Len(s) + 1 /\ u[1] = x /\ Len(s) \in Nat
      /\ \A i \in 2..Len(u) : u[i] = s[i - 1]
  BY Pushed
<1>. HIDE DEF u
<1>2. \A i \in 1..Len(u) : i # 1 => u[i] = << >>
  BY <1>1 DEF Finished
<1>. QED
  BY <1>1, <1>2 DEF Holds, Finished, u

\* HoldsBelow: an empty frame on top does not matter.
LEMMA HoldsBelow ==
    ASSUME NEW T, << >> \in T, NEW s \in Seq(T), NEW todo
    PROVE  Holds(s, todo) <=> Holds(<< << >> >> \o s, todo)
<1>. DEFINE u == << << >> >> \o s
<1>1. /\ Len(u) = Len(s) + 1 /\ u[1] = << >> /\ Len(s) \in Nat
      /\ \A i \in 2..Len(u) : u[i] = s[i - 1]
      /\ \A i \in 1..Len(s) : s[i] = u[i + 1]
  BY Pushed
<1>. HIDE DEF u
<1>2. CASE todo = << >>
  <2>1. (\A i \in 1..Len(s) : s[i] = << >>) => \A i \in 1..Len(u) : u[i] = << >>
    BY <1>1
  <2>2. (\A i \in 1..Len(u) : u[i] = << >>) => \A i \in 1..Len(s) : s[i] = << >>
    BY <1>1
  <2>. QED
    BY <1>2, <2>1, <2>2 DEF Holds, Finished, u
<1>3. CASE todo # << >>
  <2>1. ASSUME NEW k \in 1..Len(s), s[k] = todo, \A i \in 1..Len(s) : i # k => s[i] = << >>
        PROVE  k + 1 \in 1..Len(u) /\ u[k + 1] = todo /\ \A i \in 1..Len(u) : i # k + 1 => u[i] = << >>
    <3>1. k + 1 \in 1..Len(u) /\ u[k + 1] = todo
      BY <1>1, <2>1
    <3>2. ASSUME NEW i \in 1..Len(u), i # k + 1
          PROVE  u[i] = << >>
      <4>1. CASE i = 1
        BY <1>1, <4>1
      <4>2. CASE i # 1
        <5>1. i \in 2..Len(u) /\ i - 1 \in 1..Len(s) /\ i - 1 # k
          BY <1>1, <3>2, <4>2
        <5>. QED
          BY <1>1, <2>1, <5>1
      <4>. QED
        BY <4>1, <4>2
    <3>. QED
      BY <3>1, <3>2
  <2>2. ASSUME NEW k \in 1..Len(u), u[k] = todo, \A i \in 1..Len(u) : i # k => u[i] = << >>
        PROVE  k - 1 \in 1..Len(s) /\ s[k - 1] = todo /\ \A i \in 1..Len(s) : i # k - 1 => s[i] = << >>
    BY <1>1, <1>3, <2>2
  <2>. QED
    BY <1>3, <2>1, <2>2 DEF Holds, Finished, u
<1>. QED
  BY <1>2, <1>3

\* LaidPopped: an empty frame is left.
LEMMA LaidPopped ==
    ASSUME NEW s, IsStack(s), s # << >>, Head(s) = << >>, NEW todo, Laid(s, todo)
    PROVE  Laid(Tail(s), todo) /\ IsStack(Tail(s))
<1>1. PICK T : s \in Seq(Seq(T))
  BY DEF IsStack
<1>2. Tail(s) \in Seq(Seq(T)) /\ << >> \in Seq(T) /\ << << >> >> \o Tail(s) = s
  BY <1>1
<1>3. Holds(s, todo) <=> Holds(Tail(s), todo)
  BY <1>2, HoldsBelow
<1>. QED
  BY <1>2, <1>3 DEF Laid, IsStack

\* LaidWatched: one of those who watch has been told.
LEMMA LaidWatched ==
    ASSUME NEW s, IsStack(s), s # << >>, Head(s) # << >>, Watched(Head(Head(s))),
           NEW todo, todo # << >> => ~Watched(Head(todo)), Laid(s, todo)
    PROVE  /\ Laid(<<Tail(Head(s))>> \o Tail(s), todo) /\ IsStack(<<Tail(Head(s))>> \o Tail(s))
           /\ Holds(Tail(s), todo) /\ Watchers(Head(s))
<1>1. PICK T : s \in Seq(Seq(T))
  BY DEF IsStack
<1>. DEFINE f == Head(s)
            r == Tail(s)
<1>2. f \in Seq(T) /\ r \in Seq(Seq(T)) /\ f = s[1] /\ Len(s) \in Nat /\ Len(s) >= 1
  BY <1>1, Popped
<1>3. ~Holds(s, todo)
  <2>1. SUFFICES ASSUME Holds(s, todo) PROVE FALSE
    OBVIOUS
  <2>2. f = todo
    BY <1>2, <2>1 DEF Holds, Finished
  <2>. QED
    BY <2>2
<1>4. Watchers(f) /\ Holds(r, todo)
  BY <1>3 DEF Laid
<1>. HIDE DEF f, r
<1>5. Tail(f) \in Seq(T) /\ Len(Tail(f)) = Len(f) - 1 /\ \A i \in 1..Len(Tail(f)) : Tail(f)[i] = f[i + 1]
  BY <1>2 DEF f
<1>6. Watchers(Tail(f)) /\ Len(f) \in Nat
  BY <1>2, <1>4, <1>5 DEF Watchers
<1>7. <<Tail(f)>> \o r \in Seq(Seq(T)) /\ <<Tail(f)>> \o r # << >>
      /\ Head(<<Tail(f)>> \o r) = Tail(f) /\ Tail(<<Tail(f)>> \o r) = r
  BY <1>2, <1>5, Pushed, SMTT(30)
<1>. QED
  BY <1>4, <1>6, <1>7 DEF Laid, IsStack, f, r

\* LaidCalled: a call, or a request to the controller, is the next thing left
\* to do, and its frame the only one with anything left.
LEMMA LaidCalled ==
    ASSUME NEW s, IsStack(s), s # << >>, Head(s) # << >>, ~Watched(Head(Head(s))),
           NEW todo, Laid(s, todo)
    PROVE  todo = Head(s) /\ Finished(Tail(s))
<1>1. PICK T : s \in Seq(Seq(T))
  BY DEF IsStack
<1>. DEFINE f == Head(s)
<1>2. /\ f \in Seq(T) /\ f = s[1] /\ Len(s) \in Nat /\ Len(s) >= 1
      /\ Len(Tail(s)) = Len(s) - 1 /\ \A i \in 1..(Len(s) - 1) : Tail(s)[i] = s[i + 1]
  BY <1>1, Popped
<1>3. ~Watchers(f)
  BY <1>2 DEF Watchers
<1>4. Holds(s, todo)
  BY <1>3 DEF Laid
<1>. HIDE DEF f
<1>5. todo = f /\ \A i \in 2..Len(s) : s[i] = << >>
  BY <1>2, <1>4 DEF Holds, Finished, f
<1>. QED
  BY <1>2, <1>5 DEF f, Finished

\* WiderStack: what is pushed may be of a kind that was not there before.
LEMMA WiderStack ==
    ASSUME NEW T, NEW U
    PROVE  /\ Seq(T) \subseteq Seq(T \cup U) /\ Seq(U) \subseteq Seq(T \cup U)
           /\ Seq(Seq(T)) \subseteq Seq(Seq(T \cup U))
<1>1. Seq(T) \subseteq Seq(T \cup U) /\ Seq(U) \subseteq Seq(T \cup U)
  BY SeqMonotonic
<1>. QED
  BY <1>1, SeqMonotonic

\* What Enter makes of the stack s.
Entered(s, tasks) ==
    (IF tasks = << >> THEN << >> ELSE <<tasks>>) \o <<Tail(Head(s))>> \o Tail(s)

\* LaidEntered: the task is done by a frame of its own.
LEMMA LaidEntered ==
    ASSUME NEW s, IsStack(s), s # << >>, Head(s) # << >>,
           Finished(Tail(s)),
           NEW U, NEW tasks \in Seq(U),
           NEW v, v = Entered(s, tasks)
    PROVE  /\ IsStack(v)
           /\ Watchers(tasks) => Laid(v, Tail(Head(s)))
           /\ Tail(Head(s)) = << >> /\ tasks # << >> => Laid(v, tasks)
           /\ v # << >> /\ Head(v) = (IF tasks = << >> THEN Tail(Head(s)) ELSE tasks)
<1>1. PICK T : s \in Seq(Seq(T))
  BY DEF IsStack
<1>. DEFINE rest == Tail(Head(s))
            below == <<rest>> \o Tail(s)
            W == Seq(T \cup U)
<1>2. rest \in Seq(T) /\ Tail(s) \in Seq(Seq(T))
  BY <1>1
<1>. HIDE DEF rest
<1>3. rest \in W /\ tasks \in W /\ Tail(s) \in Seq(W) /\ << >> \in W
  BY <1>2, WiderStack
<1>. HIDE DEF W
<1>4. Holds(below, rest) /\ below \in Seq(W) /\ below # << >> /\ Head(below) = rest
  <2>1. Holds(below, rest)
    BY <1>3, HoldsInnermost
  <2>. QED
    BY <1>3, <2>1, Pushed
<1>5. CASE tasks = << >>
  <2>1. v = below
    BY <1>3, <1>4, <1>5 DEF rest, Entered
  <2>. QED
    BY <1>4, <1>5, <2>1 DEF Laid, IsStack, rest, W
<1>6. CASE tasks # << >>
  <2>. HIDE DEF below
  <2>1. v = <<tasks>> \o below
    BY <1>3, <1>6 DEF rest, below, Entered
  <2>2. v \in Seq(W) /\ v # << >> /\ Head(v) = tasks /\ Tail(v) = below
    <3>1. /\ <<tasks>> \o below \in Seq(W) /\ <<tasks>> \o below # << >>
          /\ Head(<<tasks>> \o below) = tasks /\ Tail(<<tasks>> \o below) = below
      BY <1>3, <1>4, Pushed
    <3>. QED
      BY <2>1, <3>1
  <2>3. Watchers(tasks) => Laid(v, rest)
    BY <1>4, <2>2 DEF Laid
  <2>4. rest = << >> => Laid(v, tasks)
    <3>1. SUFFICES ASSUME rest = << >> PROVE Laid(v, tasks)
      OBVIOUS
    <3>2. Finished(below)
      BY <1>4, <3>1 DEF Holds
    <3>. QED
      BY <1>3, <1>4, <2>1, <3>2, HoldsInnermost DEF Laid
  <2>5. IsStack(v)
    BY <2>2 DEF IsStack, W
  <2>. QED
    BY <1>6, <2>2, <2>3, <2>4, <2>5 DEF rest
<1>. QED
  BY <1>5, <1>6

\* LaidBecome: the task is replaced by others of the same frame.
LEMMA LaidBecome ==
    ASSUME NEW s, IsStack(s), s # << >>,
           Finished(Tail(s)),
           NEW U, NEW tasks \in Seq(U), NEW v, v = <<tasks>> \o Tail(s)
    PROVE  IsStack(v) /\ Laid(v, tasks) /\ v # << >> /\ Head(v) = tasks
<1>1. PICK T : s \in Seq(Seq(T))
  BY DEF IsStack
<1>. DEFINE W == Seq(T \cup U)
<1>2. Tail(s) \in Seq(W) /\ tasks \in W
  BY <1>1, WiderStack
<1>. HIDE DEF W
<1>3. Holds(v, tasks) /\ v \in Seq(W) /\ v # << >> /\ Head(v) = tasks
  <2>1. Holds(v, tasks)
    BY <1>2, HoldsInnermost
  <2>. QED
    BY <1>2, <2>1, Pushed
<1>. QED
  BY <1>3 DEF Laid, IsStack, W
-----------------------------------------------------------------------------
(* What publish puts on the stack.                                         *)

\* PublishRequest: the controller is the only one that is asked.
LEMMA PublishRequest ==
    ASSUME NEW e, e.type \in Requests
    PROVE  Publish(e) = <<Deliver("controller", e)>>
<1>1. Subscribers(e.type) = <<"controller">>
  BY SubscribersAssumption
<1>. QED
  BY <1>1 DEF Publish

\* PublishAnnouncement: whoever else is called only watches, and is told the
\* event.
LEMMA PublishAnnouncement ==
    ASSUME NEW e, e.type \in Announcements
    PROVE  /\ Publish(e) \in Seq({Deliver(to, e) : to \in STRING})
           /\ Len(Publish(e)) = Len(Subscribers(e.type))
           /\ Watchers(Publish(e))
           /\ \A i \in 1..Len(Publish(e)) : Publish(e)[i] = Deliver(Subscribers(e.type)[i], e)
<1>. DEFINE w == Subscribers(e.type)
<1>1. w \in Seq(STRING \ {"controller"})
  BY SubscribersAssumption
<1>2. Publish(e) = [i \in DOMAIN w |-> Deliver(w[i], e)]
  BY DEF Publish
<1>. HIDE DEF w
<1>3. /\ Publish(e) \in Seq({Deliver(to, e) : to \in STRING})
      /\ Len(Publish(e)) = Len(w)
      /\ \A i \in 1..Len(Publish(e)) : w[i] # "controller" /\ Publish(e)[i] = Deliver(w[i], e)
  BY <1>1, <1>2
<1>4. \A to : to # "controller" => Watched(Deliver(to, e))
  BY DEF Watched, Deliver
<1>5. Watchers(Publish(e))
  BY <1>3, <1>4 DEF Watchers
<1>. QED
  BY <1>3, <1>5 DEF w

\* PublishOne: the calls of TableCall and SetStage publish one event ...
LEMMA PublishOne ==
    ASSUME NEW e
    PROVE  PublishAll(<<e>>) = Publish(e)
<1>1. DOMAIN <<e>> = 1..1 /\ <<e>>[1] = e
  OBVIOUS
<1>2. [i \in DOMAIN <<e>> |-> Publish(<<e>>[i])] = [i \in 1..1 |-> Publish(e)]
  BY <1>1
<1>. QED
  BY <1>2, FlattenOne DEF PublishAll

\* PublishNone: ... or none.
LEMMA PublishNone == PublishAll(<< >>) = << >>
<1>1. [i \in DOMAIN << >> |-> Publish(<< >>[i])] = << >>
  OBVIOUS
<1>. QED
  BY <1>1 DEF PublishAll, FlattenSeq

-----------------------------------------------------------------------------
(* What the calls do to the stack.                                         *)

\* The frame todo is on top of the stack, and there is nothing else to do.
Placed(todo) ==
    /\ Running /\ IsStack(stack) /\ todo # << >> /\ Top = todo
    /\ Finished(Tail(stack))

\* The task is done, and those who watch are to be told of it.
EntersWatchers == \E U : \E tasks \in Seq(U) : Watchers(tasks) /\ Enter(tasks)

\* NoTasks: or nobody is.
LEMMA NoTasks == << >> \in Seq({}) /\ Watchers(<< >>)
BY EmptySeq DEF Watchers

\* PublishEnters: an announcement is a frame of those who watch.
LEMMA PublishEnters ==
    ASSUME NEW e, e.type \in Announcements, Enter(Publish(e))
    PROVE  EntersWatchers
BY PublishAnnouncement DEF EntersWatchers

\* SilenceEnters: so is no announcement.
LEMMA SilenceEnters ==
    ASSUME Enter(<< >>)
    PROVE  EntersWatchers
BY NoTasks DEF EntersWatchers

\* PublishAllEnters: and one or none.
LEMMA PublishAllEnters ==
    ASSUME NEW events, Enter(PublishAll(events)),
           \/ events = << >>
           \/ \E e : events = <<e>> /\ e.type \in Announcements
    PROVE  EntersWatchers
<1>1. CASE events = << >>
  BY <1>1, PublishNone, SilenceEnters
<1>2. ASSUME NEW e, events = <<e>>, e.type \in Announcements
      PROVE  EntersWatchers
  BY <1>2, PublishOne, PublishEnters
<1>. QED
  BY <1>1, <1>2

\* The calls that are done in one step.
PlainCall ==
    \/ JoinNewPlayer \/ StartGameCall \/ ChangeStageCall \/ SetCurrentStageCall
    \/ ShuffleDeck \/ DealHoleCardsCall \/ DealCommunityCardsCall
    \/ StartBettingRoundCall \/ PostSmallBlind \/ PostBigBlind
    \/ MoveActingPlayerCall \/ HandlePlayerActionCall \/ AwaitPlayerAction
    \/ RevealAllHoleCardsCall \/ ComparePlayerHandsCall
    \/ SplitPotCall \/ FinishGameCall

\* HoleCardsEnter: as many announcements as there are active seats.
LEMMA HoleCardsEnter ==
    ASSUME DealHoleCardsCall
    PROVE  EntersWatchers
<1>. DEFINE told(i) == IF i - 1 \in ActiveSeats(table) THEN Publish(Event!HoleCardsDealt(i - 1))
                       ELSE << >>
            W == {task \in [do : {"deliver"}, to : STRING, event : {Event!HoleCardsDealt(i - 1) : i \in 1..NumPlayers}] :
                    Watched(task)}
<1>1. ASSUME NEW i \in 1..NumPlayers
      PROVE  told(i) \in Seq(W)
  <2>. DEFINE e == Event!HoleCardsDealt(i - 1)
  <2>1. e.type \in Announcements
    BY DEF Event!HoleCardsDealt, Announcements
  <2>2. /\ Publish(e) \in Seq({Deliver(to, e) : to \in STRING})
        /\ Watchers(Publish(e))
    BY <2>1, PublishAnnouncement
  <2>3. \A to \in STRING : Deliver(to, e) \in [do : {"deliver"}, to : STRING, event : {Event!HoleCardsDealt(j - 1) : j \in 1..NumPlayers}]
    BY DEF Deliver
  <2>. HIDE DEF e
  <2>. DEFINE D == {Deliver(to, e) : to \in STRING}
  <2>4. \A j \in 1..Len(Publish(e)) : Publish(e)[j] \in D
    <3>1. Publish(e) \in Seq(D)
      BY <2>2
    <3>. HIDE DEF D
    <3>. QED
      BY <3>1
  <2>5. \A j \in 1..Len(Publish(e)) : Publish(e)[j] \in W
    BY <2>2, <2>3, <2>4 DEF Watchers
  <2>. HIDE DEF W
  <2>6. Publish(e) \in Seq(W)
    BY <2>2, <2>5
  <2>. QED
    BY <2>6, EmptySeq DEF e
<1>. HIDE DEF told, W
<1>. DEFINE ss == [i \in 1..NumPlayers |-> told(i)]
<1>2. NumPlayers \in Nat /\ ss \in [1..NumPlayers -> Seq(W)]
  BY <1>1, NumPlayersAssumption
<1>3. Enter(FlattenSeq(ss))
  BY DEF DealHoleCardsCall, told
<1>. HIDE DEF ss
<1>4. FlattenSeq(ss) \in Seq(W)
  BY <1>2, FlattenKeeps
<1>5. Watchers(FlattenSeq(ss))
  <2>1. \A i \in 1..Len(FlattenSeq(ss)) : FlattenSeq(ss)[i] \in W
    BY <1>4
  <2>. QED
    BY <2>1 DEF Watchers, W
<1>. QED
  BY <1>3, <1>4, <1>5 DEF EntersWatchers

\* PlainCallsEnter: such a call leaves the rest of its handler below those who
\* are told of it.
LEMMA PlainCallsEnter ==
    ASSUME PlainCall
    PROVE  EntersWatchers
<1>1. CASE JoinNewPlayer
  <2>1. Event!NewPlayerJoined(player_count, player_count + 1).type \in Announcements
    BY DEF Event!NewPlayerJoined, Announcements
  <2>. QED
    BY <1>1, <2>1, PublishEnters DEF JoinNewPlayer
<1>2. CASE StartGameCall
  <2>1. \A count : StartedEvent(count).type \in Announcements
    BY DEF StartedEvent, Event!GameStarted, Announcements
  <2>. QED
    BY <1>2, <2>1, PublishEnters DEF StartGameCall
<1>3. CASE ChangeStageCall
  <2>1. Event!StageChanged(stage').type \in Announcements
    BY DEF Event!StageChanged, Announcements
  <2>. QED
    BY <1>3, <2>1, PublishAllEnters DEF ChangeStageCall, SetStage
<1>4. CASE SetCurrentStageCall
  BY <1>4, PublishAllEnters DEF SetCurrentStageCall, SetStage
<1>5. CASE ShuffleDeck \/ ComparePlayerHandsCall
  BY <1>5, SilenceEnters DEF ShuffleDeck, ComparePlayerHandsCall
<1>6. CASE DealHoleCardsCall
  BY <1>6, HoleCardsEnter
<1>7. CASE DealCommunityCardsCall
  <2>1. Event!CommunityCardsDealt(community').type \in Announcements
    BY DEF Event!CommunityCardsDealt, Announcements
  <2>. QED
    BY <1>7, <2>1, PublishEnters DEF DealCommunityCardsCall
<1>8. CASE StartBettingRoundCall
  <2>1. Event!BettingRoundStarted.type \in Announcements
    BY DEF Event!BettingRoundStarted, Announcements
  <2>. QED
    BY <1>8, <2>1, PublishAllEnters DEF StartBettingRoundCall, TableCall
<1>9. CASE PostSmallBlind
  <2>1. Event!BlindPosted(SbSeat, SmallBlind, FALSE).type \in Announcements
    BY DEF Event!BlindPosted, Announcements
  <2>. QED
    BY <1>9, <2>1, PublishAllEnters DEF PostSmallBlind, TableCall
<1>10. CASE PostBigBlind
  <2>1. Event!BlindPosted(BbSeat, BigBlind, TRUE).type \in Announcements
    BY DEF Event!BlindPosted, Announcements
  <2>. QED
    BY <1>10, <2>1, PublishAllEnters DEF PostBigBlind, TableCall
<1>11. CASE MoveActingPlayerCall
  BY <1>11, PublishAllEnters DEF MoveActingPlayerCall, TableCall
<1>12. CASE HandlePlayerActionCall
  <2>1. \A seat, bet, action : Event!PlayerActed(seat, bet, action).type \in Announcements
    BY DEF Event!PlayerActed, Announcements
  <2>. DEFINE events == ActedEvent(table.acting_player, Task.arg)
  <2>2. events = << >> \/ \E seat, bet, action : events = <<Event!PlayerActed(seat, bet, action)>>
    BY DEF ActedEvent
  <2>3. Enter(PublishAll(events))
    BY <1>12 DEF HandlePlayerActionCall, TableCall
  <2>. HIDE DEF events
  <2>. QED
    BY <2>1, <2>2, <2>3, PublishAllEnters
<1>13. CASE AwaitPlayerAction
  <2>1. Event!WaitingForAction(table.acting_player, Context(table)).type \in Announcements
    BY DEF Event!WaitingForAction, Announcements
  <2>. QED
    BY <1>13, <2>1, PublishEnters DEF AwaitPlayerAction
<1>14. CASE RevealAllHoleCardsCall
  <2>1. Event!HoleCardsRevealed(revealed').type \in Announcements
    BY DEF Event!HoleCardsRevealed, Announcements
  <2>. QED
    BY <1>14, <2>1, PublishEnters DEF RevealAllHoleCardsCall
<1>15. CASE SplitPotCall
  <2>1. \A chips : Event!PotSplited(chips).type \in Announcements
    BY DEF Event!PotSplited, Announcements
  <2>. QED
    BY <1>15, <2>1, PublishEnters DEF SplitPotCall
<1>16. CASE FinishGameCall
  <2>1. Event!GameEnded.type \in Announcements
    BY DEF Event!GameEnded, Announcements
  <2>. QED
    BY <1>16, <2>1, PublishEnters DEF FinishGameCall
<1>. QED
  BY <1>1, <1>2, <1>3, <1>4, <1>5, <1>6, <1>7, <1>8, <1>9, <1>10, <1>11, <1>12, <1>13,
     <1>14, <1>15, <1>16 DEF PlainCall

\* EnteredLaid: and that rest is all that is left to do.
LEMMA EnteredLaid ==
    ASSUME NEW todo, Placed(todo), EntersWatchers
    PROVE  IsStack(stack') /\ Laid(stack', Tail(todo))
<1>1. PICK U : \E tasks \in Seq(U) : Watchers(tasks) /\ Enter(tasks)
  BY DEF EntersWatchers
<1>2. PICK tasks \in Seq(U) : Watchers(tasks) /\ Enter(tasks)
  BY <1>1
<1>3. /\ stack' = Entered(stack, tasks)
      /\ IsStack(stack) /\ stack # << >> /\ Head(stack) # << >> /\ Head(stack) = todo
      /\ Finished(Tail(stack))
  BY <1>2 DEF Enter, Entered, Placed, Running, Top
<1>4. IsStack(stack') /\ Laid(stack', Tail(Head(stack)))
  BY <1>2, <1>3, LaidEntered
<1>. QED
  BY <1>3, <1>4

-----------------------------------------------------------------------------
(* The first task decides which action is taken.                           *)

\* CalledOps: every call of GameModel is the call of its name.
LEMMA CalledOps ==
    /\ JoinNewPlayer => Calling("joinNewPlayer")
    /\ StartGameCall => Calling("startGame")
    /\ ChangeStageCall => Calling("changeStage")
    /\ SetCurrentStageCall => Calling("setCurrentStage")
    /\ ShuffleDeck => Calling("shuffleDeck")
    /\ DealHoleCardsCall => Calling("dealHoleCards")
    /\ DealCommunityCardsCall => Calling("dealCommunityCards")
    /\ StartBettingRoundCall => Calling("startBettingRound")
    /\ PostSmallBlind => Calling("postSmallBlind")
    /\ PostBigBlind => Calling("postBigBlind")
    /\ MoveActingPlayerCall => Calling("moveActingPlayer")
    /\ HandlePlayerActionCall => Calling("handlePlayerAction")
    /\ AwaitPlayerAction => Calling("awaitPlayerAction")
    /\ RevealAllHoleCardsCall => Calling("revealAllHoleCards")
    /\ ComparePlayerHandsCall => Calling("comparePlayerHands")
    /\ SplitPotCall => Calling("splitPot")
    /\ FinishGameCall => Calling("finishGame")
    /\ DistributePotsCall => Calling("distributePots")
    /\ Branch => Calling("branch")
<1>1. JoinNewPlayer => Calling("joinNewPlayer")
  BY DEF JoinNewPlayer
<1>2. StartGameCall => Calling("startGame")
  BY DEF StartGameCall
<1>3. ChangeStageCall => Calling("changeStage")
  BY DEF ChangeStageCall, SetStage
<1>4. SetCurrentStageCall => Calling("setCurrentStage")
  BY DEF SetCurrentStageCall, SetStage
<1>5. ShuffleDeck => Calling("shuffleDeck")
  BY DEF ShuffleDeck
<1>6. DealHoleCardsCall => Calling("dealHoleCards")
  BY DEF DealHoleCardsCall
<1>7. DealCommunityCardsCall => Calling("dealCommunityCards")
  BY DEF DealCommunityCardsCall
<1>8. StartBettingRoundCall => Calling("startBettingRound")
  BY DEF StartBettingRoundCall, TableCall
<1>9. PostSmallBlind => Calling("postSmallBlind")
  BY DEF PostSmallBlind, TableCall
<1>10. PostBigBlind => Calling("postBigBlind")
  BY DEF PostBigBlind, TableCall
<1>11. MoveActingPlayerCall => Calling("moveActingPlayer")
  BY DEF MoveActingPlayerCall, TableCall
<1>12. HandlePlayerActionCall => Calling("handlePlayerAction")
  BY DEF HandlePlayerActionCall, TableCall
<1>13. AwaitPlayerAction => Calling("awaitPlayerAction")
  BY DEF AwaitPlayerAction
<1>14. RevealAllHoleCardsCall => Calling("revealAllHoleCards")
  BY DEF RevealAllHoleCardsCall
<1>15. ComparePlayerHandsCall => Calling("comparePlayerHands")
  BY DEF ComparePlayerHandsCall
<1>16. SplitPotCall => Calling("splitPot")
  BY DEF SplitPotCall
<1>17. FinishGameCall => Calling("finishGame")
  BY DEF FinishGameCall
<1>18. DistributePotsCall => Calling("distributePots")
  BY DEF DistributePotsCall
<1>19. Branch => Calling("branch")
  BY DEF Branch
<1>. QED
  BY <1>1, <1>2, <1>3, <1>4, <1>5, <1>6, <1>7, <1>8, <1>9, <1>10, <1>11, <1>12, <1>13, <1>14, <1>15, <1>16, <1>17, <1>18, <1>19

\* TaskDecides: a step of the bus is that of the first task.
LEMMA TaskDecides ==
    ASSUME NEW todo, Placed(todo), BusStep
    PROVE  /\ Head(todo).do = "deliver" => ControllerHandles
           /\ Head(todo).do = "call" /\ Head(todo).op = "joinNewPlayer" => JoinNewPlayer
           /\ Head(todo).do = "call" /\ Head(todo).op = "startGame" => StartGameCall
           /\ Head(todo).do = "call" /\ Head(todo).op = "changeStage" => ChangeStageCall
           /\ Head(todo).do = "call" /\ Head(todo).op = "setCurrentStage" => SetCurrentStageCall
           /\ Head(todo).do = "call" /\ Head(todo).op = "shuffleDeck" => ShuffleDeck
           /\ Head(todo).do = "call" /\ Head(todo).op = "dealHoleCards" => DealHoleCardsCall
           /\ Head(todo).do = "call" /\ Head(todo).op = "dealCommunityCards" => DealCommunityCardsCall
           /\ Head(todo).do = "call" /\ Head(todo).op = "startBettingRound" => StartBettingRoundCall
           /\ Head(todo).do = "call" /\ Head(todo).op = "postSmallBlind" => PostSmallBlind
           /\ Head(todo).do = "call" /\ Head(todo).op = "postBigBlind" => PostBigBlind
           /\ Head(todo).do = "call" /\ Head(todo).op = "moveActingPlayer" => MoveActingPlayerCall
           /\ Head(todo).do = "call" /\ Head(todo).op = "handlePlayerAction" => HandlePlayerActionCall
           /\ Head(todo).do = "call" /\ Head(todo).op = "awaitPlayerAction" => AwaitPlayerAction
           /\ Head(todo).do = "call" /\ Head(todo).op = "revealAllHoleCards" => RevealAllHoleCardsCall
           /\ Head(todo).do = "call" /\ Head(todo).op = "comparePlayerHands" => ComparePlayerHandsCall
           /\ Head(todo).do = "call" /\ Head(todo).op = "splitPot" => SplitPotCall
           /\ Head(todo).do = "call" /\ Head(todo).op = "finishGame" => FinishGameCall
           /\ Head(todo).do = "call" /\ Head(todo).op = "distributePots" => DistributePotsCall
           /\ Head(todo).do = "call" /\ Head(todo).op = "branch" => Branch
<1>1. Top = todo /\ Task = Head(todo) /\ todo # << >>
  BY DEF Placed, Task
<1>2. \A op : Calling(op) => Head(todo).do = "call" /\ Head(todo).op = op
  BY <1>1 DEF Calling
<1>3. ControllerHandles => Head(todo).do = "deliver"
  BY <1>1 DEF ControllerHandles, Delivering
<1>4. ~Return
  BY <1>1 DEF Return
<1>5. ControllerHandles \/ Branch \/ PlainCall \/ DistributePotsCall
  BY <1>4 DEF BusStep, GameModelCall, PlainCall
<1>. QED
  BY <1>2, <1>3, <1>5, CalledOps DEF PlainCall

-----------------------------------------------------------------------------
(* The handlers, task by task.  Where the last step of Holdem ended, and   *)
(* what is left to do, say what the variables are.                         *)

From(calls, k) == SubSeq(calls, k, Len(calls))

StartCalls ==
    <<Call("startGame"), ChangeStage("PREFLOP"), Call("shuffleDeck"), Call("dealHoleCards"),
      Call("startBettingRound"), Call("postSmallBlind"), Call("postBigBlind"),
      Call("awaitPlayerAction")>>

TurnCalls == <<Call("moveActingPlayer"), Call("awaitPlayerAction")>>

StreetCalls(s) ==
    <<ChangeStage(NextStage(s)), Call("dealCommunityCards"), Call("startBettingRound"),
      Call("awaitPlayerAction")>>

\* FromNext: the first of the calls left, and the ones after it.
LEMMA FromNext ==
    ASSUME NEW T, NEW calls \in Seq(T), NEW k \in 1..Len(calls)
    PROVE  /\ From(calls, k) \in Seq(T) /\ From(calls, k) # << >>
           /\ Head(From(calls, k)) = calls[k]
           /\ Tail(From(calls, k)) = From(calls, k + 1)
<1>1. Len(calls) \in Nat /\ Len(calls) \in k..Len(calls)
  BY LenProperties
<1>2. From(calls, k) \in Seq(T) /\ Len(From(calls, k)) = Len(calls) - k + 1
  BY <1>1, SubSeqProperties DEF From
<1>3. From(calls, k) # << >>
  BY <1>1, <1>2
<1>4. Head(From(calls, k)) = calls[k] /\ Tail(From(calls, k)) = From(calls, k + 1)
  BY <1>1, HeadTailOfSubSeq DEF From
<1>. QED
  BY <1>2, <1>3, <1>4

\* FromEnds: all of them, and none of them.
LEMMA FromEnds ==
    ASSUME NEW T, NEW calls \in Seq(T)
    PROVE  From(calls, 1) = calls /\ From(calls, Len(calls) + 1) = << >>
<1>1. Len(calls) \in Nat
  BY LenProperties
<1>. QED
  BY <1>1, SubSeqFull, SubSeqEmpty DEF From

\* HandlersCalls: the calls of the handlers as what they are.
LEMMA HandlersCalls ==
    /\ CallsOf(Event!StartGame) = StartCalls
    /\ \A s : <<ChangeStage(s)>> \o PostflopCalls =
                 <<ChangeStage(s), Call("dealCommunityCards"), Call("startBettingRound"),
                   Call("awaitPlayerAction")>>
<1>1. ASSUME NEW a, NEW b, NEW c, NEW d, NEW e, NEW f, NEW g, NEW h
      PROVE  <<a, b>> \o <<c, d, e, f, g, h>> = <<a, b, c, d, e, f, g, h>>
  <2>. DEFINE T == {a, b, c, d, e, f, g, h}
              u == <<a, b>> \o <<c, d, e, f, g, h>>
              v == <<a, b, c, d, e, f, g, h>>
  <2>1. u \in Seq(T) /\ v \in Seq(T) /\ Len(u) = 8 /\ Len(v) = 8
    OBVIOUS
  <2>2. /\ u[1] = v[1] /\ u[2] = v[2] /\ u[3] = v[3] /\ u[4] = v[4]
        /\ u[5] = v[5] /\ u[6] = v[6] /\ u[7] = v[7] /\ u[8] = v[8]
    OBVIOUS
  <2>. HIDE DEF u, v, T
  <2>3. \A i \in 1..Len(u) : u[i] = v[i]
    BY <2>1, <2>2
  <2>. QED
    BY <2>1, <2>3, SeqEqual DEF u, v
<1>2. ASSUME NEW a, NEW b, NEW c, NEW d
      PROVE  <<a>> \o <<b, c, d>> = <<a, b, c, d>>
  <2>. DEFINE T == {a, b, c, d}
              u == <<a>> \o <<b, c, d>>
              v == <<a, b, c, d>>
  <2>1. u \in Seq(T) /\ v \in Seq(T) /\ Len(u) = 4 /\ Len(v) = 4
    OBVIOUS
  <2>2. u[1] = v[1] /\ u[2] = v[2] /\ u[3] = v[3] /\ u[4] = v[4]
    OBVIOUS
  <2>. HIDE DEF u, v, T
  <2>3. \A i \in 1..Len(u) : u[i] = v[i]
    BY <2>1, <2>2
  <2>. QED
    BY <2>1, <2>3, SeqEqual DEF u, v
<1>3. CallsOf(Event!StartGame) = <<Call("startGame"), ChangeStage("PREFLOP")>> \o PreflopCalls
  BY DEF CallsOf, Event!StartGame
<1>. QED
  BY <1>1, <1>2, <1>3 DEF StartCalls, PreflopCalls, PostflopCalls

-----------------------------------------------------------------------------
(* The variables of Atomic are other variables, its operators on tables    *)
(* the same.                                                               *)

\* AtomicOps: an operator of the instance on a table is the operator itself.
LEMMA AtomicOps ==
    /\ \A t, e : Atomic!HandlePlayerAction(t, e) = HandlePlayerAction(t, e)
    /\ \A t : Atomic!Context(t) = Context(t)
    /\ \A c, x : Atomic!ConsoleAccepts(c, x) <=> ConsoleAccepts(c, x)
    /\ \A t : Atomic!ActiveSeats(t) = ActiveSeats(t)
    /\ \A t : Atomic!AliveSeats(t) = AliveSeats(t)
    /\ \A t : Atomic!IsFlowEnded(t) <=> IsFlowEnded(t)
    /\ \A t : Atomic!MoveActingPlayer(t) = MoveActingPlayer(t)
    /\ \A t, s : Atomic!StartBettingRound(t, s) = StartBettingRound(t, s)
    /\ \A t : Atomic!PostBlinds(t) = PostBlinds(t)
    /\ \A s : Atomic!BoardSize(s) = BoardSize(s) /\ Atomic!NextStage(s) = NextStage(s)
    /\ \A t : Atomic!SplitPot(t) = SplitPot(t)
    /\ \A t, w : Atomic!DistributePot(t, w) = DistributePot(t, w)
    /\ \A S : Atomic!Cardinality(S) = Cardinality(S)
<1>1. \A t : Atomic!ActiveSeats(t) = ActiveSeats(t)
  BY SMT DEF Atomic!ActiveSeats, ActiveSeats, Atomic!Seat, Seat, Atomic!Cardinality,
      Cardinality
<1>2. \A t : Atomic!AliveSeats(t) = AliveSeats(t)
  BY SMT DEF Atomic!AliveSeats, AliveSeats, Atomic!AliveStates, AliveStates,
      Atomic!Seat, Seat, Atomic!Cardinality, Cardinality
<1>3. \A t : Atomic!IsFlowEnded(t) <=> IsFlowEnded(t)
  BY SMT DEF Atomic!IsFlowEnded, IsFlowEnded, Atomic!AliveSeats, AliveSeats,
      Atomic!AliveStates, AliveStates, Atomic!Seat, Seat, Atomic!Cardinality,
      Cardinality
<1>4. \A t : Atomic!MoveActingPlayer(t) = MoveActingPlayer(t)
  BY SMT DEF Atomic!MoveActingPlayer, MoveActingPlayer, Atomic!NextActiveSeat,
      NextActiveSeat, Atomic!IsNextActive, IsNextActive, Atomic!SeatAfter, SeatAfter,
      Atomic!Cardinality, Cardinality
<1>5. \A t, s : Atomic!StartBettingRound(t, s) = StartBettingRound(t, s)
  BY SMT DEF Atomic!StartBettingRound, StartBettingRound, Atomic!SetupToStart,
      SetupToStart, Atomic!SetupBetting, SetupBetting, Atomic!ActiveSeats, ActiveSeats,
      Atomic!NextActiveSeat, NextActiveSeat, Atomic!IsNextActive, IsNextActive,
      Atomic!Seat, Seat, Atomic!BtnSeat, BtnSeat, Atomic!SeatAfter, SeatAfter,
      Atomic!NextSeat, NextSeat, Atomic!SbSeat, SbSeat, Atomic!BbSeat, BbSeat,
      Atomic!UtgSeat, UtgSeat, Atomic!Cardinality, Cardinality
<1>6. \A t : Atomic!PostBlinds(t) = PostBlinds(t)
  BY SMT DEF Atomic!PostBlinds, PostBlinds, Atomic!PostBlind, PostBlind,
      Atomic!MoveChipsToPot, MoveChipsToPot, Atomic!SmallBlind, SmallBlind, Atomic!Seat,
      Seat, Atomic!BtnSeat, BtnSeat, Atomic!SeatAfter, SeatAfter, Atomic!NextSeat,
      NextSeat, Atomic!SbSeat, SbSeat, Atomic!BbSeat, BbSeat, Atomic!UtgSeat, UtgSeat,
      Atomic!Cardinality, Cardinality
<1>7. \A s : Atomic!BoardSize(s) = BoardSize(s) /\ Atomic!NextStage(s) = NextStage(s)
  BY SMT DEF Atomic!BoardSize, BoardSize, Atomic!NextStage, NextStage,
      Atomic!Cardinality, Cardinality
<1>8. \A t : Atomic!SplitPot(t) = SplitPot(t)
  BY SMT DEF Atomic!SplitPot, SplitPot, Atomic!LoadSidePots, LoadSidePots,
      Atomic!SidePot, SidePot, Atomic!PotLevels, PotLevels, Atomic!LevelBelow,
      LevelBelow, Atomic!PotContributors, PotContributors, Atomic!PlayingSeats,
      PlayingSeats, Atomic!PlayingStates, PlayingStates, Atomic!Seat, Seat, Atomic!Max,
      Max, Atomic!Cardinality, Cardinality
<1>9. \A t, w : Atomic!DistributePot(t, w) = DistributePot(t, w)
  BY SMT DEF Atomic!DistributePot, DistributePot, Atomic!Award, Award,
      Atomic!TotalAwarded, TotalAwarded, Atomic!OrderFromButton, OrderFromButton,
      Atomic!DistanceFromSeatLeft, DistanceFromSeatLeft, Atomic!Seat, Seat,
      Atomic!BtnSeat, BtnSeat, Atomic!SeatAfter, SeatAfter, Atomic!NextSeat, NextSeat,
      Atomic!SbSeat, SbSeat, Atomic!BbSeat, BbSeat, Atomic!UtgSeat, UtgSeat,
      Atomic!Cardinality, Cardinality
<1>10. \A S : Atomic!Cardinality(S) = Cardinality(S)
  BY SMT DEF Atomic!Cardinality, Cardinality
<1>11. \A t : Atomic!Context(t) = Context(t)
  BY SMT DEF Atomic!Context, Context, Atomic!CanPlayerRaise, CanPlayerRaise
<1>12. \A c, x : Atomic!ConsoleAccepts(c, x) <=> ConsoleAccepts(c, x)
  BY SMT DEF Atomic!ConsoleAccepts, ConsoleAccepts, Atomic!ConsoleDecides,
      ConsoleDecides, Atomic!MinRaise, MinRaise
<1>13. \A c, x : Atomic!ProcessBetting(c, x) = ProcessBetting(c, x)
  BY SMT DEF Atomic!ProcessBetting, ProcessBetting, Atomic!ChipsCommitted,
      ChipsCommitted, Atomic!MinRaise, MinRaise, Atomic!IsAllIn, IsAllIn,
      Atomic!IsChipsEnough, IsChipsEnough, Atomic!IsIncompleteCall, IsIncompleteCall,
      Atomic!IsCompleteCall, IsCompleteCall, Atomic!IsIncompleteRaise,
      IsIncompleteRaise, Atomic!IsCompleteRaise, IsCompleteRaise, Atomic!AllInAction,
      AllInAction, Atomic!GetAction, GetAction, Atomic!Greater, Greater
<1>14. \A t, a : Atomic!ApplyAction(t, a) = ApplyAction(t, a)
  BY SMT DEF Atomic!ApplyAction, ApplyAction, Atomic!ActiveSeats, ActiveSeats,
      Atomic!Raises, Raises, Atomic!AllIns, AllIns, Atomic!Seat, Seat,
      Atomic!Cardinality, Cardinality
<1>15. \A r : Atomic!IsValid(r) <=> IsValid(r)
  BY SMT DEF Atomic!IsValid, IsValid
<1>16. \A t, r : Atomic!PlaceBet(t, r) = PlaceBet(t, r)
  BY SMT, <1>14 DEF Atomic!PlaceBet, PlaceBet, Atomic!MoveChipsToPot, MoveChipsToPot
<1>17. \A t, e : Atomic!HandlePlayerAction(t, e) = HandlePlayerAction(t, e)
  BY SMT, <1>11, <1>13, <1>14, <1>15, <1>16 DEF Atomic!HandlePlayerAction, HandlePlayerAction
<1>. QED
  BY <1>1, <1>2, <1>3, <1>4, <1>5, <1>6, <1>7, <1>8, <1>9, <1>10, <1>11, <1>12, <1>17

-----------------------------------------------------------------------------
(* Where the program is.                                                   *)

\* What no call changes before splitPot, and what others change.
At(st, tb, cm, cd) ==
    /\ control = settled.control /\ player_count = settled.player_count
    /\ buy_in = settled.buy_in /\ pots = settled.pots /\ unpaid = settled.unpaid
    /\ declared = settled.declared
    /\ stage = st /\ table = tb /\ community = cm /\ cards_dealt = cd

Hidden == revealed = settled.revealed /\ hand_value = settled.hand_value

\* Nothing has changed since.
Steady ==
    At(settled.stage, settled.table, settled.community, settled.cards_dealt) /\ Hidden

\* In the handler of PlayerJoinRequest.
Joining(todo) ==
    /\ todo \in {<<Deliver("controller", Event!PlayerJoinRequest)>>, <<Call("joinNewPlayer")>>}
    /\ Steady

\* On the way to the handler of StartGame, and at its call k.
Starting(todo) ==
    todo = <<Deliver("controller", Event!StartGame)>> /\ Steady /\ control = "seated"

OpenedTable(k) ==
    LET t == StartBettingRound(settled.table, "PREFLOP")
    IN  CASE k \in 1..5 -> settled.table
          [] k = 6 -> t
          [] k = 7 -> PostBlind(t, SbSeat, SmallBlind)
          [] k = 8 -> PostBlinds(t)

Opening(todo, k) ==
    /\ todo = From(StartCalls, k)
    /\ At(IF k <= 2 THEN settled.stage ELSE "PREFLOP", OpenedTable(k), settled.community,
          IF k <= 3 THEN settled.cards_dealt ELSE IF k = 4 THEN 0 ELSE 2 * player_count)
    /\ Hidden /\ control = "seated"

\* On the way to the handler of the answer e, and in it.
Answer(e) == Event!PlayerAction(e.target_bet, e.is_fold)

Handling(todo, e) ==
    /\ todo \in {<<Deliver("controller", Answer(e))>>,
                 <<CallWith("handlePlayerAction", Answer(e)), Call("branch")>>}
    /\ Steady /\ control = "awaiting"

Answered(e) == HandlePlayerAction(settled.table, e)

Branching(todo, e) ==
    /\ todo = <<Call("branch")>>
    /\ At(settled.stage, Answered(e), settled.community, settled.cards_dealt)
    /\ Hidden /\ control = "awaiting"

\* The round goes on.
Continuing(todo, e, k) ==
    /\ ~IsFlowEnded(Answered(e))
    /\ todo = From(TurnCalls, k)
    /\ At(settled.stage, IF k = 1 THEN Answered(e) ELSE MoveActingPlayer(Answered(e)),
          settled.community, settled.cards_dealt)
    /\ Hidden /\ control = "awaiting"

\* The next street.
Ended(e) == IsFlowEnded(Answered(e)) /\ Cardinality(AliveSeats(Answered(e))) # 1

GoesOn(e) == Ended(e) /\ ~(Cardinality(ActiveSeats(Answered(e))) <= 1)

StreetOpening(todo, e, k) ==
    LET next == NextStage(settled.stage)
    IN  /\ GoesOn(e) /\ settled.stage # "RIVER"
        /\ todo = From(StreetCalls(settled.stage), k)
        /\ At(IF k = 1 THEN settled.stage ELSE next,
              IF k <= 3 THEN Answered(e) ELSE StartBettingRound(Answered(e), next),
              IF k <= 2 THEN settled.community ELSE BoardSize(next),
              IF k <= 2 THEN settled.cards_dealt
              ELSE settled.cards_dealt + (BoardSize(next) - settled.community))
        /\ Hidden /\ control = "awaiting"

\* The showdown, on the board there is or on one that is dealt first.
Contested(e) ==
    \/ IsFlowEnded(Answered(e)) /\ Cardinality(AliveSeats(Answered(e))) = 1
    \/ GoesOn(e) /\ settled.stage = "RIVER"

RunOut(e) == Ended(e) /\ Cardinality(ActiveSeats(Answered(e))) <= 1

ToShowdown(todo, e) ==
    /\ \/ Contested(e) /\ todo = <<ChangeStage("SHOWDOWN")>> \o ShowdownCalls
       \/ RunOut(e) /\ todo = <<ChangeStage("SHOWDOWN"), Call("dealCommunityCards")>> \o ShowdownCalls
    /\ At(settled.stage, Answered(e), settled.community, settled.cards_dealt)
    /\ Hidden /\ control = "awaiting"

RunningOut(todo, e) ==
    /\ RunOut(e) /\ todo = <<Call("dealCommunityCards")>> \o ShowdownCalls
    /\ At("SHOWDOWN", Answered(e), settled.community, settled.cards_dealt)
    /\ Hidden /\ control = "awaiting"

BoardDealt(e) ==
    \/ Contested(e) /\ community = settled.community /\ cards_dealt = settled.cards_dealt
    \/ /\ RunOut(e) /\ community = BoardSize("SHOWDOWN")
       /\ cards_dealt = settled.cards_dealt + (BoardSize("SHOWDOWN") - settled.community)

ShowingDown(todo, e, k) ==
    /\ BoardDealt(e)
    /\ todo = From(ShowdownCalls, k)
    /\ At(IF k <= 4 THEN "SHOWDOWN" ELSE "SETTLEMENT", Answered(e), community, cards_dealt)
    /\ control = "awaiting"
    /\ revealed = IF k <= 2 THEN settled.revealed ELSE ActiveSeats(Answered(e))
    /\ IF k <= 3 THEN hand_value = settled.hand_value
       ELSE hand_value \in [AliveSeats(Answered(e)) -> HandValue]

\* In distributePots, and after it.
Settling(todo) ==
    /\ \/ todo = <<Call("distributePots"), Call("finishGame")>>
       \/ todo = <<Call("finishGame")>> /\ unpaid = {}
    /\ Steady /\ control = "settling"

Resting(todo) == todo = << >> /\ Steady

Reached(A, todo) ==
    \/ Resting(todo) \/ Joining(todo) \/ Starting(todo) \/ Settling(todo)
    \/ \E k \in 1..8 : Opening(todo, k)
    \/ \E e \in A :
          \/ Handling(todo, e) \/ Branching(todo, e)
          \/ ToShowdown(todo, e) \/ RunningOut(todo, e)
          \/ \E k \in 1..2 : Continuing(todo, e, k)
          \/ \E k \in 1..4 : StreetOpening(todo, e, k)
          \/ \E k \in 1..5 : ShowingDown(todo, e, k)

\* A is what may be answered to the WaitingForAction that is out.
BusInv(A) ==
    \/ control = "trapped"
    \/ IsStack(stack) /\ \E todo : Laid(stack, todo) /\ Reached(A, todo)

\* A step comes to nothing, as far as Holdem sees, or to one of its own.
Atomically(A) ==
    \/ Atomic!PlayerJoinRequest \/ Atomic!StartGame \/ Atomic!Settle
    \/ \E e \in A : Atomic!PlayerAction(e)

Comes(A) ==
    \/ BusInv(A)' /\ settled' = settled
    \/ BusInv({})' /\ Atomically(A)

-----------------------------------------------------------------------------
(* The lists of calls.                                                     *)

IsList(calls, n) ==
    /\ \A k \in 1..n : /\ From(calls, k) # << >> /\ Head(From(calls, k)) = calls[k]
                       /\ Tail(From(calls, k)) = From(calls, k + 1)
    /\ From(calls, 1) = calls /\ From(calls, n + 1) = << >>

\* PairOfTwo: one call followed by another is a list of the two.
LEMMA PairOfTwo ==
    ASSUME NEW x, NEW y
    PROVE  <<x>> \o <<y>> = <<x, y>>
<1>. DEFINE W == {x, y}
            u == <<x>> \o <<y>>
            v == <<x, y>>
<1>1. /\ <<x>> \in Seq(W) /\ Len(<<x>>) = 1 /\ <<x>>[1] = x
      /\ <<y>> \in Seq(W) /\ Len(<<y>>) = 1 /\ <<y>>[1] = y
  OBVIOUS
<1>2. v \in Seq(W) /\ Len(v) = 2 /\ v[1] = x /\ v[2] = y
  OBVIOUS
<1>. HIDE DEF W
<1>3. u \in Seq(W) /\ Len(u) = 2 /\ u[1] = x /\ u[2] = y
  BY <1>1, ConcatProperties
<1>. HIDE DEF u, v
<1>4. \A i \in 1..Len(u) : u[i] = v[i]
  BY <1>2, <1>3
<1>. QED
  BY <1>2, <1>3, <1>4, SeqEqual DEF u, v

\* ListFromCalls: any sequence of calls is such a list.
LEMMA ListFromCalls ==
    ASSUME NEW T, NEW calls \in Seq(T), NEW n, Len(calls) = n
    PROVE  IsList(calls, n)
<1>1. \A k \in 1..n : /\ From(calls, k) # << >> /\ Head(From(calls, k)) = calls[k]
                      /\ Tail(From(calls, k)) = From(calls, k + 1)
  BY FromNext
<1>. QED
  BY <1>1, FromEnds DEF IsList

\* StartList: what is first, and what is left, at each call of handle(StartGame).
LEMMA StartList ==
    /\ IsList(StartCalls, 8)
    /\ StartCalls[1] = Call("startGame")
    /\ StartCalls[2] = ChangeStage("PREFLOP")
    /\ StartCalls[3] = Call("shuffleDeck")
    /\ StartCalls[4] = Call("dealHoleCards")
    /\ StartCalls[5] = Call("startBettingRound")
    /\ StartCalls[6] = Call("postSmallBlind")
    /\ StartCalls[7] = Call("postBigBlind")
    /\ StartCalls[8] = Call("awaitPlayerAction")
<1>. DEFINE T == {StartCalls[i] : i \in 1..8}
<1>1. StartCalls \in Seq(T) /\ Len(StartCalls) = 8
  BY DEF StartCalls
<1>2. /\ StartCalls[1] = Call("startGame")
      /\ StartCalls[2] = ChangeStage("PREFLOP")
      /\ StartCalls[3] = Call("shuffleDeck")
      /\ StartCalls[4] = Call("dealHoleCards")
      /\ StartCalls[5] = Call("startBettingRound")
      /\ StartCalls[6] = Call("postSmallBlind")
      /\ StartCalls[7] = Call("postBigBlind")
      /\ StartCalls[8] = Call("awaitPlayerAction")
  BY DEF StartCalls
<1>. HIDE DEF T
<1>3. IsList(StartCalls, 8)
  BY <1>1, ListFromCalls
<1>. QED
  BY <1>2, <1>3

\* TurnList: the same of the calls after an answer that leaves the round open.
LEMMA TurnList ==
    /\ IsList(TurnCalls, 2)
    /\ TurnCalls[1] = Call("moveActingPlayer")
    /\ TurnCalls[2] = Call("awaitPlayerAction")
<1>. DEFINE T == {TurnCalls[i] : i \in 1..2}
<1>1. TurnCalls \in Seq(T) /\ Len(TurnCalls) = 2
  BY DEF TurnCalls
<1>2. /\ TurnCalls[1] = Call("moveActingPlayer")
      /\ TurnCalls[2] = Call("awaitPlayerAction")
  BY DEF TurnCalls
<1>. HIDE DEF T
<1>3. IsList(TurnCalls, 2)
  BY <1>1, ListFromCalls
<1>. QED
  BY <1>2, <1>3

\* StreetList: the same of the calls that open a street.
LEMMA StreetList ==
    ASSUME NEW s
    PROVE  /\ IsList(StreetCalls(s), 4)
           /\ StreetCalls(s)[1] = ChangeStage(NextStage(s))
           /\ StreetCalls(s)[2] = Call("dealCommunityCards")
           /\ StreetCalls(s)[3] = Call("startBettingRound")
           /\ StreetCalls(s)[4] = Call("awaitPlayerAction")
<1>. DEFINE T == {StreetCalls(s)[i] : i \in 1..4}
<1>1. StreetCalls(s) \in Seq(T) /\ Len(StreetCalls(s)) = 4
  BY DEF StreetCalls
<1>2. /\ StreetCalls(s)[1] = ChangeStage(NextStage(s))
      /\ StreetCalls(s)[2] = Call("dealCommunityCards")
      /\ StreetCalls(s)[3] = Call("startBettingRound")
      /\ StreetCalls(s)[4] = Call("awaitPlayerAction")
  BY DEF StreetCalls
<1>. HIDE DEF T
<1>3. IsList(StreetCalls(s), 4)
  BY <1>1, ListFromCalls
<1>. QED
  BY <1>2, <1>3

\* ShowdownList: the same of the calls of the showdown.
LEMMA ShowdownList ==
    /\ IsList(ShowdownCalls, 7)
    /\ ShowdownCalls[1] = CallWith("setCurrentStage", "SHOWDOWN")
    /\ ShowdownCalls[2] = Call("revealAllHoleCards")
    /\ ShowdownCalls[3] = Call("comparePlayerHands")
    /\ ShowdownCalls[4] = CallWith("setCurrentStage", "SETTLEMENT")
    /\ ShowdownCalls[5] = Call("splitPot")
    /\ ShowdownCalls[6] = Call("distributePots")
    /\ ShowdownCalls[7] = Call("finishGame")
<1>. DEFINE T == {ShowdownCalls[i] : i \in 1..7}
<1>1. ShowdownCalls \in Seq(T) /\ Len(ShowdownCalls) = 7
  BY DEF ShowdownCalls
<1>2. /\ ShowdownCalls[1] = CallWith("setCurrentStage", "SHOWDOWN")
      /\ ShowdownCalls[2] = Call("revealAllHoleCards")
      /\ ShowdownCalls[3] = Call("comparePlayerHands")
      /\ ShowdownCalls[4] = CallWith("setCurrentStage", "SETTLEMENT")
      /\ ShowdownCalls[5] = Call("splitPot")
      /\ ShowdownCalls[6] = Call("distributePots")
      /\ ShowdownCalls[7] = Call("finishGame")
  BY DEF ShowdownCalls
<1>. HIDE DEF T
<1>3. IsList(ShowdownCalls, 7)
  BY <1>1, ListFromCalls
<1>. QED
  BY <1>2, <1>3

\* LastOfShowdown: what the settlement finds left to do.
LEMMA LastOfShowdown ==
    From(ShowdownCalls, 6) = <<Call("distributePots"), Call("finishGame")>>
<1>. DEFINE T == {ShowdownCalls[i] : i \in 1..7}
            u == From(ShowdownCalls, 6)
            v == <<Call("distributePots"), Call("finishGame")>>
<1>1. ShowdownCalls \in Seq(T) /\ Len(ShowdownCalls) = 7
  BY DEF ShowdownCalls
<1>2. ShowdownCalls[6] \in T /\ ShowdownCalls[7] \in T
  OBVIOUS
<1>. HIDE DEF T
<1>3. u \in Seq(T) /\ Len(u) = 2 /\ u[1] = ShowdownCalls[6] /\ u[2] = ShowdownCalls[7]
  <2>1. u = SubSeq(ShowdownCalls, 6, 7)
    BY <1>1 DEF From
  <2>2. SubSeq(ShowdownCalls, 6, 7) \in Seq(T) /\ Len(SubSeq(ShowdownCalls, 6, 7)) = 2
    <3>1. \A i \in 6..7 : ShowdownCalls[i] \in T
      BY <1>2
    <3>. QED
      BY <3>1, SubSeqProperties
  <2>3. /\ SubSeq(ShowdownCalls, 6, 7)[1] = ShowdownCalls[6]
        /\ SubSeq(ShowdownCalls, 6, 7)[2] = ShowdownCalls[7]
    BY <1>1, SubSeqProperties
  <2>. QED
    BY <2>1, <2>2, <2>3
<1>4. v \in Seq(T) /\ Len(v) = 2 /\ v[1] = ShowdownCalls[6] /\ v[2] = ShowdownCalls[7]
  BY <1>2, ShowdownList
<1>. HIDE DEF u, v
<1>5. \A i \in 1..Len(u) : u[i] = v[i]
  BY <1>3, <1>4
<1>. QED
  BY <1>3, <1>4, <1>5, SeqEqual DEF u, v

-----------------------------------------------------------------------------
(* What the calls do to the variables.                                     *)

Others == <<control, player_count, pots, unpaid, declared, buy_in>>

\* Effects: each call inside a step of Holdem changes what it says and nothing
\* else.
LEMMA Effects ==
    /\ StartGameCall =>
          UNCHANGED <<stage, table, community, cards_dealt, hand_value, revealed, settled>> /\ UNCHANGED Others
    /\ Branch =>
          UNCHANGED <<stage, table, community, cards_dealt, hand_value, revealed, settled>> /\ UNCHANGED Others
    /\ ControllerHandles =>
          UNCHANGED <<stage, table, community, cards_dealt, hand_value, revealed, settled>> /\ UNCHANGED Others
    /\ ChangeStageCall =>
          stage' = Task.arg /\ UNCHANGED <<table, community, cards_dealt, hand_value, revealed, settled>> /\ UNCHANGED Others
    /\ SetCurrentStageCall =>
          stage' = Task.arg /\ UNCHANGED <<table, community, cards_dealt, hand_value, revealed, settled>> /\ UNCHANGED Others
    /\ ShuffleDeck =>
          cards_dealt' = 0 /\ UNCHANGED <<stage, table, community, hand_value, revealed, settled>> /\ UNCHANGED Others
    /\ DealHoleCardsCall =>
          cards_dealt' = 2 * player_count /\ UNCHANGED <<stage, table, community, hand_value, revealed, settled>> /\ UNCHANGED Others
    /\ DealCommunityCardsCall =>
          community' = BoardSize(stage) /\ cards_dealt' = cards_dealt + (BoardSize(stage) - community) /\ UNCHANGED <<stage, table, hand_value, revealed, settled>> /\ UNCHANGED Others
    /\ StartBettingRoundCall =>
          table' = StartBettingRound(table, stage) /\ UNCHANGED <<stage, community, cards_dealt, hand_value, revealed, settled>> /\ UNCHANGED Others
    /\ PostSmallBlind =>
          table' = PostBlind(table, SbSeat, SmallBlind) /\ UNCHANGED <<stage, community, cards_dealt, hand_value, revealed, settled>> /\ UNCHANGED Others
    /\ PostBigBlind =>
          table' = PostBlind(table, BbSeat, BigBlind) /\ UNCHANGED <<stage, community, cards_dealt, hand_value, revealed, settled>> /\ UNCHANGED Others
    /\ MoveActingPlayerCall =>
          table' = MoveActingPlayer(table) /\ UNCHANGED <<stage, community, cards_dealt, hand_value, revealed, settled>> /\ UNCHANGED Others
    /\ HandlePlayerActionCall =>
          table' = HandlePlayerAction(table, Task.arg) /\ UNCHANGED <<stage, community, cards_dealt, hand_value, revealed, settled>> /\ UNCHANGED Others
    /\ RevealAllHoleCardsCall =>
          revealed' = ActiveSeats(table) /\ UNCHANGED <<stage, table, community, cards_dealt, hand_value, settled>> /\ UNCHANGED Others
<1>1. StartGameCall =>
       UNCHANGED <<stage, table, community, cards_dealt, hand_value, revealed, settled>> /\ UNCHANGED Others
  BY DEF StartGameCall, Others, vars, showdownVars
<1>2. Branch =>
       UNCHANGED <<stage, table, community, cards_dealt, hand_value, revealed, settled>> /\ UNCHANGED Others
  BY DEF Branch, Others, vars, showdownVars
<1>3. ControllerHandles =>
       UNCHANGED <<stage, table, community, cards_dealt, hand_value, revealed, settled>> /\ UNCHANGED Others
  BY DEF ControllerHandles, Others, vars, showdownVars
<1>4. ChangeStageCall =>
       stage' = Task.arg /\ UNCHANGED <<table, community, cards_dealt, hand_value, revealed, settled>> /\ UNCHANGED Others
  BY DEF ChangeStageCall, SetStage, Others, vars, showdownVars
<1>5. SetCurrentStageCall =>
       stage' = Task.arg /\ UNCHANGED <<table, community, cards_dealt, hand_value, revealed, settled>> /\ UNCHANGED Others
  BY DEF SetCurrentStageCall, SetStage, Others, vars, showdownVars
<1>6. ShuffleDeck =>
       cards_dealt' = 0 /\ UNCHANGED <<stage, table, community, hand_value, revealed, settled>> /\ UNCHANGED Others
  BY DEF ShuffleDeck, Others, vars, showdownVars
<1>7. DealHoleCardsCall =>
       cards_dealt' = 2 * player_count /\ UNCHANGED <<stage, table, community, hand_value, revealed, settled>> /\ UNCHANGED Others
  BY DEF DealHoleCardsCall, DealHoleCards, Others, vars, showdownVars
<1>8. DealCommunityCardsCall =>
       community' = BoardSize(stage) /\ cards_dealt' = cards_dealt + (BoardSize(stage) - community) /\ UNCHANGED <<stage, table, hand_value, revealed, settled>> /\ UNCHANGED Others
  BY DEF DealCommunityCardsCall, DealCommunityCards, Others, vars, showdownVars
<1>9. StartBettingRoundCall =>
       table' = StartBettingRound(table, stage) /\ UNCHANGED <<stage, community, cards_dealt, hand_value, revealed, settled>> /\ UNCHANGED Others
  BY DEF StartBettingRoundCall, TableCall, Others, vars, showdownVars
<1>10. PostSmallBlind =>
       table' = PostBlind(table, SbSeat, SmallBlind) /\ UNCHANGED <<stage, community, cards_dealt, hand_value, revealed, settled>> /\ UNCHANGED Others
  BY DEF PostSmallBlind, TableCall, Others, vars, showdownVars
<1>11. PostBigBlind =>
       table' = PostBlind(table, BbSeat, BigBlind) /\ UNCHANGED <<stage, community, cards_dealt, hand_value, revealed, settled>> /\ UNCHANGED Others
  BY DEF PostBigBlind, TableCall, Others, vars, showdownVars
<1>12. MoveActingPlayerCall =>
       table' = MoveActingPlayer(table) /\ UNCHANGED <<stage, community, cards_dealt, hand_value, revealed, settled>> /\ UNCHANGED Others
  BY DEF MoveActingPlayerCall, TableCall, Others, vars, showdownVars
<1>13. HandlePlayerActionCall =>
       table' = HandlePlayerAction(table, Task.arg) /\ UNCHANGED <<stage, community, cards_dealt, hand_value, revealed, settled>> /\ UNCHANGED Others
  BY DEF HandlePlayerActionCall, TableCall, Others, vars, showdownVars
<1>14. RevealAllHoleCardsCall =>
       revealed' = ActiveSeats(table) /\ UNCHANGED <<stage, table, community, cards_dealt, hand_value, settled>> /\ UNCHANGED Others
  BY DEF RevealAllHoleCardsCall, RevealAllHoleCards, Others, vars, showdownVars
<1>. QED
  BY <1>1, <1>2, <1>3, <1>4, <1>5, <1>6, <1>7, <1>8, <1>9, <1>10, <1>11, <1>12, <1>13, <1>14

-----------------------------------------------------------------------------
(* The steps, handler by handler.                                          *)

\* CallDone: a call leaves the rest of its handler to do.
LEMMA CallDone ==
    ASSUME NEW todo, Placed(todo), PlainCall, NEW rest, rest = Tail(todo)
    PROVE  IsStack(stack') /\ Laid(stack', rest)
BY PlainCallsEnter, EnteredLaid

\* CameBetween: a step that Holdem does not see.
LEMMA CameBetween ==
    ASSUME NEW A, IsStack(stack'), NEW rest, Laid(stack', rest), Reached(A, rest)',
           settled' = settled
    PROVE  Comes(A)
BY DEF Comes, BusInv

\* SettledNow: the fields of the record that is kept.
SettledNow ==
    /\ settled'.control = control' /\ settled'.stage = stage' /\ settled'.table = table'
    /\ settled'.player_count = player_count' /\ settled'.community = community'
    /\ settled'.cards_dealt = cards_dealt' /\ settled'.pots = pots'
    /\ settled'.unpaid = unpaid' /\ settled'.hand_value = hand_value'
    /\ settled'.revealed = revealed' /\ settled'.declared = declared'
    /\ settled'.buy_in = buy_in'

\* CameToRest: a step of Holdem after which nothing is left to do.
LEMMA CameToRest ==
    ASSUME NEW A, IsStack(stack'), Laid(stack', << >>), SettledNow, Atomically(A)
    PROVE  Comes(A)
<1>1. Steady'
  BY DEF Steady, At, Hidden, SettledNow
<1>2. Reached({}, << >>)'
  BY <1>1 DEF Reached, Resting
<1>. QED
  BY <1>2 DEF Comes, BusInv

\* AwaitEffect: the other changes that are Holdem's.
LEMMA AwaitEffect ==
    AwaitPlayerAction =>
        /\ control' = "awaiting" /\ SettledNow
        /\ UNCHANGED <<stage, player_count, table, community, cards_dealt, pots, unpaid,
                       hand_value, revealed, declared, buy_in>>
<1>. SUFFICES ASSUME AwaitPlayerAction
              PROVE  /\ control' = "awaiting" /\ SettledNow
                     /\ UNCHANGED <<stage, player_count, table, community, cards_dealt, pots, unpaid,
                                    hand_value, revealed, declared, buy_in>>
  OBVIOUS
<1>1. settled' = Now' /\ control' = "awaiting"
      /\ UNCHANGED <<stage, player_count, table, community, cards_dealt, showdownVars, buy_in>>
  BY DEF AwaitPlayerAction, HoldemStepEnds
<1>. QED
  BY <1>1 DEF SettledNow, Now, showdownVars

\* OpeningSteps: from startGame to the first WaitingForAction is StartGame.
LEMMA OpeningSteps ==
    ASSUME NEW A, NEW todo, NEW k \in 1..8, Placed(todo), BusStep, Opening(todo, k)
    PROVE  Comes(A)
<1>1. todo = From(StartCalls, k) /\ IsList(StartCalls, 8)
  BY StartList DEF Opening
<1>2. /\ Head(todo) = StartCalls[k] /\ Tail(todo) = From(StartCalls, k + 1)
      /\ Task = Head(todo)
  BY <1>1 DEF IsList, Placed, Task
<1>3. From(StartCalls, 9) = << >>
  BY <1>1 DEF IsList
<1>4. CASE k = 1
  <2>1. Head(todo).do = "call" /\ Head(todo).op = "startGame"
    BY <1>2, <1>4, StartList DEF Call
  <2>2. StartGameCall
    BY <2>1, TaskDecides
  <2>3. Tail(todo) = From(StartCalls, 2)
    BY <1>2, <1>4
  <2>4. IsStack(stack') /\ Laid(stack', From(StartCalls, 2))
    BY <2>2, <2>3, CallDone DEF PlainCall
  <2>5. Opening(From(StartCalls, 2), 2)' /\ settled' = settled
    <3>1. UNCHANGED <<stage, table, community, cards_dealt, hand_value, revealed, settled>>
          /\ UNCHANGED Others
      BY <2>2, Effects
    <3>2. At(settled.stage, settled.table, settled.community, settled.cards_dealt) /\ Hidden /\ control = "seated"
      BY <1>4 DEF Opening, OpenedTable
    <3>3. At(settled.stage, settled.table, settled.community, settled.cards_dealt)'
          /\ Hidden' /\ control' = "seated"
      BY <3>1, <3>2 DEF At, Hidden, Others
    <3>4. Opening(From(StartCalls, 2), 2)'
      BY <3>3 DEF Opening, OpenedTable
    <3>. QED
      BY <3>1, <3>4
  <2>6. Reached(A, From(StartCalls, 2))'
    BY <2>5 DEF Reached
  <2>. QED
    BY <2>4, <2>5, <2>6, CameBetween
<1>5. CASE k = 2
  <2>1. Head(todo).do = "call" /\ Head(todo).op = "changeStage" /\ Head(todo).arg = "PREFLOP"
    BY <1>2, <1>5, StartList DEF Call, ChangeStage, CallWith
  <2>2. ChangeStageCall
    BY <2>1, TaskDecides
  <2>3. Tail(todo) = From(StartCalls, 3)
    BY <1>2, <1>5
  <2>4. IsStack(stack') /\ Laid(stack', From(StartCalls, 3))
    BY <2>2, <2>3, CallDone DEF PlainCall
  <2>5. Opening(From(StartCalls, 3), 3)' /\ settled' = settled
    <3>1. stage' = "PREFLOP" /\ UNCHANGED <<table, community, cards_dealt, hand_value, revealed, settled>>
          /\ UNCHANGED Others
      BY <1>2, <2>1, <2>2, Effects
    <3>2. At(settled.stage, settled.table, settled.community, settled.cards_dealt) /\ Hidden /\ control = "seated"
      BY <1>5 DEF Opening, OpenedTable
    <3>3. At("PREFLOP", settled.table, settled.community, settled.cards_dealt)'
          /\ Hidden' /\ control' = "seated"
      BY <3>1, <3>2 DEF At, Hidden, Others
    <3>4. Opening(From(StartCalls, 3), 3)'
      BY <3>3 DEF Opening, OpenedTable
    <3>. QED
      BY <3>1, <3>4
  <2>6. Reached(A, From(StartCalls, 3))'
    BY <2>5 DEF Reached
  <2>. QED
    BY <2>4, <2>5, <2>6, CameBetween
<1>6. CASE k = 3
  <2>1. Head(todo).do = "call" /\ Head(todo).op = "shuffleDeck"
    BY <1>2, <1>6, StartList DEF Call
  <2>2. ShuffleDeck
    BY <2>1, TaskDecides
  <2>3. Tail(todo) = From(StartCalls, 4)
    BY <1>2, <1>6
  <2>4. IsStack(stack') /\ Laid(stack', From(StartCalls, 4))
    BY <2>2, <2>3, CallDone DEF PlainCall
  <2>5. Opening(From(StartCalls, 4), 4)' /\ settled' = settled
    <3>1. cards_dealt' = 0 /\ UNCHANGED <<stage, table, community, hand_value, revealed, settled>>
          /\ UNCHANGED Others
      BY <2>2, Effects
    <3>2. At("PREFLOP", settled.table, settled.community, settled.cards_dealt) /\ Hidden /\ control = "seated"
      BY <1>6 DEF Opening, OpenedTable
    <3>3. At("PREFLOP", settled.table, settled.community, 0)'
          /\ Hidden' /\ control' = "seated"
      BY <3>1, <3>2 DEF At, Hidden, Others
    <3>4. Opening(From(StartCalls, 4), 4)'
      BY <3>3 DEF Opening, OpenedTable
    <3>. QED
      BY <3>1, <3>4
  <2>6. Reached(A, From(StartCalls, 4))'
    BY <2>5 DEF Reached
  <2>. QED
    BY <2>4, <2>5, <2>6, CameBetween
<1>7. CASE k = 4
  <2>1. Head(todo).do = "call" /\ Head(todo).op = "dealHoleCards"
    BY <1>2, <1>7, StartList DEF Call
  <2>2. DealHoleCardsCall
    BY <2>1, TaskDecides
  <2>3. Tail(todo) = From(StartCalls, 5)
    BY <1>2, <1>7
  <2>4. IsStack(stack') /\ Laid(stack', From(StartCalls, 5))
    BY <2>2, <2>3, CallDone DEF PlainCall
  <2>5. Opening(From(StartCalls, 5), 5)' /\ settled' = settled
    <3>1. cards_dealt' = 2 * player_count /\ UNCHANGED <<stage, table, community, hand_value, revealed, settled>>
          /\ UNCHANGED Others
      BY <2>2, Effects
    <3>2. At("PREFLOP", settled.table, settled.community, 0) /\ Hidden /\ control = "seated"
      BY <1>7 DEF Opening, OpenedTable
    <3>3. At("PREFLOP", settled.table, settled.community, 2 * player_count)'
          /\ Hidden' /\ control' = "seated"
      BY <3>1, <3>2 DEF At, Hidden, Others
    <3>4. Opening(From(StartCalls, 5), 5)'
      BY <3>3 DEF Opening, OpenedTable
    <3>. QED
      BY <3>1, <3>4
  <2>6. Reached(A, From(StartCalls, 5))'
    BY <2>5 DEF Reached
  <2>. QED
    BY <2>4, <2>5, <2>6, CameBetween
<1>8. CASE k = 5
  <2>1. Head(todo).do = "call" /\ Head(todo).op = "startBettingRound"
    BY <1>2, <1>8, StartList DEF Call
  <2>2. StartBettingRoundCall
    BY <2>1, TaskDecides
  <2>3. Tail(todo) = From(StartCalls, 6)
    BY <1>2, <1>8
  <2>4. IsStack(stack') /\ Laid(stack', From(StartCalls, 6))
    BY <2>2, <2>3, CallDone DEF PlainCall
  <2>5. Opening(From(StartCalls, 6), 6)' /\ settled' = settled
    <3>1. table' = StartBettingRound(table, stage) /\ UNCHANGED <<stage, community, cards_dealt, hand_value, revealed, settled>>
          /\ UNCHANGED Others
      BY <2>2, Effects
    <3>2. At("PREFLOP", settled.table, settled.community, 2 * player_count) /\ Hidden /\ control = "seated"
      BY <1>8 DEF Opening, OpenedTable
    <3>3. At("PREFLOP", StartBettingRound(settled.table, "PREFLOP"), settled.community, 2 * player_count)'
          /\ Hidden' /\ control' = "seated"
      BY <3>1, <3>2 DEF At, Hidden, Others
    <3>4. Opening(From(StartCalls, 6), 6)'
      BY <3>3 DEF Opening, OpenedTable
    <3>. QED
      BY <3>1, <3>4
  <2>6. Reached(A, From(StartCalls, 6))'
    BY <2>5 DEF Reached
  <2>. QED
    BY <2>4, <2>5, <2>6, CameBetween
<1>9. CASE k = 6
  <2>1. Head(todo).do = "call" /\ Head(todo).op = "postSmallBlind"
    BY <1>2, <1>9, StartList DEF Call
  <2>2. PostSmallBlind
    BY <2>1, TaskDecides
  <2>3. Tail(todo) = From(StartCalls, 7)
    BY <1>2, <1>9
  <2>4. IsStack(stack') /\ Laid(stack', From(StartCalls, 7))
    BY <2>2, <2>3, CallDone DEF PlainCall
  <2>5. Opening(From(StartCalls, 7), 7)' /\ settled' = settled
    <3>1. table' = PostBlind(table, SbSeat, SmallBlind) /\ UNCHANGED <<stage, community, cards_dealt, hand_value, revealed, settled>>
          /\ UNCHANGED Others
      BY <2>2, Effects
    <3>2. At("PREFLOP", StartBettingRound(settled.table, "PREFLOP"), settled.community, 2 * player_count) /\ Hidden /\ control = "seated"
      BY <1>9 DEF Opening, OpenedTable
    <3>3. At("PREFLOP", PostBlind(StartBettingRound(settled.table, "PREFLOP"), SbSeat, SmallBlind), settled.community, 2 * player_count)'
          /\ Hidden' /\ control' = "seated"
      BY <3>1, <3>2 DEF At, Hidden, Others
    <3>4. Opening(From(StartCalls, 7), 7)'
      BY <3>3 DEF Opening, OpenedTable
    <3>. QED
      BY <3>1, <3>4
  <2>6. Reached(A, From(StartCalls, 7))'
    BY <2>5 DEF Reached
  <2>. QED
    BY <2>4, <2>5, <2>6, CameBetween
<1>10. CASE k = 7
  <2>1. Head(todo).do = "call" /\ Head(todo).op = "postBigBlind"
    BY <1>2, <1>10, StartList DEF Call
  <2>2. PostBigBlind
    BY <2>1, TaskDecides
  <2>3. Tail(todo) = From(StartCalls, 8)
    BY <1>2, <1>10
  <2>4. IsStack(stack') /\ Laid(stack', From(StartCalls, 8))
    BY <2>2, <2>3, CallDone DEF PlainCall
  <2>5. Opening(From(StartCalls, 8), 8)' /\ settled' = settled
    <3>1. table' = PostBlind(table, BbSeat, BigBlind) /\ UNCHANGED <<stage, community, cards_dealt, hand_value, revealed, settled>>
          /\ UNCHANGED Others
      BY <2>2, Effects
    <3>2. At("PREFLOP", PostBlind(StartBettingRound(settled.table, "PREFLOP"), SbSeat, SmallBlind), settled.community, 2 * player_count) /\ Hidden /\ control = "seated"
      BY <1>10 DEF Opening, OpenedTable
    <3>3. At("PREFLOP", PostBlinds(StartBettingRound(settled.table, "PREFLOP")), settled.community, 2 * player_count)'
          /\ Hidden' /\ control' = "seated"
      BY <3>1, <3>2 DEF At, Hidden, Others, PostBlinds
    <3>4. Opening(From(StartCalls, 8), 8)'
      BY <3>3 DEF Opening, OpenedTable
    <3>. QED
      BY <3>1, <3>4
  <2>6. Reached(A, From(StartCalls, 8))'
    BY <2>5 DEF Reached
  <2>. QED
    BY <2>4, <2>5, <2>6, CameBetween
<1>11. CASE k = 8
  <2>1. Head(todo).do = "call" /\ Head(todo).op = "awaitPlayerAction"
    BY <1>2, <1>11, StartList DEF Call
  <2>2. AwaitPlayerAction
    BY <2>1, TaskDecides
  <2>3. IsStack(stack') /\ Laid(stack', << >>)
    BY <1>2, <1>3, <1>11, <2>2, CallDone DEF PlainCall
  <2>4. /\ settled.control = "seated" /\ stage = "PREFLOP" /\ cards_dealt = 2 * player_count
        /\ table = PostBlinds(StartBettingRound(settled.table, "PREFLOP"))
        /\ player_count = settled.player_count /\ community = settled.community
        /\ pots = settled.pots /\ unpaid = settled.unpaid /\ declared = settled.declared
        /\ hand_value = settled.hand_value /\ revealed = settled.revealed
        /\ buy_in = settled.buy_in
    BY <1>11 DEF Opening, OpenedTable, At, Hidden
  <2>5. Atomic!StartGame
    BY <2>2, <2>4, AwaitEffect, AtomicOps
    DEF Atomic!StartGame, Atomic!DealHoleCards, Atomic!showdownVars, SettledNow
  <2>. QED
    BY <2>2, <2>3, <2>5, AwaitEffect, CameToRest DEF Atomically
<1>. QED
  BY <1>4, <1>5, <1>6, <1>7, <1>8, <1>9, <1>10, <1>11

\* ContinuingSteps: from moveActingPlayer to the next WaitingForAction is
\* ContinueRound.
LEMMA ContinuingSteps ==
    ASSUME NEW A, NEW todo, NEW e \in A, NEW k \in 1..2, Placed(todo), BusStep,
           Continuing(todo, e, k)
    PROVE  Comes(A)
<1>1. todo = From(TurnCalls, k) /\ IsList(TurnCalls, 2) /\ ~IsFlowEnded(Answered(e))
  BY TurnList DEF Continuing
<1>2. /\ Head(todo) = TurnCalls[k] /\ Tail(todo) = From(TurnCalls, k + 1)
      /\ Task = Head(todo)
  BY <1>1 DEF IsList, Placed, Task
<1>3. From(TurnCalls, 3) = << >>
  BY <1>1 DEF IsList
<1>4. CASE k = 1
  <2>1. Head(todo).do = "call" /\ Head(todo).op = "moveActingPlayer"
    BY <1>2, <1>4, TurnList DEF Call
  <2>2. MoveActingPlayerCall
    BY <2>1, TaskDecides
  <2>3. Tail(todo) = From(TurnCalls, 2)
    BY <1>2, <1>4
  <2>4. IsStack(stack') /\ Laid(stack', From(TurnCalls, 2))
    BY <2>2, <2>3, CallDone DEF PlainCall
  <2>5. Continuing(From(TurnCalls, 2), e, 2)' /\ settled' = settled
    <3>1. table' = MoveActingPlayer(table) /\ UNCHANGED <<stage, community, cards_dealt, hand_value, revealed, settled>>
          /\ UNCHANGED Others
      BY <2>2, Effects
    <3>2. At(settled.stage, Answered(e), settled.community, settled.cards_dealt) /\ Hidden /\ control = "awaiting"
      BY <1>4 DEF Continuing
    <3>3. At(settled.stage, MoveActingPlayer(Answered(e)), settled.community, settled.cards_dealt)'
          /\ Hidden' /\ control' = "awaiting"
      BY <3>1, <3>2 DEF At, Hidden, Others, Answered
    <3>4. (~IsFlowEnded(Answered(e)))'
      BY <3>1 DEF Continuing, Answered
    <3>5. Continuing(From(TurnCalls, 2), e, 2)'
      BY <3>1, <3>3, <3>4 DEF Continuing
    <3>. QED
      BY <3>1, <3>5
  <2>6. Reached(A, From(TurnCalls, 2))'
    BY <2>5 DEF Reached
  <2>. QED
    BY <2>4, <2>5, <2>6, CameBetween
<1>5. CASE k = 2
  <2>1. Head(todo).do = "call" /\ Head(todo).op = "awaitPlayerAction"
    BY <1>2, <1>5, TurnList DEF Call
  <2>2. AwaitPlayerAction
    BY <2>1, TaskDecides
  <2>3. IsStack(stack') /\ Laid(stack', << >>)
    BY <1>2, <1>3, <1>5, <2>2, CallDone DEF PlainCall
  <2>4. /\ settled.control = "awaiting" /\ control = "awaiting" /\ stage = settled.stage
        /\ cards_dealt = settled.cards_dealt
        /\ table = MoveActingPlayer(HandlePlayerAction(settled.table, e))
        /\ player_count = settled.player_count /\ community = settled.community
        /\ pots = settled.pots /\ unpaid = settled.unpaid /\ declared = settled.declared
        /\ hand_value = settled.hand_value /\ revealed = settled.revealed
        /\ buy_in = settled.buy_in
    BY <1>5 DEF Continuing, Answered, At, Hidden
  <2>5. Atomic!ContinueRound(HandlePlayerAction(settled.table, e))
    <3>1. ~Atomic!IsFlowEnded(HandlePlayerAction(settled.table, e))
      BY <1>1, AtomicOps DEF Answered
    <3>. QED
      BY <2>2, <2>4, <3>1, AwaitEffect, AtomicOps
      DEF Atomic!ContinueRound, Atomic!showdownVars, SettledNow
  <2>6. Atomic!PlayerAction(e)
    BY <2>4, <2>5, AtomicOps DEF Atomic!PlayerAction
  <2>. QED
    BY <2>2, <2>3, <2>6, AwaitEffect, CameToRest DEF Atomically
<1>. QED
  BY <1>4, <1>5

\* StreetSteps: from advanceStage to the next WaitingForAction is NextStreet.
LEMMA StreetSteps ==
    ASSUME NEW A, NEW todo, NEW e \in A, NEW k \in 1..4, Placed(todo), BusStep,
           StreetOpening(todo, e, k)
    PROVE  Comes(A)
<1>0. PICK calls : calls = StreetCalls(settled.stage)
  OBVIOUS
<1>1. todo = From(calls, k) /\ IsList(calls, 4) /\ GoesOn(e) /\ settled.stage # "RIVER"
  BY <1>0, StreetList DEF StreetOpening
<1>2. /\ Head(todo) = calls[k] /\ Tail(todo) = From(calls, k + 1)
      /\ Task = Head(todo)
  BY <1>1 DEF IsList, Placed, Task
<1>3. From(calls, 5) = << >>
  BY <1>1 DEF IsList
<1>8. /\ calls[1] = ChangeStage(NextStage(settled.stage))
      /\ calls[2] = Call("dealCommunityCards")
      /\ calls[3] = Call("startBettingRound")
      /\ calls[4] = Call("awaitPlayerAction")
  BY <1>0, StreetList
<1>4. CASE k = 1
  <2>1. Head(todo).do = "call" /\ Head(todo).op = "changeStage" /\ Head(todo).arg = NextStage(settled.stage)
    BY <1>2, <1>4, <1>8 DEF Call, ChangeStage, CallWith
  <2>2. ChangeStageCall
    BY <2>1, TaskDecides
  <2>3. Tail(todo) = From(calls, 2)
    BY <1>2, <1>4
  <2>4. IsStack(stack') /\ Laid(stack', From(calls, 2))
    BY <2>2, <2>3, CallDone DEF PlainCall
  <2>5. StreetOpening(From(calls, 2), e, 2)' /\ settled' = settled
    <3>1. stage' = NextStage(settled.stage) /\ UNCHANGED <<table, community, cards_dealt, hand_value, revealed, settled>>
          /\ UNCHANGED Others
      BY <1>2, <2>1, <2>2, Effects
    <3>2. At(settled.stage, Answered(e), settled.community, settled.cards_dealt) /\ Hidden /\ control = "awaiting"
      BY <1>4 DEF StreetOpening
    <3>3. At(NextStage(settled.stage), Answered(e), settled.community, settled.cards_dealt)'
          /\ Hidden' /\ control' = "awaiting"
      BY <3>1, <3>2 DEF At, Hidden, Others, Answered
    <3>4. (GoesOn(e) /\ settled.stage # "RIVER")'
      BY <3>1 DEF StreetOpening, GoesOn, Ended, Answered
    <3>5. StreetOpening(From(calls, 2), e, 2)'
      BY <1>0, <3>1, <3>3, <3>4 DEF StreetOpening
    <3>. QED
      BY <3>1, <3>5
  <2>6. Reached(A, From(calls, 2))'
    BY <2>5 DEF Reached
  <2>. QED
    BY <2>4, <2>5, <2>6, CameBetween
<1>5. CASE k = 2
  <2>1. Head(todo).do = "call" /\ Head(todo).op = "dealCommunityCards"
    BY <1>2, <1>5, <1>8 DEF Call
  <2>2. DealCommunityCardsCall
    BY <2>1, TaskDecides
  <2>3. Tail(todo) = From(calls, 3)
    BY <1>2, <1>5
  <2>4. IsStack(stack') /\ Laid(stack', From(calls, 3))
    BY <2>2, <2>3, CallDone DEF PlainCall
  <2>5. StreetOpening(From(calls, 3), e, 3)' /\ settled' = settled
    <3>1. community' = BoardSize(stage) /\ cards_dealt' = cards_dealt + (BoardSize(stage) - community) /\ UNCHANGED <<stage, table, hand_value, revealed, settled>>
          /\ UNCHANGED Others
      BY <2>2, Effects
    <3>2. At(NextStage(settled.stage), Answered(e), settled.community, settled.cards_dealt) /\ Hidden /\ control = "awaiting"
      BY <1>5 DEF StreetOpening
    <3>3. At(NextStage(settled.stage), Answered(e), BoardSize(NextStage(settled.stage)), settled.cards_dealt + (BoardSize(NextStage(settled.stage)) - settled.community))'
          /\ Hidden' /\ control' = "awaiting"
      BY <3>1, <3>2 DEF At, Hidden, Others, Answered
    <3>4. (GoesOn(e) /\ settled.stage # "RIVER")'
      BY <3>1 DEF StreetOpening, GoesOn, Ended, Answered
    <3>5. StreetOpening(From(calls, 3), e, 3)'
      BY <1>0, <3>1, <3>3, <3>4 DEF StreetOpening
    <3>. QED
      BY <3>1, <3>5
  <2>6. Reached(A, From(calls, 3))'
    BY <2>5 DEF Reached
  <2>. QED
    BY <2>4, <2>5, <2>6, CameBetween
<1>6. CASE k = 3
  <2>1. Head(todo).do = "call" /\ Head(todo).op = "startBettingRound"
    BY <1>2, <1>6, <1>8 DEF Call
  <2>2. StartBettingRoundCall
    BY <2>1, TaskDecides
  <2>3. Tail(todo) = From(calls, 4)
    BY <1>2, <1>6
  <2>4. IsStack(stack') /\ Laid(stack', From(calls, 4))
    BY <2>2, <2>3, CallDone DEF PlainCall
  <2>5. StreetOpening(From(calls, 4), e, 4)' /\ settled' = settled
    <3>1. table' = StartBettingRound(table, stage) /\ UNCHANGED <<stage, community, cards_dealt, hand_value, revealed, settled>>
          /\ UNCHANGED Others
      BY <2>2, Effects
    <3>2. At(NextStage(settled.stage), Answered(e), BoardSize(NextStage(settled.stage)), settled.cards_dealt + (BoardSize(NextStage(settled.stage)) - settled.community)) /\ Hidden /\ control = "awaiting"
      BY <1>6 DEF StreetOpening
    <3>3. At(NextStage(settled.stage), StartBettingRound(Answered(e), NextStage(settled.stage)), BoardSize(NextStage(settled.stage)), settled.cards_dealt + (BoardSize(NextStage(settled.stage)) - settled.community))'
          /\ Hidden' /\ control' = "awaiting"
      BY <3>1, <3>2 DEF At, Hidden, Others, Answered
    <3>4. (GoesOn(e) /\ settled.stage # "RIVER")'
      BY <3>1 DEF StreetOpening, GoesOn, Ended, Answered
    <3>5. StreetOpening(From(calls, 4), e, 4)'
      BY <1>0, <3>1, <3>3, <3>4 DEF StreetOpening
    <3>. QED
      BY <3>1, <3>5
  <2>6. Reached(A, From(calls, 4))'
    BY <2>5 DEF Reached
  <2>. QED
    BY <2>4, <2>5, <2>6, CameBetween
<1>7. CASE k = 4
  <2>1. Head(todo).do = "call" /\ Head(todo).op = "awaitPlayerAction"
    BY <1>2, <1>7, <1>8 DEF Call
  <2>2. AwaitPlayerAction
    BY <2>1, TaskDecides
  <2>3. IsStack(stack') /\ Laid(stack', << >>)
    BY <1>2, <1>3, <1>7, <2>2, CallDone DEF PlainCall
  <2>. DEFINE t == HandlePlayerAction(settled.table, e)
              next == NextStage(settled.stage)
  <2>4. /\ settled.control = "awaiting" /\ control = "awaiting" /\ stage = next
        /\ cards_dealt = settled.cards_dealt + (BoardSize(next) - settled.community)
        /\ table = StartBettingRound(t, next)
        /\ player_count = settled.player_count /\ community = BoardSize(next)
        /\ pots = settled.pots /\ unpaid = settled.unpaid /\ declared = settled.declared
        /\ hand_value = settled.hand_value /\ revealed = settled.revealed
        /\ buy_in = settled.buy_in
    BY <1>7 DEF StreetOpening, Answered, At, Hidden
  <2>. HIDE DEF t, next
  <2>5. Atomic!StreetsOpen(t)
    <3>1. IsFlowEnded(t) /\ Cardinality(AliveSeats(t)) # 1 /\ ~(Cardinality(ActiveSeats(t)) <= 1)
      BY <1>1 DEF GoesOn, Ended, Answered, t
    <3>2. Cardinality(ActiveSeats(t)) \in Nat
      BY SeatArithmetic, FS_Subset, FS_CardinalityType DEF ActiveSeats
    <3>. QED
      BY <3>1, <3>2, AtomicOps DEF Atomic!StreetsOpen
  <2>6. Atomic!NextStreet(t)
    <3>1. Atomic!NextStage(settled.stage) = next
      BY AtomicOps DEF next
    <3>. QED
      BY <1>1, <2>2, <2>4, <2>5, <3>1, AwaitEffect, AtomicOps
      DEF Atomic!NextStreet, Atomic!DealCommunityCards, Atomic!showdownVars, SettledNow
  <2>7. Atomic!PlayerAction(e)
    BY <2>4, <2>6, AtomicOps DEF Atomic!PlayerAction, t
  <2>. QED
    BY <2>2, <2>3, <2>7, AwaitEffect, CameToRest DEF Atomically
<1>. QED
  BY <1>4, <1>5, <1>6, <1>7

\* RequestHandled: the controller is called by the last task there is.
LEMMA RequestHandled ==
    ASSUME NEW e, NEW todo, todo = <<Deliver("controller", e)>>, Placed(todo), BusStep,
           NEW U, NEW calls \in Seq(U), calls # << >>, CallsOf(e) = calls
    PROVE  /\ ControllerHandles
           /\ IsStack(stack') /\ Laid(stack', calls)
<1>1. Head(todo).do = "deliver" /\ Head(todo).event = e /\ Tail(todo) = << >>
  BY DEF Deliver
<1>2. ControllerHandles
  BY <1>1, TaskDecides
<1>3. /\ stack' = Entered(stack, calls)
      /\ IsStack(stack) /\ stack # << >> /\ Head(stack) = todo /\ todo # << >>
      /\ Finished(Tail(stack))
  BY <1>1, <1>2 DEF ControllerHandles, Enter, Entered, Placed, Running, Top, Task
<1>4. IsStack(stack') /\ (Tail(Head(stack)) = << >> /\ calls # << >> => Laid(stack', calls))
  BY <1>3, LaidEntered
<1>. QED
  BY <1>1, <1>2, <1>3, <1>4

\* JoiningSteps: a request to join is PlayerJoinRequest.
LEMMA JoiningSteps ==
    ASSUME NEW A, NEW todo, Placed(todo), BusStep, Joining(todo)
    PROVE  Comes(A)
<1>. DEFINE calls == <<Call("joinNewPlayer")>>
            e == Event!PlayerJoinRequest
<1>1. CASE todo = <<Deliver("controller", e)>>
  <2>1. calls \in Seq({Call("joinNewPlayer")}) /\ calls # << >>
    OBVIOUS
  <2>2. CallsOf(e) = calls
    BY DEF CallsOf, Event!PlayerJoinRequest
  <2>. HIDE DEF e, calls
  <2>3. ControllerHandles /\ IsStack(stack') /\ Laid(stack', calls)
    BY <1>1, <2>1, <2>2, RequestHandled
  <2>4. /\ UNCHANGED <<stage, table, community, cards_dealt, hand_value, revealed, settled>>
        /\ UNCHANGED Others
    BY <2>3, Effects
  <2>5. Steady'
    <3>1. Steady
      BY DEF Joining
    <3>. QED
      BY <2>4, <3>1 DEF Steady, At, Hidden, Others
  <2>6. Reached(A, calls)'
    BY <2>5 DEF Reached, Joining, calls
  <2>. QED
    BY <2>3, <2>4, <2>6, CameBetween
<1>2. CASE todo = calls
  <2>1. Head(todo).do = "call" /\ Head(todo).op = "joinNewPlayer" /\ Tail(todo) = << >>
    BY <1>2 DEF Call
  <2>2. JoinNewPlayer
    BY <2>1, TaskDecides
  <2>3. IsStack(stack') /\ Laid(stack', << >>)
    BY <2>1, <2>2, CallDone DEF PlainCall
  <2>4. PlayerJoinRequest /\ SettledNow
    BY <2>2 DEF JoinNewPlayer, HoldemStepEnds, SettledNow, Now
  <2>5. Atomic!PlayerJoinRequest
    <3>1. Steady
      BY DEF Joining
    <3>. QED
      BY <2>4, <3>1
      DEF Atomic!PlayerJoinRequest, Atomic!showdownVars, PlayerJoinRequest, showdownVars,
          SettledNow, Steady, At, Hidden
  <2>. QED
    BY <2>3, <2>4, <2>5, CameToRest DEF Atomically
<1>. QED
  BY <1>1, <1>2 DEF Joining

\* StartingSteps: the handler of StartGame is entered.
LEMMA StartingSteps ==
    ASSUME NEW A, NEW todo, Placed(todo), BusStep, Starting(todo)
    PROVE  Comes(A)
<1>. DEFINE T == {StartCalls[i] : i \in 1..8}
<1>1. StartCalls \in Seq(T) /\ StartCalls # << >>
  BY DEF StartCalls
<1>2. CallsOf(Event!StartGame) = StartCalls
  BY HandlersCalls
<1>. HIDE DEF T
<1>3. ControllerHandles /\ IsStack(stack') /\ Laid(stack', StartCalls)
  BY <1>1, <1>2, RequestHandled DEF Starting
<1>4. /\ UNCHANGED <<stage, table, community, cards_dealt, hand_value, revealed, settled>>
      /\ UNCHANGED Others
  BY <1>3, Effects
<1>5. Opening(StartCalls, 1)'
  <2>1. At(settled.stage, settled.table, settled.community, settled.cards_dealt) /\ Hidden /\ control = "seated"
    BY DEF Starting, Steady
  <2>2. At(settled.stage, settled.table, settled.community, settled.cards_dealt)'
        /\ Hidden' /\ control' = "seated"
    BY <1>4, <2>1 DEF At, Hidden, Others
  <2>3. From(StartCalls, 1) = StartCalls
    BY StartList DEF IsList
  <2>. QED
    BY <2>2, <2>3 DEF Opening, OpenedTable
<1>6. Reached(A, StartCalls)'
  BY <1>5 DEF Reached
<1>. QED
  BY <1>3, <1>4, <1>6, CameBetween

\* HandlingSteps: the handler of an answer is entered, and handlePlayerAction
\* called.
LEMMA HandlingSteps ==
    ASSUME NEW A, NEW todo, NEW e \in A, Placed(todo), BusStep, Handling(todo, e)
    PROVE  Comes(A)
<1>. DEFINE first == CallWith("handlePlayerAction", Answer(e))
            calls == <<first, Call("branch")>>
<1>0. At(settled.stage, settled.table, settled.community, settled.cards_dealt) /\ Hidden /\ control = "awaiting"
  BY DEF Handling, Steady
<1>1. CASE todo = <<Deliver("controller", Answer(e))>>
  <2>1. calls \in Seq({first, Call("branch")}) /\ calls # << >>
    OBVIOUS
  <2>2. CallsOf(Answer(e)) = calls
    BY DEF CallsOf, Answer, Event!PlayerAction
  <2>. HIDE DEF calls
  <2>3. ControllerHandles /\ IsStack(stack') /\ Laid(stack', calls)
    BY <1>1, <2>1, <2>2, RequestHandled
  <2>4. /\ UNCHANGED <<stage, table, community, cards_dealt, hand_value, revealed, settled>>
        /\ UNCHANGED Others
    BY <2>3, Effects
  <2>5. At(settled.stage, settled.table, settled.community, settled.cards_dealt)'
        /\ Hidden' /\ control' = "awaiting"
    BY <1>0, <2>4 DEF At, Hidden, Others
  <2>6. Handling(calls, e)'
    BY <2>5 DEF Handling, Steady, calls, Answer, Event!PlayerAction
  <2>7. Reached(A, calls)'
    BY <2>6 DEF Reached
  <2>. QED
    BY <2>3, <2>4, <2>7, CameBetween
<1>2. CASE todo = calls
  <2>1. Head(todo).do = "call" /\ Head(todo).op = "handlePlayerAction" /\ Head(todo).arg = Answer(e)
        /\ Tail(todo) = <<Call("branch")>> /\ Task = Head(todo)
    BY <1>2 DEF CallWith, Placed, Task
  <2>2. HandlePlayerActionCall
    BY <2>1, TaskDecides
  <2>3. IsStack(stack') /\ Laid(stack', <<Call("branch")>>)
    BY <2>1, <2>2, CallDone DEF PlainCall
  <2>4. table' = HandlePlayerAction(table, Answer(e))
        /\ UNCHANGED <<stage, community, cards_dealt, hand_value, revealed, settled>>
        /\ UNCHANGED Others
    BY <2>1, <2>2, Effects
  <2>5. \A t : HandlePlayerAction(t, Answer(e)) = HandlePlayerAction(t, e)
    BY DEF HandlePlayerAction, Answer, Event!PlayerAction
  <2>6. At(settled.stage, Answered(e), settled.community, settled.cards_dealt)'
        /\ Hidden' /\ control' = "awaiting"
    BY <1>0, <2>4, <2>5 DEF At, Hidden, Others, Answered
  <2>7. Branching(<<Call("branch")>>, e)'
    BY <2>6 DEF Branching
  <2>8. Reached(A, <<Call("branch")>>)'
    BY <2>7 DEF Reached
  <2>. QED
    BY <2>3, <2>4, <2>8, CameBetween
<1>. QED
  BY <1>1, <1>2 DEF Handling

\* BranchDone: the rest of the handler takes the place of the branch.
LEMMA BranchDone ==
    ASSUME Placed(<<Call("branch")>>), BusStep,
           NEW U, NEW calls \in Seq(U), CallsAfterAction = calls
    PROVE  /\ Branch
           /\ IsStack(stack') /\ Laid(stack', calls)
<1>. DEFINE todo == <<Call("branch")>>
<1>1. Head(todo).do = "call" /\ Head(todo).op = "branch" /\ Tail(todo) = << >>
  BY DEF Call
<1>. HIDE DEF todo
<1>2. Placed(todo)
  BY DEF todo
<1>3. Branch
  BY <1>1, <1>2, TaskDecides
<1>4. stack' = <<calls \o Tail(todo)>> \o Tail(stack)
  BY <1>2, <1>3 DEF Branch, Become, Placed
<1>5. calls \o Tail(todo) = calls
  BY <1>1, ConcatEmptySeq
<1>6. IsStack(stack) /\ stack # << >> /\ Finished(Tail(stack))
  BY <1>2 DEF Placed, Running
<1>7. stack' = <<calls>> \o Tail(stack)
  BY <1>4, <1>5
<1>8. IsStack(stack') /\ Laid(stack', calls)
  BY <1>6, <1>7, LaidBecome
<1>. QED
  BY <1>3, <1>8

\* BranchingSteps: what is left to do after an answer.
LEMMA BranchingSteps ==
    ASSUME NEW A, NEW todo, NEW e \in A, Placed(todo), BusStep, Branching(todo, e)
    PROVE  Comes(A)
<1>0. /\ At(settled.stage, Answered(e), settled.community, settled.cards_dealt)
      /\ Hidden /\ control = "awaiting" /\ todo = <<Call("branch")>>
  BY DEF Branching
<1>1. table = Answered(e) /\ stage = settled.stage
  BY <1>0 DEF At
<1>. DEFINE T == {ShowdownCalls[i] : i \in 1..7}
<1>2. ShowdownCalls \in Seq(T)
  BY DEF ShowdownCalls
<1>. HIDE DEF T
<1>3. \A x : <<x>> \o ShowdownCalls \in Seq({x} \cup T)
  <2>. TAKE x
  <2>1. <<x>> \in Seq({x} \cup T) /\ ShowdownCalls \in Seq({x} \cup T)
    BY <1>2, WiderStack
  <2>. QED
    BY <2>1
<1>4. \A x, y : <<x, y>> \o ShowdownCalls \in Seq({x, y} \cup T)
  <2>. TAKE x, y
  <2>1. <<x, y>> \in Seq({x, y} \cup T) /\ ShowdownCalls \in Seq({x, y} \cup T)
    BY <1>2, WiderStack
  <2>. QED
    BY <2>1
<1>5. ASSUME NEW U, NEW calls \in Seq(U), CallsAfterAction = calls,
             At(settled.stage, Answered(e), settled.community, settled.cards_dealt)'
                 /\ Hidden' /\ control' = "awaiting" /\ settled' = settled => Reached(A, calls)'
      PROVE  Comes(A)
  <2>1. Branch /\ IsStack(stack') /\ Laid(stack', calls)
    BY <1>0, <1>5, BranchDone
  <2>2. /\ UNCHANGED <<stage, table, community, cards_dealt, hand_value, revealed, settled>>
        /\ UNCHANGED Others
    BY <2>1, Effects
  <2>3. At(settled.stage, Answered(e), settled.community, settled.cards_dealt)'
        /\ Hidden' /\ control' = "awaiting"
    BY <1>0, <2>2 DEF At, Hidden, Others, Answered
  <2>. QED
    BY <1>5, <2>1, <2>2, <2>3, CameBetween
<1>6. CASE ~IsFlowEnded(Answered(e))
  <2>1. CallsAfterAction = TurnCalls
    BY <1>1, <1>6 DEF CallsAfterAction, TurnCalls
  <2>2. TurnCalls \in Seq({TurnCalls[1], TurnCalls[2]})
    BY DEF TurnCalls
  <2>3. ASSUME At(settled.stage, Answered(e), settled.community, settled.cards_dealt)',
               Hidden', control' = "awaiting", settled' = settled
        PROVE  Reached(A, TurnCalls)'
    <3>1. ~IsFlowEnded(Answered(e))'
      BY <1>6, <2>3 DEF Answered
    <3>2. TurnCalls = From(TurnCalls, 1)
      BY TurnList DEF IsList
    <3>3. Continuing(TurnCalls, e, 1)'
      BY <2>3, <3>1, <3>2 DEF Continuing
    <3>. QED
      BY <3>3 DEF Reached
  <2>. QED
    BY <1>5, <2>1, <2>2, <2>3
<1>7. CASE IsFlowEnded(Answered(e)) /\ Cardinality(AliveSeats(Answered(e))) = 1
  <2>. DEFINE calls == <<ChangeStage("SHOWDOWN")>> \o ShowdownCalls
  <2>1. CallsAfterAction = calls
    BY <1>1, <1>7 DEF CallsAfterAction
  <2>2. calls \in Seq({ChangeStage("SHOWDOWN")} \cup T)
    BY <1>3
  <2>3. ASSUME At(settled.stage, Answered(e), settled.community, settled.cards_dealt)',
               Hidden', control' = "awaiting", settled' = settled
        PROVE  Reached(A, calls)'
    <3>1. Contested(e)'
      BY <1>7, <2>3 DEF Contested, Answered
    <3>2. ToShowdown(calls, e)'
      BY <2>3, <3>1 DEF ToShowdown
    <3>. HIDE DEF calls
    <3>. QED
      BY <3>2 DEF Reached
  <2>. HIDE DEF calls
  <2>. QED
    BY <1>5, <2>1, <2>2, <2>3
<1>8. CASE RunOut(e)
  <2>. DEFINE calls == <<ChangeStage("SHOWDOWN"), Call("dealCommunityCards")>> \o ShowdownCalls
  <2>1. CallsAfterAction = calls
    BY <1>1, <1>8 DEF CallsAfterAction, RunOut, Ended
  <2>2. calls \in Seq({ChangeStage("SHOWDOWN"), Call("dealCommunityCards")} \cup T)
    BY <1>4
  <2>3. ASSUME At(settled.stage, Answered(e), settled.community, settled.cards_dealt)',
               Hidden', control' = "awaiting", settled' = settled
        PROVE  Reached(A, calls)'
    <3>1. RunOut(e)'
      BY <1>8, <2>3 DEF RunOut, Ended, Answered
    <3>2. ToShowdown(calls, e)'
      BY <2>3, <3>1 DEF ToShowdown
    <3>. HIDE DEF calls
    <3>. QED
      BY <3>2 DEF Reached
  <2>. HIDE DEF calls
  <2>. QED
    BY <1>5, <2>1, <2>2, <2>3
<1>9. CASE GoesOn(e) /\ settled.stage = "RIVER"
  <2>. DEFINE calls == <<ChangeStage("SHOWDOWN")>> \o ShowdownCalls
  <2>1. CallsAfterAction = calls
    BY <1>1, <1>9 DEF CallsAfterAction, GoesOn, Ended
  <2>2. calls \in Seq({ChangeStage("SHOWDOWN")} \cup T)
    BY <1>3
  <2>3. ASSUME At(settled.stage, Answered(e), settled.community, settled.cards_dealt)',
               Hidden', control' = "awaiting", settled' = settled
        PROVE  Reached(A, calls)'
    <3>1. Contested(e)'
      BY <1>9, <2>3 DEF Contested, GoesOn, Ended, Answered
    <3>2. ToShowdown(calls, e)'
      BY <2>3, <3>1 DEF ToShowdown
    <3>. HIDE DEF calls
    <3>. QED
      BY <3>2 DEF Reached
  <2>. HIDE DEF calls
  <2>. QED
    BY <1>5, <2>1, <2>2, <2>3
<1>10. CASE GoesOn(e) /\ settled.stage # "RIVER"
  <2>1. PICK calls : calls = StreetCalls(settled.stage)
    OBVIOUS
  <2>2. CallsAfterAction = calls
    <3>1. CallsAfterAction = <<ChangeStage(NextStage(stage))>> \o PostflopCalls
      BY <1>1, <1>10 DEF CallsAfterAction, GoesOn, Ended
    <3>. QED
      BY <1>1, <2>1, <3>1, HandlersCalls DEF StreetCalls
  <2>3. calls \in Seq({calls[1], calls[2], calls[3], calls[4]})
    BY <2>1 DEF StreetCalls
  <2>4. ASSUME At(settled.stage, Answered(e), settled.community, settled.cards_dealt)',
               Hidden', control' = "awaiting", settled' = settled
        PROVE  Reached(A, calls)'
    <3>1. (GoesOn(e) /\ settled.stage # "RIVER")'
      BY <1>10, <2>4 DEF GoesOn, Ended, Answered
    <3>2. From(calls, 1) = calls
      BY <2>1, StreetList DEF IsList
    <3>3. StreetOpening(calls, e, 1)'
      BY <2>1, <2>4, <3>1, <3>2 DEF StreetOpening
    <3>. QED
      BY <3>3 DEF Reached
  <2>. QED
    BY <1>5, <2>2, <2>3, <2>4
<1>. QED
  BY <1>6, <1>7, <1>8, <1>9, <1>10 DEF RunOut, GoesOn, Ended

\* BeforeShowdown: the calls of the showdown, and what may come before them.
LEMMA BeforeShowdown ==
    /\ From(ShowdownCalls, 1) = ShowdownCalls
    /\ \A x : Head(<<x>> \o ShowdownCalls) = x /\ Tail(<<x>> \o ShowdownCalls) = ShowdownCalls
    /\ \A x, y : /\ Head(<<x, y>> \o ShowdownCalls) = x
                 /\ Tail(<<x, y>> \o ShowdownCalls) = <<y>> \o ShowdownCalls
<1>. DEFINE T == {ShowdownCalls[i] : i \in 1..7}
<1>1. ShowdownCalls \in Seq(T)
  BY DEF ShowdownCalls
<1>2. From(ShowdownCalls, 1) = ShowdownCalls
  BY ShowdownList DEF IsList
<1>. HIDE DEF T
<1>3. ASSUME NEW x
      PROVE  Head(<<x>> \o ShowdownCalls) = x /\ Tail(<<x>> \o ShowdownCalls) = ShowdownCalls
  <2>1. x \in {x} \cup T /\ ShowdownCalls \in Seq({x} \cup T)
    BY <1>1, WiderStack
  <2>. QED
    BY <2>1, Pushed
<1>4. ASSUME NEW x, NEW y
      PROVE  /\ Head(<<x, y>> \o ShowdownCalls) = x
             /\ Tail(<<x, y>> \o ShowdownCalls) = <<y>> \o ShowdownCalls
  <2>. DEFINE W == {x, y} \cup T
              rest == <<y>> \o ShowdownCalls
  <2>1. x \in W /\ <<x>> \in Seq(W) /\ <<y>> \in Seq(W) /\ ShowdownCalls \in Seq(W)
    BY <1>1, WiderStack
  <2>. HIDE DEF W
  <2>2. rest \in Seq(W)
    BY <2>1
  <2>3. (<<x>> \o <<y>>) \o ShowdownCalls = <<x>> \o rest
    BY <2>1, ConcatAssociative
  <2>4. <<x>> \o <<y>> = <<x, y>>
    BY PairOfTwo
  <2>. HIDE DEF rest
  <2>5. Head(<<x>> \o rest) = x /\ Tail(<<x>> \o rest) = rest
    BY <2>1, <2>2, Pushed
  <2>. QED
    BY <2>3, <2>4, <2>5 DEF rest
<1>. QED
  BY <1>2, <1>3, <1>4

\* ToShowdownSteps: the stage changes, and the rest of the board is dealt.
LEMMA ToShowdownSteps ==
    ASSUME NEW A, NEW todo, NEW e \in A, Placed(todo), BusStep,
           ToShowdown(todo, e) \/ RunningOut(todo, e)
    PROVE  Comes(A)
<1>. DEFINE change == ChangeStage("SHOWDOWN")
            deal == Call("dealCommunityCards")
<1>2. From(ShowdownCalls, 1) = ShowdownCalls
  BY BeforeShowdown
<1>3. \A x : Head(<<x>> \o ShowdownCalls) = x /\ Tail(<<x>> \o ShowdownCalls) = ShowdownCalls
  BY BeforeShowdown
<1>4. \A x, y : /\ Head(<<x, y>> \o ShowdownCalls) = x
                /\ Tail(<<x, y>> \o ShowdownCalls) = <<y>> \o ShowdownCalls
  BY BeforeShowdown
<1>5. CASE Contested(e) /\ todo = <<change>> \o ShowdownCalls /\ ToShowdown(todo, e)
  <2>1. Head(todo) = change /\ Tail(todo) = ShowdownCalls /\ Task = Head(todo)
    BY <1>3, <1>5 DEF Placed, Task
  <2>2. Head(todo).do = "call" /\ Head(todo).op = "changeStage" /\ Task.arg = "SHOWDOWN"
    BY <2>1 DEF ChangeStage, CallWith
  <2>3. ChangeStageCall
    BY <2>2, TaskDecides
  <2>4. IsStack(stack') /\ Laid(stack', ShowdownCalls)
    BY <2>1, <2>3, CallDone DEF PlainCall
  <2>5. stage' = "SHOWDOWN" /\ UNCHANGED <<table, community, cards_dealt, hand_value, revealed, settled>>
        /\ UNCHANGED Others
    BY <2>2, <2>3, Effects
  <2>6. At(settled.stage, Answered(e), settled.community, settled.cards_dealt) /\ Hidden /\ control = "awaiting"
    BY <1>5 DEF ToShowdown
  <2>7. At("SHOWDOWN", Answered(e), community, cards_dealt)' /\ Hidden' /\ control' = "awaiting"
        /\ (community = settled.community /\ cards_dealt = settled.cards_dealt)'
    BY <2>5, <2>6 DEF At, Hidden, Others, Answered
  <2>8. Contested(e)'
    BY <1>5, <2>5 DEF Contested, GoesOn, Ended, Answered
  <2>9. ShowingDown(ShowdownCalls, e, 1)'
    BY <1>2, <2>7, <2>8 DEF ShowingDown, BoardDealt, Hidden
  <2>10. Reached(A, ShowdownCalls)'
    BY <2>9 DEF Reached
  <2>. QED
    BY <2>4, <2>5, <2>10, CameBetween
<1>6. CASE RunOut(e) /\ todo = <<change, deal>> \o ShowdownCalls /\ ToShowdown(todo, e)
  <2>. DEFINE rest == <<deal>> \o ShowdownCalls
  <2>1. Head(todo) = change /\ Tail(todo) = rest /\ Task = Head(todo)
    BY <1>4, <1>6 DEF Placed, Task
  <2>2. Head(todo).do = "call" /\ Head(todo).op = "changeStage" /\ Task.arg = "SHOWDOWN"
    BY <2>1 DEF ChangeStage, CallWith
  <2>3. ChangeStageCall
    BY <2>2, TaskDecides
  <2>. HIDE DEF rest
  <2>4. IsStack(stack') /\ Laid(stack', rest)
    BY <2>1, <2>3, CallDone DEF PlainCall
  <2>5. stage' = "SHOWDOWN" /\ UNCHANGED <<table, community, cards_dealt, hand_value, revealed, settled>>
        /\ UNCHANGED Others
    BY <2>2, <2>3, Effects
  <2>6. At(settled.stage, Answered(e), settled.community, settled.cards_dealt) /\ Hidden /\ control = "awaiting"
    BY <1>6 DEF ToShowdown
  <2>7. At("SHOWDOWN", Answered(e), settled.community, settled.cards_dealt)' /\ Hidden' /\ control' = "awaiting"
    BY <2>5, <2>6 DEF At, Hidden, Others, Answered
  <2>8. RunOut(e)'
    BY <1>6, <2>5 DEF RunOut, Ended, Answered
  <2>9. RunningOut(rest, e)'
    BY <2>7, <2>8 DEF RunningOut, rest
  <2>10. Reached(A, rest)'
    BY <2>9 DEF Reached
  <2>. QED
    BY <2>4, <2>5, <2>10, CameBetween
<1>7. CASE RunningOut(todo, e)
  <2>1. Head(todo) = deal /\ Tail(todo) = ShowdownCalls /\ Task = Head(todo)
    BY <1>3, <1>7 DEF Placed, Task, RunningOut
  <2>2. Head(todo).do = "call" /\ Head(todo).op = "dealCommunityCards"
    BY <2>1 DEF Call
  <2>3. DealCommunityCardsCall
    BY <2>2, TaskDecides
  <2>4. IsStack(stack') /\ Laid(stack', ShowdownCalls)
    BY <2>1, <2>3, CallDone DEF PlainCall
  <2>5. /\ community' = BoardSize(stage) /\ cards_dealt' = cards_dealt + (BoardSize(stage) - community)
        /\ UNCHANGED <<stage, table, hand_value, revealed, settled>> /\ UNCHANGED Others
    BY <2>3, Effects
  <2>6. At("SHOWDOWN", Answered(e), settled.community, settled.cards_dealt) /\ Hidden /\ control = "awaiting"
        /\ RunOut(e)
    BY <1>7 DEF RunningOut
  <2>7. At("SHOWDOWN", Answered(e), community, cards_dealt)' /\ Hidden' /\ control' = "awaiting"
        /\ (community = BoardSize("SHOWDOWN")
            /\ cards_dealt = settled.cards_dealt + (BoardSize("SHOWDOWN") - settled.community))'
    BY <2>5, <2>6 DEF At, Hidden, Others, Answered
  <2>8. RunOut(e)'
    BY <2>5, <2>6 DEF RunOut, Ended, Answered
  <2>9. ShowingDown(ShowdownCalls, e, 1)'
    BY <1>2, <2>7, <2>8 DEF ShowingDown, BoardDealt, Hidden
  <2>10. Reached(A, ShowdownCalls)'
    BY <2>9 DEF Reached
  <2>. QED
    BY <2>4, <2>5, <2>10, CameBetween
<1>. QED
  BY <1>5, <1>6, <1>7 DEF ToShowdown

\* ShowdownIsOneStep: which of Holdem's steps a showdown is.
LEMMA ShowdownIsOneStep ==
    ASSUME NEW e, NEW board, settled.control = "awaiting",
           \/ Contested(e) /\ board = settled.community /\ settled'.cards_dealt = settled.cards_dealt
           \/ /\ RunOut(e) /\ board = BoardSize("SHOWDOWN")
              /\ settled'.cards_dealt = settled.cards_dealt + (BoardSize("SHOWDOWN") - settled.community),
           settled'.community = board,
           Atomic!ProcessShowdownStage(Answered(e), board)
    PROVE  Atomic!PlayerAction(e)
<1>. DEFINE t == HandlePlayerAction(settled.table, e)
<1>1. Answered(e) = t /\ Atomic!ProcessShowdownStage(t, board)
  BY DEF Answered
<1>. HIDE DEF t
<1>2. CASE RunOut(e) /\ board = BoardSize("SHOWDOWN")
           /\ settled'.cards_dealt = settled.cards_dealt + (BoardSize("SHOWDOWN") - settled.community)
  <2>1. IsFlowEnded(t) /\ Cardinality(AliveSeats(t)) # 1 /\ Cardinality(ActiveSeats(t)) <= 1
    BY <1>1, <1>2 DEF RunOut, Ended
  <2>2. Atomic!RunOutBoard(t)
    BY <1>1, <1>2, <2>1, AtomicOps DEF Atomic!RunOutBoard, Atomic!DealCommunityCards
  <2>. QED
    BY <2>2, AtomicOps DEF Atomic!PlayerAction, t
<1>3. CASE /\ IsFlowEnded(t) /\ Cardinality(AliveSeats(t)) = 1
           /\ board = settled.community /\ settled'.cards_dealt = settled.cards_dealt
  <2>1. Atomic!AwardUncontested(t)
    BY <1>1, <1>3, AtomicOps DEF Atomic!AwardUncontested
  <2>. QED
    BY <2>1, AtomicOps DEF Atomic!PlayerAction, t
<1>4. CASE /\ GoesOn(e) /\ settled.stage = "RIVER"
           /\ board = settled.community /\ settled'.cards_dealt = settled.cards_dealt
  <2>1. IsFlowEnded(t) /\ Cardinality(AliveSeats(t)) # 1 /\ ~(Cardinality(ActiveSeats(t)) <= 1)
    BY <1>1, <1>4 DEF GoesOn, Ended
  <2>2. Cardinality(ActiveSeats(t)) \in Nat
    BY SeatArithmetic, FS_Subset, FS_CardinalityType DEF ActiveSeats
  <2>3. Atomic!RiverShowdown(t)
    BY <1>1, <1>4, <2>1, <2>2, AtomicOps DEF Atomic!RiverShowdown, Atomic!StreetsOpen
  <2>. QED
    BY <2>3, AtomicOps DEF Atomic!PlayerAction, t
<1>. QED
  BY <1>1, <1>2, <1>3, <1>4 DEF Contested

\* ShowingDownSteps: from the second changeStage to splitPot is the rest of the
\* same step, unless comparing the hands is the end of the process.
LEMMA ShowingDownSteps ==
    ASSUME NEW A, NEW todo, NEW e \in A, NEW k \in 1..5, Placed(todo), BusStep,
           ShowingDown(todo, e, k)
    PROVE  Comes(A)
<1>1. todo = From(ShowdownCalls, k) /\ IsList(ShowdownCalls, 7)
  BY ShowdownList DEF ShowingDown
<1>2. /\ Head(todo) = ShowdownCalls[k] /\ Tail(todo) = From(ShowdownCalls, k + 1)
      /\ Task = Head(todo)
  <2>1. k \in 1..7
    OBVIOUS
  <2>2. Head(todo) = ShowdownCalls[k] /\ Tail(todo) = From(ShowdownCalls, k + 1)
    BY <1>1, <2>1 DEF IsList
  <2>. QED
    BY <2>2 DEF Placed, Task
<1>3. CASE k = 1
  <2>1. Head(todo).do = "call" /\ Head(todo).op = "setCurrentStage" /\ Head(todo).arg = "SHOWDOWN"
    BY <1>2, <1>3, ShowdownList DEF Call, CallWith
  <2>2. SetCurrentStageCall
    BY <2>1, TaskDecides
  <2>3. Tail(todo) = From(ShowdownCalls, 2)
    BY <1>2, <1>3
  <2>4. IsStack(stack') /\ Laid(stack', From(ShowdownCalls, 2))
    BY <2>2, <2>3, CallDone DEF PlainCall
  <2>5. ShowingDown(From(ShowdownCalls, 2), e, 2)' /\ settled' = settled
    <3>1. stage' = "SHOWDOWN" /\ UNCHANGED <<table, community, cards_dealt, hand_value, revealed, settled>>
          /\ UNCHANGED Others
      BY <1>2, <2>1, <2>2, Effects
    <3>2. At("SHOWDOWN", Answered(e), community, cards_dealt) /\ BoardDealt(e) /\ control = "awaiting"
          /\ (revealed = settled.revealed /\ hand_value = settled.hand_value)
      BY <1>3 DEF ShowingDown
    <3>3. BoardDealt(e)'
      BY <3>1, <3>2 DEF BoardDealt, Contested, RunOut, GoesOn, Ended, Answered
    <3>4. At("SHOWDOWN", Answered(e), community, cards_dealt)' /\ BoardDealt(e)' /\ control' = "awaiting"
          /\ (revealed = settled.revealed /\ hand_value = settled.hand_value)'
      BY <3>1, <3>2, <3>3 DEF At, Others, Answered
    <3>5. ShowingDown(From(ShowdownCalls, 2), e, 2)'
      BY <3>4 DEF ShowingDown
    <3>. QED
      BY <3>1, <3>5
  <2>6. Reached(A, From(ShowdownCalls, 2))'
    BY <2>5 DEF Reached
  <2>. QED
    BY <2>4, <2>5, <2>6, CameBetween
<1>4. CASE k = 2
  <2>1. Head(todo).do = "call" /\ Head(todo).op = "revealAllHoleCards"
    BY <1>2, <1>4, ShowdownList DEF Call
  <2>2. RevealAllHoleCardsCall
    BY <2>1, TaskDecides
  <2>3. Tail(todo) = From(ShowdownCalls, 3)
    BY <1>2, <1>4
  <2>4. IsStack(stack') /\ Laid(stack', From(ShowdownCalls, 3))
    BY <2>2, <2>3, CallDone DEF PlainCall
  <2>5. ShowingDown(From(ShowdownCalls, 3), e, 3)' /\ settled' = settled
    <3>1. revealed' = ActiveSeats(table)
          /\ UNCHANGED <<stage, table, community, cards_dealt, hand_value, settled>> /\ UNCHANGED Others
      BY <2>2, Effects
    <3>2. At("SHOWDOWN", Answered(e), community, cards_dealt) /\ BoardDealt(e) /\ control = "awaiting"
          /\ (revealed = settled.revealed /\ hand_value = settled.hand_value)
      BY <1>4 DEF ShowingDown
    <3>3. BoardDealt(e)'
      BY <3>1, <3>2 DEF BoardDealt, Contested, RunOut, GoesOn, Ended, Answered
    <3>4. At("SHOWDOWN", Answered(e), community, cards_dealt)' /\ BoardDealt(e)' /\ control' = "awaiting"
          /\ (revealed = ActiveSeats(Answered(e)) /\ hand_value = settled.hand_value)'
      BY <3>1, <3>2, <3>3 DEF At, Others, Answered
    <3>5. ShowingDown(From(ShowdownCalls, 3), e, 3)'
      BY <3>4 DEF ShowingDown
    <3>. QED
      BY <3>1, <3>5
  <2>6. Reached(A, From(ShowdownCalls, 3))'
    BY <2>5 DEF Reached
  <2>. QED
    BY <2>4, <2>5, <2>6, CameBetween
<1>5. CASE k = 3
  <2>1. Head(todo).do = "call" /\ Head(todo).op = "comparePlayerHands"
    BY <1>2, <1>5, ShowdownList DEF Call
  <2>2. ComparePlayerHandsCall
    BY <2>1, TaskDecides
  <2>3. Tail(todo) = From(ShowdownCalls, 4)
    BY <1>2, <1>5
  <2>4. IsStack(stack') /\ Laid(stack', From(ShowdownCalls, 4))
    BY <2>2, <2>3, CallDone DEF PlainCall
  <2>5. At("SHOWDOWN", Answered(e), community, cards_dealt) /\ BoardDealt(e) /\ control = "awaiting"
          /\ (revealed = ActiveSeats(Answered(e)) /\ hand_value = settled.hand_value)
    BY <1>5 DEF ShowingDown
  <2>6. UNCHANGED <<stage, player_count, table, community, cards_dealt, pots, unpaid, revealed, declared, buy_in>>
    BY <2>2 DEF ComparePlayerHandsCall
  <2>7. CASE ComparePlayerHands(table) /\ UNCHANGED <<control, settled>>
    <3>1. hand_value' \in [AliveSeats(table) -> HandValue] /\ UNCHANGED <<control, settled>>
      BY <2>7 DEF ComparePlayerHands
    <3>3. BoardDealt(e)'
      BY <2>5, <2>6, <3>1 DEF BoardDealt, Contested, RunOut, GoesOn, Ended, Answered
    <3>4. At("SHOWDOWN", Answered(e), community, cards_dealt)' /\ BoardDealt(e)' /\ control' = "awaiting"
          /\ (revealed = ActiveSeats(Answered(e)) /\ hand_value \in [AliveSeats(Answered(e)) -> HandValue])'
      BY <2>5, <2>6, <3>1, <3>3 DEF At, Answered
    <3>5. ShowingDown(From(ShowdownCalls, 4), e, 4)'
      BY <3>4 DEF ShowingDown
    <3>6. Reached(A, From(ShowdownCalls, 4))'
      BY <3>5 DEF Reached
    <3>. QED
      BY <2>4, <3>1, <3>6, CameBetween
  <2>8. CASE EvaluationMayTrap(community) /\ control' = "trapped" /\ UNCHANGED hand_value /\ HoldemStepEnds
    <3>1. SettledNow
      BY <2>8 DEF HoldemStepEnds, SettledNow, Now
    <3>2. PICK board : board = community
      OBVIOUS
    <3>3. Atomic!ProcessShowdownStage(Answered(e), board)
      BY <2>5, <2>6, <2>8, <3>1, <3>2, AtomicOps
      DEF Atomic!ProcessShowdownStage, Atomic!RevealAllHoleCards, Atomic!EvaluationMayTrap,
          EvaluationMayTrap, At, SettledNow
    <3>4. Atomic!PlayerAction(e)
      BY <2>5, <2>6, <3>1, <3>2, <3>3, ShowdownIsOneStep DEF BoardDealt, At, SettledNow
    <3>5. BusInv({})'
      BY <2>8 DEF BusInv
    <3>. QED
      BY <3>4, <3>5 DEF Comes, Atomically
  <2>. QED
    BY <2>2, <2>7, <2>8 DEF ComparePlayerHandsCall
<1>6. CASE k = 4
  <2>1. Head(todo).do = "call" /\ Head(todo).op = "setCurrentStage" /\ Head(todo).arg = "SETTLEMENT"
    BY <1>2, <1>6, ShowdownList DEF Call, CallWith
  <2>2. SetCurrentStageCall
    BY <2>1, TaskDecides
  <2>3. Tail(todo) = From(ShowdownCalls, 5)
    BY <1>2, <1>6
  <2>4. IsStack(stack') /\ Laid(stack', From(ShowdownCalls, 5))
    BY <2>2, <2>3, CallDone DEF PlainCall
  <2>5. ShowingDown(From(ShowdownCalls, 5), e, 5)' /\ settled' = settled
    <3>1. stage' = "SETTLEMENT" /\ UNCHANGED <<table, community, cards_dealt, hand_value, revealed, settled>>
          /\ UNCHANGED Others
      BY <1>2, <2>1, <2>2, Effects
    <3>2. At("SHOWDOWN", Answered(e), community, cards_dealt) /\ BoardDealt(e) /\ control = "awaiting"
          /\ (revealed = ActiveSeats(Answered(e)) /\ hand_value \in [AliveSeats(Answered(e)) -> HandValue])
      BY <1>6 DEF ShowingDown
    <3>3. BoardDealt(e)'
      BY <3>1, <3>2 DEF BoardDealt, Contested, RunOut, GoesOn, Ended, Answered
    <3>4. At("SETTLEMENT", Answered(e), community, cards_dealt)' /\ BoardDealt(e)' /\ control' = "awaiting"
          /\ (revealed = ActiveSeats(Answered(e)) /\ hand_value \in [AliveSeats(Answered(e)) -> HandValue])'
      BY <3>1, <3>2, <3>3 DEF At, Others, Answered
    <3>5. ShowingDown(From(ShowdownCalls, 5), e, 5)'
      BY <3>4 DEF ShowingDown
    <3>. QED
      BY <3>1, <3>5
  <2>6. Reached(A, From(ShowdownCalls, 5))'
    BY <2>5 DEF Reached
  <2>. QED
    BY <2>4, <2>5, <2>6, CameBetween
<1>7. CASE k = 5
  <2>1. Head(todo).do = "call" /\ Head(todo).op = "splitPot"
    BY <1>2, <1>7, ShowdownList DEF Call
  <2>2. SplitPotCall
    BY <2>1, TaskDecides
  <2>3. Tail(todo) = From(ShowdownCalls, 6)
    BY <1>2, <1>7
  <2>4. IsStack(stack') /\ Laid(stack', From(ShowdownCalls, 6))
    BY <2>2, <2>3, CallDone DEF PlainCall
  <2>5. At("SETTLEMENT", Answered(e), community, cards_dealt) /\ BoardDealt(e) /\ control = "awaiting"
          /\ (revealed = ActiveSeats(Answered(e)) /\ hand_value \in [AliveSeats(Answered(e)) -> HandValue])
    BY <1>7 DEF ShowingDown
  <2>6. /\ pots' = SplitPot(table) /\ unpaid' = pots' /\ control' = "settling"
        /\ UNCHANGED <<stage, player_count, table, community, cards_dealt, hand_value, revealed,
                       declared, buy_in>>
        /\ SettledNow
    BY <2>2 DEF SplitPotCall, HoldemStepEnds, SettledNow, Now
  <2>7. PICK board : board = community
    OBVIOUS
  <2>8. Atomic!ProcessShowdownStage(Answered(e), board)
    BY <2>5, <2>6, <2>7, AtomicOps
    DEF Atomic!ProcessShowdownStage, Atomic!RevealAllHoleCards, Atomic!ComparePlayerHands,
        At, SettledNow
  <2>9. Atomic!PlayerAction(e)
    BY <2>5, <2>6, <2>7, <2>8, ShowdownIsOneStep DEF BoardDealt, At, SettledNow
  <2>10. (Steady /\ control = "settling")'
    BY <2>6 DEF Steady, At, Hidden, SettledNow
  <2>11. Settling(From(ShowdownCalls, 6))'
    BY <2>10, LastOfShowdown DEF Settling
  <2>12. BusInv({})'
    BY <2>4, <2>11 DEF BusInv, Reached
  <2>. QED
    BY <2>9, <2>12 DEF Comes, Atomically
<1>. QED
  BY <1>3, <1>4, <1>5, <1>6, <1>7

\* Interrupted: those who are told in the middle of a task watch from on top of
\* the frame it is in.
LEMMA Interrupted ==
    ASSUME NEW todo, Placed(todo), NEW U, NEW tasks \in Seq(U), Watchers(tasks),
           stack' = <<tasks>> \o stack
    PROVE  IsStack(stack') /\ Laid(stack', todo)
<1>1. PICK T : stack \in Seq(Seq(T))
  BY DEF Placed, IsStack
<1>. DEFINE W == Seq(T \cup U)
<1>2. stack \in Seq(W) /\ tasks \in W
  BY <1>1, WiderStack
<1>3. stack # << >> /\ Head(stack) = todo /\ Finished(Tail(stack))
  BY DEF Placed, Running, Top
<1>. HIDE DEF W
<1>4. stack = <<todo>> \o Tail(stack) /\ Tail(stack) \in Seq(W) /\ todo \in W
  BY <1>2, <1>3
<1>5. Holds(stack, todo)
  <2>1. Holds(<<todo>> \o Tail(stack), todo)
    BY <1>3, <1>4, HoldsInnermost
  <2>. QED
    BY <1>4, <2>1
<1>6. stack' \in Seq(W) /\ stack' # << >> /\ Head(stack') = tasks /\ Tail(stack') = stack
  BY <1>2, Pushed
<1>. QED
  BY <1>5, <1>6 DEF IsStack, Laid, W

\* SettlementSteps: seen from Atomic, a pot paid now is a pot paid there.
LEMMA SettlementSteps ==
    ASSUME Steady, SettledNow
    PROVE  /\ \A p : DistributePots(p) => Atomic!DistributePots(p)
           /\ \A p : DistributeDeadPot(p) => Atomic!DistributeDeadPot(p)
           /\ FinishGame => Atomic!FinishGame
<1>1. /\ control = settled.control /\ stage = settled.stage /\ player_count = settled.player_count
      /\ table = settled.table /\ community = settled.community
      /\ cards_dealt = settled.cards_dealt /\ pots = settled.pots /\ unpaid = settled.unpaid
      /\ hand_value = settled.hand_value /\ revealed = settled.revealed
      /\ declared = settled.declared /\ buy_in = settled.buy_in
  BY DEF Steady, At, Hidden
<1>2. \A p : Atomic!NextPot(p) <=> NextPot(p)
  BY <1>1 DEF Atomic!NextPot, NextPot
<1>3. \A p : Atomic!Contenders(p) = Contenders(p)
  BY <1>1, AtomicOps DEF Atomic!Contenders, Contenders
<1>4. \A seats : Atomic!DetermineWinners(seats) = DetermineWinners(seats)
  BY <1>1 DEF Atomic!DetermineWinners, DetermineWinners
<1>5. ASSUME NEW p, DistributePots(p)
      PROVE  Atomic!DistributePots(p)
  <2>1. control = "settling" /\ NextPot(p) /\ Contenders(p) # {}
        /\ UNCHANGED <<stage, player_count, community, cards_dealt, pots,
                       hand_value, revealed, buy_in>>
    BY <1>5 DEF DistributePots
  <2>. DEFINE winners == DetermineWinners(Contenders(p))
  <2>2. CASE /\ table' = DistributePot(table, winners)
             /\ declared' = declared \cup {[pot |-> p, winners |-> winners]}
             /\ unpaid' = unpaid \ {p}
             /\ UNCHANGED control
    <3>1. Atomic!DetermineWinners(Atomic!Contenders(p)) = winners
      BY <1>3, <1>4
    <3>2. settled'.table = Atomic!DistributePot(settled.table, winners)
      BY <1>1, <2>2, AtomicOps DEF SettledNow
    <3>. HIDE DEF winners
    <3>. QED
      BY <1>1, <1>2, <1>3, <2>1, <2>2, <3>1, <3>2 DEF Atomic!DistributePots, SettledNow
  <2>3. CASE EvaluationMayTrap(community) /\ control' = "trapped" /\ UNCHANGED <<table, declared, unpaid>>
    BY <1>1, <1>2, <1>3, <2>1, <2>3
    DEF Atomic!DistributePots, Atomic!EvaluationMayTrap, EvaluationMayTrap, SettledNow
  <2>. QED
    BY <1>5, <2>2, <2>3 DEF DistributePots
<1>6. ASSUME NEW p, DistributeDeadPot(p)
      PROVE  Atomic!DistributeDeadPot(p)
  BY <1>1, <1>2, <1>3, <1>6 DEF Atomic!DistributeDeadPot, DistributeDeadPot, SettledNow
<1>7. ASSUME FinishGame
      PROVE  Atomic!FinishGame
  BY <1>1, <1>7
  DEF Atomic!FinishGame, FinishGame, Atomic!showdownVars, showdownVars, SettledNow
<1>. QED
  BY <1>5, <1>6, <1>7

\* SettlingSteps: distributePots pays a pot a step, and finishGame comes after.
LEMMA SettlingSteps ==
    ASSUME NEW A, NEW todo, Placed(todo), BusStep, Settling(todo)
    PROVE  Comes(A)
<1>. DEFINE pay == Call("distributePots")
            last == <<Call("finishGame")>>
<1>0. Steady /\ control = "settling"
  BY DEF Settling
<1>1. CASE todo = <<pay, Call("finishGame")>>
  <2>1. /\ Head(todo).do = "call" /\ Head(todo).op = "distributePots"
        /\ Tail(todo) = last
    BY <1>1 DEF Call
  <2>2. DistributePotsCall
    BY <2>1, TaskDecides
  <2>3. CASE unpaid = {} /\ Become(<< >>) /\ UNCHANGED <<vars, settled>>
    <3>1. stack' = << << >> \o Tail(todo) >> \o Tail(stack)
      BY <2>3 DEF Become, Placed
    <3>2. << >> \o Tail(todo) = last /\ last \in Seq({Call("finishGame")})
      BY <2>1
    <3>. HIDE DEF last
    <3>3. IsStack(stack) /\ stack # << >> /\ Finished(Tail(stack))
      BY DEF Placed, Running
    <3>4. IsStack(stack') /\ Laid(stack', last)
      BY <3>1, <3>2, <3>3, LaidBecome
    <3>5. (Steady /\ control = "settling" /\ unpaid = {})' /\ settled' = settled
      BY <1>0, <2>3 DEF Steady, At, Hidden, vars, showdownVars
    <3>6. Reached(A, last)'
      BY <3>5 DEF Reached, Settling, last
    <3>. QED
      BY <3>4, <3>5, <3>6, CameBetween
  <2>4. ASSUME NEW p \in unpaid, DistributePots(p) \/ DistributeDeadPot(p), NEW winners,
               stack' = <<Publish(Event!WinnerDeclared(winners))>> \o stack,
               HoldemStepEnds
        PROVE  Comes(A)
    <3>. DEFINE e == Event!WinnerDeclared(winners)
    <3>1. SettledNow
      BY <2>4 DEF HoldemStepEnds, SettledNow, Now
    <3>2. Atomically(A)
      <4>1. Atomic!DistributePots(p) \/ Atomic!DistributeDeadPot(p)
        BY <1>0, <2>4, <3>1, SettlementSteps
      <4>2. p \in settled.unpaid
        BY <1>0 DEF Steady, At
      <4>. QED
        BY <4>1, <4>2 DEF Atomically, Atomic!Settle
    <3>3. e.type \in Announcements
      BY DEF Event!WinnerDeclared, Announcements
    <3>. DEFINE U == {Deliver(to, e) : to \in STRING}
    <3>4. Publish(e) \in Seq(U) /\ Watchers(Publish(e))
      BY <3>3, PublishAnnouncement
    <3>. HIDE DEF e, U
    <3>5. IsStack(stack') /\ Laid(stack', todo)
      BY <2>4, <3>4, Interrupted DEF e
    <3>6. control' \in {"settling", "trapped"}
      BY <1>0, <2>4 DEF DistributePots, DistributeDeadPot
    <3>7. Steady'
      BY <3>1 DEF SettledNow, Steady, At, Hidden
    <3>8. control' = "settling" => Reached({}, todo)'
      BY <1>1, <3>7 DEF Reached, Settling
    <3>9. BusInv({})'
      BY <3>5, <3>6, <3>8 DEF BusInv
    <3>. QED
      BY <3>2, <3>9 DEF Comes
  <2>. QED
    BY <2>2, <2>3, <2>4 DEF DistributePotsCall
<1>2. CASE todo = last
  <2>1. Head(todo).do = "call" /\ Head(todo).op = "finishGame" /\ Tail(todo) = << >>
    BY <1>2 DEF Call
  <2>2. FinishGameCall
    BY <2>1, TaskDecides
  <2>3. IsStack(stack') /\ Laid(stack', << >>)
    BY <2>1, <2>2, CallDone DEF PlainCall
  <2>4. FinishGame /\ SettledNow
    BY <2>2 DEF FinishGameCall, HoldemStepEnds, SettledNow, Now
  <2>5. Atomic!FinishGame
    BY <1>0, <2>4, SettlementSteps
  <2>. QED
    BY <2>3, <2>4, <2>5, CameToRest DEF Atomically, Atomic!Settle
<1>. QED
  BY <1>1, <1>2 DEF Settling

\* ReachedStill: leaving an empty frame changes nothing of that.
LEMMA ReachedStill ==
    ASSUME NEW A, NEW todo, Reached(A, todo), UNCHANGED <<vars, settled>>
    PROVE  Reached(A, todo)'
<1>1. UNCHANGED <<control, stage, player_count, table, community, cards_dealt, pots, unpaid,
                  hand_value, revealed, declared, buy_in, settled>>
  BY DEF vars
<1>2. Steady => Steady'
  BY <1>1 DEF Steady, At, Hidden
<1>3. (Resting(todo) => Resting(todo)') /\ (Joining(todo) => Joining(todo)')
      /\ (Starting(todo) => Starting(todo)') /\ (Settling(todo) => Settling(todo)')
  BY <1>1, <1>2 DEF Resting, Joining, Starting, Settling
<1>4. \A k : Opening(todo, k) => Opening(todo, k)'
  BY <1>1 DEF Opening, OpenedTable, At, Hidden
<1>5. \A e : Handling(todo, e) => Handling(todo, e)'
  BY <1>1, <1>2 DEF Handling
<1>6. \A e : Branching(todo, e) => Branching(todo, e)'
  BY <1>1 DEF Branching, At, Hidden, Answered
<1>7. \A e : /\ Contested(e) => Contested(e)'
             /\ RunOut(e) => RunOut(e)'
             /\ GoesOn(e) => GoesOn(e)'
             /\ BoardDealt(e) => BoardDealt(e)'
  BY <1>1 DEF Contested, RunOut, GoesOn, Ended, Answered, BoardDealt
<1>8. \A e : ToShowdown(todo, e) => ToShowdown(todo, e)'
  BY <1>1, <1>7 DEF ToShowdown, At, Hidden, Answered
<1>9. \A e : RunningOut(todo, e) => RunningOut(todo, e)'
  BY <1>1, <1>7 DEF RunningOut, At, Hidden, Answered
<1>10. \A e, k : Continuing(todo, e, k) => Continuing(todo, e, k)'
  BY <1>1 DEF Continuing, At, Hidden, Answered
<1>11. \A e, k : StreetOpening(todo, e, k) => StreetOpening(todo, e, k)'
  BY <1>1, <1>7 DEF StreetOpening, At, Hidden, Answered
<1>12. \A e, k : ShowingDown(todo, e, k) => ShowingDown(todo, e, k)'
  BY <1>1, <1>7 DEF ShowingDown, At, Answered
<1>. QED
  BY <1>3, <1>4, <1>5, <1>6, <1>8, <1>9, <1>10, <1>11, <1>12 DEF Reached

\* BusSteps: whatever the bus does next, seen where Holdem's steps end it is
\* nothing or one of them, and what is left to do is again what is left of one
\* handler.
LEMMA BusSteps ==
    ASSUME NEW A, BusInv(A), BusStep
    PROVE  Comes(A)
<1>1. ControllerHandles \/ Branch \/ PlainCall \/ DistributePotsCall \/ Return
  BY DEF BusStep, GameModelCall, PlainCall
<1>2. \/ Return
      \/ Delivering("controller")
      \/ \E op : Calling(op)
  BY <1>1, CalledOps DEF PlainCall, ControllerHandles
<1>3. Running /\ (Top = << >> => Return) /\ (Return => Top = << >>)
  BY <1>2 DEF Delivering, Calling, Busy, Return
<1>4. /\ IsStack(stack) /\ stack # << >>
      /\ \E todo : Laid(stack, todo) /\ Reached(A, todo)
  BY <1>3 DEF BusInv, Running
<1>5. PICK todo : Laid(stack, todo) /\ Reached(A, todo)
  BY <1>4
<1>6. CASE Top = << >>
  <2>1. Return /\ stack' = Tail(stack) /\ UNCHANGED <<vars, settled>>
    BY <1>3, <1>6 DEF Return
  <2>2. IsStack(stack') /\ Laid(stack', todo)
    BY <1>4, <1>5, <1>6, <2>1, LaidPopped DEF Top
  <2>3. Reached(A, todo)' /\ settled' = settled
    BY <1>5, <2>1, ReachedStill
  <2>. QED
    BY <2>2, <2>3, CameBetween
<1>7. CASE Top # << >>
  <2>1. ~Watched(Head(Top))
    BY <1>2, <1>3, <1>7 DEF Watched, Delivering, Calling, Busy, Task
  <2>2. todo = Top /\ Finished(Tail(stack))
    BY <1>4, <1>5, <1>7, <2>1, LaidCalled DEF Top
  <2>3. Placed(todo)
    BY <1>3, <1>4, <1>7, <2>2 DEF Placed
  <2>4. ~Resting(todo)
    BY <1>7, <2>2 DEF Resting
  <2>5. CASE Joining(todo)
    BY <2>3, <2>5, JoiningSteps
  <2>6. CASE Starting(todo)
    BY <2>3, <2>6, StartingSteps
  <2>7. CASE Settling(todo)
    BY <2>3, <2>7, SettlingSteps
  <2>8. ASSUME NEW k \in 1..8, Opening(todo, k)
        PROVE  Comes(A)
    BY <2>3, <2>8, OpeningSteps
  <2>9. ASSUME NEW e \in A, Handling(todo, e)
        PROVE  Comes(A)
    BY <2>3, <2>9, HandlingSteps
  <2>10. ASSUME NEW e \in A, Branching(todo, e)
         PROVE  Comes(A)
    BY <2>3, <2>10, BranchingSteps
  <2>11. ASSUME NEW e \in A, ToShowdown(todo, e) \/ RunningOut(todo, e)
         PROVE  Comes(A)
    BY <2>3, <2>11, ToShowdownSteps
  <2>12. ASSUME NEW e \in A, NEW k \in 1..2, Continuing(todo, e, k)
         PROVE  Comes(A)
    BY <2>3, <2>12, ContinuingSteps
  <2>13. ASSUME NEW e \in A, NEW k \in 1..4, StreetOpening(todo, e, k)
         PROVE  Comes(A)
    BY <2>3, <2>13, StreetSteps
  <2>14. ASSUME NEW e \in A, NEW k \in 1..5, ShowingDown(todo, e, k)
         PROVE  Comes(A)
    BY <2>3, <2>14, ShowingDownSteps
  <2>. QED
    BY <1>5, <2>4, <2>5, <2>6, <2>7, <2>8, <2>9, <2>10, <2>11, <2>12, <2>13, <2>14 DEF Reached
<1>. QED
  BY <1>6, <1>7

-----------------------------------------------------------------------------
(* The step of a bus, seen from the top of its stack.                      *)

\* Nobody who watches is called next.
Quiet(s) == s # << >> /\ Head(s) # << >> => ~Watched(Head(Head(s)))

\* HeldFirst: a frame with nothing left, or the one that has everything left, is
\* on top.
LEMMA HeldFirst ==
    ASSUME NEW s, IsStack(s), s # << >>, NEW todo, Holds(s, todo)
    PROVE  /\ Head(s) = << >> \/ Head(s) = todo
           /\ Head(s) = << >> => Holds(Tail(s), todo) /\ IsStack(Tail(s))
           /\ Head(s) # << >> => Finished(Tail(s)) /\ IsStack(Tail(s))
<1>1. PICK T : s \in Seq(Seq(T))
  BY DEF IsStack
<1>2. /\ Head(s) = s[1] /\ Tail(s) \in Seq(Seq(T)) /\ Len(s) \in Nat /\ Len(s) >= 1
      /\ Len(Tail(s)) = Len(s) - 1 /\ \A i \in 1..(Len(s) - 1) : Tail(s)[i] = s[i + 1]
  BY <1>1, Popped
<1>3. Head(s) = << >> \/ Head(s) = todo
  BY <1>2 DEF Holds, Finished
<1>4. ASSUME Head(s) = << >>
      PROVE  Holds(Tail(s), todo)
  <2>1. Tail(s) \in Seq(Seq(T)) /\ << >> \in Seq(T) /\ << << >> >> \o Tail(s) = s
    BY <1>1, <1>4
  <2>. QED
    BY <2>1, HoldsBelow
<1>5. ASSUME Head(s) # << >>
      PROVE  Finished(Tail(s))
  <2>1. \A i \in 2..Len(s) : s[i] = << >>
    BY <1>2, <1>5 DEF Holds, Finished
  <2>. QED
    BY <1>2, <2>1 DEF Finished
<1>6. IsStack(Tail(s))
  BY <1>2 DEF IsStack
<1>. QED
  BY <1>3, <1>4, <1>5, <1>6

\* HeldQuiet: what is left of a handler is not for those who watch.
LEMMA HeldQuiet ==
    ASSUME NEW s, IsStack(s), NEW todo, Holds(s, todo), todo # << >> => ~Watched(Head(todo))
    PROVE  Quiet(s)
BY HeldFirst DEF Quiet

\* EnteredHolds: the frame of a task is on top of what is left of its own.
LEMMA EnteredHolds ==
    ASSUME NEW s, IsStack(s), s # << >>, Head(s) # << >>, Finished(Tail(s)),
           NEW U, NEW tasks \in Seq(U), NEW v, v = Entered(s, tasks)
    PROVE  /\ IsStack(v) /\ v # << >>
           /\ tasks = << >> => Holds(v, Tail(Head(s)))
           /\ tasks # << >> => /\ Head(v) = tasks /\ Holds(Tail(v), Tail(Head(s)))
                               /\ Tail(Head(s)) = << >> => Finished(Tail(v))
<1>1. PICK T : s \in Seq(Seq(T))
  BY DEF IsStack
<1>. DEFINE rest == Tail(Head(s))
            below == <<rest>> \o Tail(s)
            W == Seq(T \cup U)
<1>2. rest \in Seq(T) /\ Tail(s) \in Seq(Seq(T))
  BY <1>1
<1>. HIDE DEF rest
<1>3. rest \in W /\ tasks \in W /\ Tail(s) \in Seq(W)
  BY <1>2, WiderStack
<1>. HIDE DEF W
<1>4. Holds(below, rest) /\ below \in Seq(W) /\ below # << >>
  <2>1. Holds(below, rest)
    BY <1>3, HoldsInnermost
  <2>. QED
    BY <1>3, <2>1, Pushed
<1>5. CASE tasks = << >>
  <2>1. v = below
    BY <1>3, <1>4, <1>5 DEF rest, Entered
  <2>. QED
    BY <1>4, <1>5, <2>1 DEF IsStack, rest, W
<1>6. CASE tasks # << >>
  <2>. HIDE DEF below
  <2>1. v = <<tasks>> \o below
    BY <1>3, <1>6 DEF rest, below, Entered
  <2>2. v \in Seq(W) /\ v # << >> /\ Head(v) = tasks /\ Tail(v) = below
    <3>1. /\ <<tasks>> \o below \in Seq(W) /\ <<tasks>> \o below # << >>
          /\ Head(<<tasks>> \o below) = tasks /\ Tail(<<tasks>> \o below) = below
      BY <1>3, <1>4, Pushed
    <3>. QED
      BY <2>1, <3>1
  <2>3. rest = << >> => Finished(below)
    BY <1>4 DEF Holds
  <2>. QED
    BY <1>4, <1>6, <2>2, <2>3 DEF IsStack, rest, W
<1>. QED
  BY <1>5, <1>6

\* BusTask: what a step of the bus finds on top of the stack.
LEMMA BusTask ==
    ASSUME BusStep
    PROVE  /\ Running /\ (Top = << >> <=> Return)
           /\ Top # << >> => ~Watched(Head(Top))
<1>1. ControllerHandles \/ Branch \/ PlainCall \/ DistributePotsCall \/ Return
  BY DEF BusStep, GameModelCall, PlainCall
<1>2. \/ Return
      \/ Delivering("controller")
      \/ \E op : Calling(op)
  BY <1>1, CalledOps DEF PlainCall, ControllerHandles
<1>3. Running /\ (Top = << >> <=> Return)
  BY <1>2 DEF Delivering, Calling, Busy, Return
<1>. QED
  BY <1>2, <1>3 DEF Watched, Delivering, Calling, Busy, Return, Task

\* PoppedHolds: below an empty frame nobody is told anything.
LEMMA PoppedHolds ==
    ASSUME NEW s, IsStack(s), s # << >>, Head(s) = << >>, NEW todo, Laid(s, todo)
    PROVE  Holds(Tail(s), todo) /\ IsStack(Tail(s))
<1>1. PICK T : s \in Seq(Seq(T))
  BY DEF IsStack
<1>2. Tail(s) \in Seq(Seq(T)) /\ << >> \in Seq(T) /\ << << >> >> \o Tail(s) = s
  BY <1>1
<1>3. Holds(s, todo) <=> Holds(Tail(s), todo)
  BY <1>2, HoldsBelow
<1>. QED
  BY <1>2, <1>3 DEF Laid, IsStack

\* EnteredHead: what is on top when a task has got a frame of its own.
LEMMA EnteredHead ==
    ASSUME NEW todo, Placed(todo), NEW U, NEW tasks \in Seq(U), Enter(tasks)
    PROVE  /\ stack' # << >>
           /\ Head(stack') = IF tasks = << >> THEN Tail(todo) ELSE tasks
           /\ tasks # << >> /\ Tail(todo) = << >> => Finished(Tail(stack'))
<1>1. /\ stack' = Entered(stack, tasks)
      /\ IsStack(stack) /\ stack # << >> /\ Head(stack) # << >> /\ Head(stack) = todo
      /\ Finished(Tail(stack))
  BY DEF Enter, Entered, Placed, Running, Top
<1>2. /\ stack' # << >>
      /\ Head(stack') = IF tasks = << >> THEN Tail(Head(stack)) ELSE tasks
  BY <1>1, LaidEntered
<1>3. tasks # << >> => /\ Head(stack') = tasks
                       /\ Tail(Head(stack)) = << >> => Finished(Tail(stack'))
  BY <1>1, EnteredHolds
<1>. QED
  BY <1>1, <1>2, <1>3

\* PublishedList: those who watch are told one after the other.
LEMMA PublishedList ==
    ASSUME NEW e, e.type \in Announcements
    PROVE  /\ IsList(Publish(e), Len(Publish(e))) /\ Len(Publish(e)) \in Nat
           /\ Publish(e) # << >> => 1 \in 1..Len(Publish(e)) /\ From(Publish(e), 1) = Publish(e)
<1>. DEFINE U == {Deliver(to, e) : to \in STRING}
<1>1. Publish(e) \in Seq(U)
  BY PublishAnnouncement
<1>. HIDE DEF U
<1>2. IsList(Publish(e), Len(Publish(e)))
  BY <1>1, ListFromCalls
<1>3. Len(Publish(e)) \in Nat /\ (Publish(e) # << >> => Len(Publish(e)) >= 1)
  BY <1>1
<1>. QED
  BY <1>2, <1>3 DEF IsList

\* AfterAction: whatever follows handlePlayerAction begins with a call.
LEMMA AfterAction == \E T : /\ CallsAfterAction \in Seq(T) /\ CallsAfterAction # << >>
                            /\ Head(CallsAfterAction).do = "call"
<1>. DEFINE Good(calls) == \E T : calls \in Seq(T) /\ calls # << >> /\ Head(calls).do = "call"
<1>1. ASSUME NEW T, NEW rest \in Seq(T), NEW x, x.do = "call"
      PROVE  Good(<<x>> \o rest)
  <2>1. rest \in Seq(T \cup {x}) /\ x \in T \cup {x}
    BY <1>1, WiderStack
  <2>2. /\ <<x>> \o rest \in Seq(T \cup {x}) /\ <<x>> \o rest # << >>
        /\ Head(<<x>> \o rest) = x
    BY <2>1, Pushed
  <2>. QED
    BY <1>1, <2>2
<1>2. ASSUME NEW T, NEW rest \in Seq(T), NEW x, NEW y, x.do = "call"
      PROVE  Good(<<x, y>> \o rest)
  <2>1. /\ <<y>> \o rest \in Seq(T \cup {y})
    <3>1. rest \in Seq(T \cup {y}) /\ y \in T \cup {y}
      BY <1>2, WiderStack
    <3>. QED
      BY <3>1, Pushed
  <2>2. <<x, y>> \o rest = <<x>> \o (<<y>> \o rest)
    <3>1. <<x>> \in Seq({x, y} \cup T) /\ <<y>> \in Seq({x, y} \cup T) /\ rest \in Seq({x, y} \cup T)
      BY <1>2, WiderStack
    <3>2. <<x, y>> = <<x>> \o <<y>>
      <4>. DEFINE u == <<x>> \o <<y>>
      <4>1. u \in Seq({x, y}) /\ Len(u) = 2 /\ u[1] = x /\ u[2] = y
        OBVIOUS
      <4>. HIDE DEF u
      <4>2. u = <<x, y>>
        BY <4>1
      <4>. QED
        BY <4>2 DEF u
    <3>3. (<<x>> \o <<y>>) \o rest = <<x>> \o (<<y>> \o rest)
      BY <3>1, ConcatAssociative
    <3>. QED
      BY <3>2, <3>3
  <2>. QED
    BY <1>1, <1>2, <2>1, <2>2
<1>3. \A s : ChangeStage(s).do = "call"
  BY DEF ChangeStage, CallWith
<1>. DEFINE S == {ShowdownCalls[i] : i \in 1..7}
            P == {PostflopCalls[i] : i \in 1..3}
<1>4. ShowdownCalls \in Seq(S) /\ PostflopCalls \in Seq(P)
  BY DEF ShowdownCalls, PostflopCalls
<1>5. Good(TurnCalls)
  <2>1. TurnCalls # << >> /\ Head(TurnCalls).do = "call"
    BY TurnList DEF IsList, Call
  <2>2. TurnCalls \in Seq({TurnCalls[1], TurnCalls[2]})
    BY DEF TurnCalls
  <2>. QED
    BY <2>1, <2>2
<1>. HIDE DEF S, P, Good
<1>6. /\ Good(<<ChangeStage("SHOWDOWN")>> \o ShowdownCalls)
      /\ Good(<<ChangeStage("SHOWDOWN"), Call("dealCommunityCards")>> \o ShowdownCalls)
      /\ \A s : Good(<<ChangeStage(NextStage(s))>> \o PostflopCalls)
  BY <1>1, <1>2, <1>3, <1>4
<1>7. Good(CallsAfterAction)
  BY <1>5, <1>6 DEF CallsAfterAction, TurnCalls
<1>. QED
  BY <1>7 DEF Good

-----------------------------------------------------------------------------
(* What a handler does next, and what it has left after that.              *)

\* The next task is for GameController or GameModel; awaitPlayerAction and the
\* branches of handle(PlayerAction) are the last of theirs.
Ordered(todo) ==
    /\ ~Watched(Head(todo))
    /\ Head(todo).do = "call" => Head(todo).op # "setChips"
    /\ Tail(todo) # << >> => Head(Tail(todo)).do = "call"
    /\ Head(todo).do = "call" /\ Head(todo).op \in {"awaitPlayerAction", "branch"} => Tail(todo) = << >>
    /\ Head(todo).do = "deliver" => Head(todo).event.type \in Requests

\* ListTasks: that is so anywhere in a list of calls.
LEMMA ListTasks ==
    ASSUME NEW n \in Nat, NEW calls, IsList(calls, n), NEW k \in 1..n,
           \A i \in 1..n : calls[i].do = "call" /\ calls[i].op \notin {"setChips", "branch"},
           \A i \in 1..n : calls[i].op = "awaitPlayerAction" => i = n
    PROVE  Ordered(From(calls, k))
<1>1. Head(From(calls, k)) = calls[k] /\ Tail(From(calls, k)) = From(calls, k + 1)
  BY DEF IsList
<1>2. CASE k = n
  BY <1>1, <1>2 DEF IsList, Ordered, Watched
<1>3. CASE k # n
  <2>1. k + 1 \in 1..n
    BY <1>3
  <2>2. Head(From(calls, k + 1)) = calls[k + 1]
    BY <2>1 DEF IsList
  <2>. QED
    BY <1>1, <1>3, <2>1, <2>2 DEF Ordered, Watched
<1>. QED
  BY <1>2, <1>3

\* ReachedOrdered: so it is wherever the program is.
LEMMA ReachedOrdered ==
    ASSUME NEW A, NEW todo, Reached(A, todo), todo # << >>
    PROVE  Ordered(todo)
<1>1. ASSUME NEW x, todo = <<x>>, ~Watched(x), x.do = "call" => x.op # "setChips",
             x.do = "deliver" => x.event.type \in Requests
      PROVE  Ordered(todo)
  BY <1>1 DEF Ordered
<1>2. ASSUME NEW x, NEW y, todo = <<x, y>>, x.do = "call", y.do = "call",
             x.op \notin {"setChips", "awaitPlayerAction", "branch"}
      PROVE  Ordered(todo)
  BY <1>2 DEF Ordered, Watched
<1>3. CASE Joining(todo) \/ Starting(todo)
  BY <1>1, <1>3
  DEF Joining, Starting, Deliver, Call, Watched, Event!PlayerJoinRequest, Event!StartGame,
      Requests
<1>4. CASE Settling(todo)
  BY <1>1, <1>2, <1>4 DEF Settling, Call, Watched
<1>5. ASSUME NEW k \in 1..8, Opening(todo, k)
      PROVE  Ordered(todo)
  <2>. DEFINE calls == StartCalls
  <2>1. \A i \in 1..8 : calls[i].do = "call" /\ calls[i].op \notin {"setChips", "branch"}
    BY StartList DEF Call, CallWith, ChangeStage
  <2>2. \A i \in 1..8 : calls[i].op = "awaitPlayerAction" => i = 8
    BY StartList DEF Call, CallWith, ChangeStage
  <2>3. todo = From(calls, k) /\ IsList(calls, 8)
    BY <1>5, StartList DEF Opening
  <2>. HIDE DEF calls
  <2>. QED
    BY <2>1, <2>2, <2>3, ListTasks
<1>6. ASSUME NEW e \in A, Handling(todo, e)
      PROVE  Ordered(todo)
  BY <1>1, <1>2, <1>6
  DEF Handling, Deliver, Call, CallWith, Watched, Answer, Event!PlayerAction, Requests
<1>7. ASSUME NEW e \in A, Branching(todo, e)
      PROVE  Ordered(todo)
  BY <1>1, <1>7 DEF Branching, Call, Watched
<1>8. ASSUME NEW e \in A, NEW k \in 1..2, Continuing(todo, e, k)
      PROVE  Ordered(todo)
  <2>. DEFINE calls == TurnCalls
  <2>1. \A i \in 1..2 : calls[i].do = "call" /\ calls[i].op \notin {"setChips", "branch"}
    BY TurnList DEF Call
  <2>2. \A i \in 1..2 : calls[i].op = "awaitPlayerAction" => i = 2
    BY TurnList DEF Call
  <2>3. todo = From(calls, k) /\ IsList(calls, 2)
    BY <1>8, TurnList DEF Continuing
  <2>. HIDE DEF calls
  <2>. QED
    BY <2>1, <2>2, <2>3, ListTasks
<1>9. ASSUME NEW e \in A, NEW k \in 1..4, StreetOpening(todo, e, k)
      PROVE  Ordered(todo)
  <2>0. PICK calls : calls = StreetCalls(settled.stage)
    OBVIOUS
  <2>4. /\ calls[1] = ChangeStage(NextStage(settled.stage))
        /\ calls[2] = Call("dealCommunityCards")
        /\ calls[3] = Call("startBettingRound")
        /\ calls[4] = Call("awaitPlayerAction")
    BY <2>0, StreetList
  <2>1. \A i \in 1..4 : calls[i].do = "call" /\ calls[i].op \notin {"setChips", "branch"}
    BY <2>4 DEF Call, CallWith, ChangeStage
  <2>2. \A i \in 1..4 : calls[i].op = "awaitPlayerAction" => i = 4
    BY <2>4 DEF Call, CallWith, ChangeStage
  <2>3. todo = From(calls, k) /\ IsList(calls, 4)
    BY <1>9, <2>0, StreetList DEF StreetOpening
  <2>. QED
    BY <2>1, <2>2, <2>3, ListTasks
<1>10. \A x : Head(<<x>> \o ShowdownCalls) = x /\ Tail(<<x>> \o ShowdownCalls) = ShowdownCalls
  BY BeforeShowdown
<1>11. Head(ShowdownCalls) = ShowdownCalls[1] /\ ShowdownCalls[1].do = "call"
  BY ShowdownList DEF CallWith, ShowdownCalls
<1>12. ASSUME NEW e \in A, ToShowdown(todo, e)
       PROVE  Ordered(todo)
  <2>. DEFINE change == ChangeStage("SHOWDOWN")
              deal == Call("dealCommunityCards")
  <2>1. change.do = "call" /\ change.op = "changeStage" /\ deal.do = "call"
    BY DEF ChangeStage, CallWith, Call
  <2>2. Head(todo) = change /\ Tail(todo) \in {ShowdownCalls, <<deal>> \o ShowdownCalls}
    BY <1>10, <1>12, BeforeShowdown DEF ToShowdown
  <2>. HIDE DEF change, deal
  <2>3. Head(Tail(todo)).do = "call"
    BY <1>10, <1>11, <2>1, <2>2
  <2>. QED
    BY <2>1, <2>2, <2>3 DEF Ordered, Watched
<1>13. ASSUME NEW e \in A, RunningOut(todo, e)
       PROVE  Ordered(todo)
  <2>1. Head(todo) = Call("dealCommunityCards") /\ Tail(todo) = ShowdownCalls
    BY <1>10, <1>13 DEF RunningOut
  <2>. QED
    BY <1>11, <2>1 DEF Ordered, Watched, Call
<1>14. ASSUME NEW e \in A, NEW k \in 1..5, ShowingDown(todo, e, k)
       PROVE  Ordered(todo)
  <2>. DEFINE calls == ShowdownCalls
  <2>1. \A i \in 1..7 : calls[i].do = "call" /\ calls[i].op \notin {"setChips", "branch"}
    BY ShowdownList DEF Call, CallWith
  <2>2. \A i \in 1..7 : calls[i].op = "awaitPlayerAction" => i = 7
    BY ShowdownList DEF Call, CallWith
  <2>3. todo = From(calls, k) /\ IsList(calls, 7) /\ k \in 1..7
    BY <1>14, ShowdownList DEF ShowingDown
  <2>. HIDE DEF calls
  <2>. QED
    BY <2>1, <2>2, <2>3, ListTasks
<1>. QED
  BY <1>3, <1>4, <1>5, <1>6, <1>7, <1>8, <1>9, <1>12, <1>13, <1>14 DEF Reached, Resting

\* Where a call is made that changes the table or the stage, or says something
\* of them.
Where(A, todo) ==
    /\ Head(todo).op = "startGame" => Opening(todo, 1)
    /\ Head(todo).op = "changeStage" =>
          \/ Opening(todo, 2) /\ Head(todo).arg = "PREFLOP"
          \/ Head(todo).arg = "SHOWDOWN"
          \/ \E e \in A : StreetOpening(todo, e, 1) /\ Head(todo).arg = NextStage(settled.stage)
    /\ Head(todo).op = "setCurrentStage" => Head(todo).arg \in {"SHOWDOWN", "SETTLEMENT"}
    /\ Head(todo).op = "startBettingRound" =>
          Opening(todo, 5) \/ \E e \in A : StreetOpening(todo, e, 3)
    /\ Head(todo).op = "postSmallBlind" => Opening(todo, 6)
    /\ Head(todo).op = "postBigBlind" => Opening(todo, 7)
    /\ Head(todo).op = "awaitPlayerAction" => Opening(todo, 8) \/ control = "awaiting"
    /\ Head(todo).op = "handlePlayerAction" => \E e \in A : Handling(todo, e)
    /\ Head(todo).op = "moveActingPlayer" => \E e \in A : Continuing(todo, e, 1)
    /\ Head(todo).op = "splitPot" =>
          /\ control = "awaiting" /\ settled.control = "awaiting"
          /\ declared = settled.declared
    /\ Head(todo).op = "distributePots" => Steady /\ control = "settling"

\* ReachedWhere: so it is wherever the program is.
LEMMA ReachedWhere ==
    ASSUME NEW A, NEW todo, Reached(A, todo), todo # << >>, Head(todo).do = "call"
    PROVE  Where(A, todo)
<1>. DEFINE Plain == {"joinNewPlayer", "shuffleDeck", "dealHoleCards", "dealCommunityCards",
                      "branch", "revealAllHoleCards", "comparePlayerHands", "finishGame"}
<1>0. \A x, y : Head(<<x>>) = x /\ Head(<<x, y>>) = x
  OBVIOUS
<1>1. ASSUME Head(todo).op \in Plain
      PROVE  Where(A, todo)
  BY <1>1 DEF Where
<1>2. CASE Joining(todo) \/ Starting(todo)
  <2>1. Head(todo).op = "joinNewPlayer"
    BY <1>0, <1>2 DEF Joining, Starting, Deliver, Call
  <2>. QED
    BY <1>1, <2>1
<1>3. CASE Settling(todo)
  <2>1. /\ Head(todo) \in {Call("distributePots"), Call("finishGame")}
        /\ Steady /\ control = "settling"
    BY <1>0, <1>3 DEF Settling
  <2>2. Head(todo).op \in {"distributePots", "finishGame"}
    BY <2>1 DEF Call
  <2>. QED
    BY <2>1, <2>2 DEF Where
<1>4. ASSUME NEW k \in 1..8, Opening(todo, k)
      PROVE  Where(A, todo)
  <2>1. Head(todo) = StartCalls[k]
    BY <1>4, StartList DEF Opening, IsList
  <2>2. CASE k = 1
    <3>1. Head(todo).op = "startGame"
      BY <2>1, <2>2, StartList DEF Call
    <3>. QED
      BY <1>4, <2>2, <3>1 DEF Where
  <2>3. CASE k = 2
    <3>1. Head(todo).op = "changeStage" /\ Head(todo).arg = "PREFLOP"
      BY <2>1, <2>3, StartList DEF ChangeStage, CallWith
    <3>. QED
      BY <1>4, <2>3, <3>1 DEF Where
  <2>4. CASE k \in {3, 4}
    <3>1. Head(todo).op \in Plain
      BY <2>1, <2>4, StartList DEF Call
    <3>. QED
      BY <1>1, <3>1
  <2>5. CASE k = 5
    <3>1. Head(todo).op = "startBettingRound"
      BY <2>1, <2>5, StartList DEF Call
    <3>. QED
      BY <1>4, <2>5, <3>1 DEF Where
  <2>6. CASE k = 6
    <3>1. Head(todo).op = "postSmallBlind"
      BY <2>1, <2>6, StartList DEF Call
    <3>. QED
      BY <1>4, <2>6, <3>1 DEF Where
  <2>7. CASE k = 7
    <3>1. Head(todo).op = "postBigBlind"
      BY <2>1, <2>7, StartList DEF Call
    <3>. QED
      BY <1>4, <2>7, <3>1 DEF Where
  <2>8. CASE k = 8
    <3>1. Head(todo).op = "awaitPlayerAction"
      BY <2>1, <2>8, StartList DEF Call
    <3>. QED
      BY <1>4, <2>8, <3>1 DEF Where
  <2>. QED
    BY <2>2, <2>3, <2>4, <2>5, <2>6, <2>7, <2>8
<1>5. ASSUME NEW e \in A, Handling(todo, e)
      PROVE  Where(A, todo)
  <2>1. Head(todo).op = "handlePlayerAction"
    BY <1>0, <1>5 DEF Handling, Deliver, CallWith
  <2>. QED
    BY <1>5, <2>1 DEF Where
<1>6. ASSUME NEW e \in A, Branching(todo, e)
      PROVE  Where(A, todo)
  <2>1. Head(todo).op \in Plain
    BY <1>6 DEF Branching, Call
  <2>. QED
    BY <1>1, <2>1
<1>7. ASSUME NEW e \in A, NEW k \in 1..2, Continuing(todo, e, k)
      PROVE  Where(A, todo)
  <2>1. Head(todo) = TurnCalls[k] /\ control = "awaiting"
    BY <1>7, TurnList DEF Continuing, IsList
  <2>2. CASE k = 1
    <3>1. Head(todo).op = "moveActingPlayer"
      BY <2>1, <2>2, TurnList DEF Call
    <3>. QED
      BY <1>7, <2>2, <3>1 DEF Where
  <2>3. CASE k = 2
    <3>1. Head(todo).op = "awaitPlayerAction"
      BY <2>1, <2>3, TurnList DEF Call
    <3>. QED
      BY <2>1, <3>1 DEF Where
  <2>. QED
    BY <2>2, <2>3
<1>8. ASSUME NEW e \in A, NEW k \in 1..4, StreetOpening(todo, e, k)
      PROVE  Where(A, todo)
  <2>1. PICK calls : calls = StreetCalls(settled.stage)
    OBVIOUS
  <2>2. Head(todo) = calls[k] /\ control = "awaiting"
    BY <1>8, <2>1, StreetList DEF StreetOpening, IsList
  <2>3. /\ calls[1] = ChangeStage(NextStage(settled.stage))
        /\ calls[2] = Call("dealCommunityCards")
        /\ calls[3] = Call("startBettingRound")
        /\ calls[4] = Call("awaitPlayerAction")
    BY <2>1, StreetList
  <2>4. CASE k = 1
    <3>1. Head(todo).op = "changeStage" /\ Head(todo).arg = NextStage(settled.stage)
      BY <2>2, <2>3, <2>4 DEF ChangeStage, CallWith
    <3>. QED
      BY <1>8, <2>4, <3>1 DEF Where
  <2>5. CASE k = 2
    <3>1. Head(todo).op \in Plain
      BY <2>2, <2>3, <2>5 DEF Call
    <3>. QED
      BY <1>1, <3>1
  <2>6. CASE k = 3
    <3>1. Head(todo).op = "startBettingRound"
      BY <2>2, <2>3, <2>6 DEF Call
    <3>. QED
      BY <1>8, <2>6, <3>1 DEF Where
  <2>7. CASE k = 4
    <3>1. Head(todo).op = "awaitPlayerAction"
      BY <2>2, <2>3, <2>7 DEF Call
    <3>. QED
      BY <2>2, <3>1 DEF Where
  <2>. QED
    BY <2>4, <2>5, <2>6, <2>7
<1>9. ASSUME NEW e \in A, ToShowdown(todo, e) \/ RunningOut(todo, e)
      PROVE  Where(A, todo)
  <2>1. Head(todo) \in {ChangeStage("SHOWDOWN"), Call("dealCommunityCards")}
    BY <1>9, BeforeShowdown DEF ToShowdown, RunningOut
  <2>2. \/ Head(todo).op = "changeStage" /\ Head(todo).arg = "SHOWDOWN"
        \/ Head(todo).op = "dealCommunityCards"
    BY <2>1 DEF Call, ChangeStage, CallWith
  <2>. QED
    BY <2>2 DEF Where
<1>10. ASSUME NEW e \in A, NEW k \in 1..5, ShowingDown(todo, e, k)
       PROVE  Where(A, todo)
  <2>0. todo = From(ShowdownCalls, k) /\ k \in 1..7
    BY <1>10 DEF ShowingDown
  <2>1. Head(todo) = ShowdownCalls[k]
    BY <2>0, ShowdownList DEF IsList
  <2>2. CASE k = 5
    <3>1. Head(todo).op = "splitPot"
      BY <2>1, <2>2, ShowdownList DEF Call
    <3>2. control = "awaiting" /\ settled.control = "awaiting" /\ declared = settled.declared
      BY <1>10 DEF ShowingDown, At
    <3>. QED
      BY <3>1, <3>2 DEF Where
  <2>3. CASE k \in {2, 3}
    <3>1. Head(todo).op \in Plain
      BY <2>1, <2>3, ShowdownList DEF Call
    <3>. QED
      BY <1>1, <3>1
  <2>4. CASE k \in {1, 4}
    <3>1. Head(todo).op = "setCurrentStage" /\ Head(todo).arg \in {"SHOWDOWN", "SETTLEMENT"}
      BY <2>1, <2>4, ShowdownList DEF CallWith
    <3>. QED
      BY <3>1 DEF Where
  <2>. QED
    BY <2>2, <2>3, <2>4
<1>. QED
  BY <1>2, <1>3, <1>4, <1>5, <1>6, <1>7, <1>8, <1>9, <1>10 DEF Reached, Resting

\* CallPlaced: where a call is that is made.
LEMMA CallPlaced ==
    ASSUME NEW A, BusInv(A), NEW op, Calling(op)
    PROVE  /\ Reached(A, Top) /\ Where(A, Top)
           /\ Head(Top).do = "call" /\ Head(Top).op = op /\ Task = Head(Top)
<1>1. /\ stack # << >> /\ control # "trapped" /\ Top # << >>
      /\ Head(Top).do = "call" /\ Head(Top).op = op /\ Task = Head(Top)
  BY DEF Calling, Busy, Running, Task
<1>2. PICK todo : IsStack(stack) /\ Laid(stack, todo) /\ Reached(A, todo)
  BY <1>1 DEF BusInv
<1>3. ~Watched(Head(Top))
  BY <1>1 DEF Watched
<1>4. todo = Top
  BY <1>1, <1>2, <1>3, LaidCalled DEF Top
<1>. QED
  BY <1>1, <1>2, <1>4, ReachedWhere

\* BlindIsSo: a blind is the bet of the seat that posted it.
LEMMA BlindIsSo ==
    ASSUME NEW t \in TableType
    PROVE  LET u == StartBettingRound(t, "PREFLOP")
               v == PostBlind(u, SbSeat, SmallBlind)
           IN  /\ v.bet[SbSeat] = SmallBlind
               /\ PostBlind(v, BbSeat, BigBlind).bet[BbSeat] = BigBlind
<1>. DEFINE Wide == [state : [Seat -> PlayerState], is_acted : [Seat -> BOOLEAN],
                     chips : [Seat -> Int], bet : [Seat -> Int], committed : [Seat -> Int],
                     round_bet : Int, min_raise_delta : Int, acting_player : Seat \cup {-1},
                     pending_player_count : Nat, has_incomplete_raise : BOOLEAN, pot : Int]
<1>1. SbSeat \in Seat /\ BbSeat \in Seat /\ SmallBlind \in Int /\ BigBlind \in Int
  BY SeatArithmetic, BigBlindAssumption DEF SmallBlind
<1>2. StartBettingRound(t, "PREFLOP") \in TableType
  BY StartedRound
<1>3. TableType \subseteq Wide
  BY DEF TableType
<1>4. ASSUME NEW u \in Wide, NEW s \in Seat, NEW amount \in Int
      PROVE  PostBlind(u, s, amount) \in Wide /\ PostBlind(u, s, amount).bet[s] = amount
  <2>0. u.chips[s] - amount \in Int /\ u.committed[s] + amount \in Int /\ u.pot + amount \in Int
    OBVIOUS
  <2>2. /\ [u.chips EXCEPT ![s] = u.chips[s] - amount] \in [Seat -> Int]
        /\ [u.committed EXCEPT ![s] = u.committed[s] + amount] \in [Seat -> Int]
    BY <2>0
  <2>1. MoveChipsToPot(u, s, amount) \in Wide
    BY <2>0, <2>2 DEF MoveChipsToPot
  <2>. QED
    BY <2>1 DEF PostBlind
<1>. HIDE DEF Wide
<1>. QED
  BY <1>1, <1>2, <1>3, <1>4

-----------------------------------------------------------------------------
(* What a call says.                                                       *)

\* The call that is done says e.
Said(e) ==
    \/ /\ StartGameCall
       /\ \E count \in StartedCounts : e = StartedEvent(count)
    \/ AwaitPlayerAction /\ e = Event!WaitingForAction(table.acting_player, Context(table))
    \/ HandlePlayerActionCall /\ ActedEvent(table.acting_player, Task.arg) = <<e>>
    \/ PostSmallBlind /\ e = Event!BlindPosted(SbSeat, SmallBlind, FALSE)
    \/ PostBigBlind /\ e = Event!BlindPosted(BbSeat, BigBlind, TRUE)
    \/ DealCommunityCardsCall /\ e = Event!CommunityCardsDealt(community')
    \/ SplitPotCall /\ e = Event!PotSplited(MapThenSumSet(LAMBDA p : p.chips, pots'))
    \/ e.type \in {"NewPlayerJoined", "StageChanged", "BettingRoundStarted",
                   "HoleCardsRevealed", "WinnerDeclared", "GameEnded"}

\* Those who watch e are next; and if e asks for an answer, nothing else is left.
Tells(e) ==
    /\ e.type \in Announcements /\ Said(e)
    /\ stack' # << >> /\ Publish(e) # << >> /\ Head(stack') = Publish(e)
    /\ e.type = "WaitingForAction" =>
          /\ e = Event!WaitingForAction(settled'.table.acting_player, Context(settled'.table))
          /\ Steady' /\ control' = "awaiting" /\ Finished(Tail(stack'))

\* After the step nobody who watches is next, or those are who watch what was
\* said, or each player in the hand is told of its cards.
Heard == Quiet(stack') \/ (\E e : Tells(e)) \/ DealHoleCardsCall

\* CallTells: a call says nothing, or one thing, or deals.
LEMMA CallTells ==
    ASSUME PlainCall
    PROVE  \/ Enter(<< >>) \/ DealHoleCardsCall
           \/ \E e : e.type \in Announcements /\ Enter(Publish(e)) /\ Said(e)
<1>. DEFINE Spoken == \/ Enter(<< >>)
                     \/ \E e : e.type \in Announcements /\ Enter(Publish(e)) /\ Said(e)
<1>1. CASE JoinNewPlayer
  <2>1. PICK e : e = Event!NewPlayerJoined(player_count, player_count + 1)
    OBVIOUS
  <2>2. Enter(Publish(e))
    BY <1>1, <2>1 DEF JoinNewPlayer
  <2>3. e.type = "NewPlayerJoined"
    BY <2>1 DEF Event!NewPlayerJoined
  <2>. QED
    BY <2>2, <2>3 DEF Said, Announcements
<1>2. CASE StartGameCall
  <2>1. PICK count \in StartedCounts : Enter(Publish(StartedEvent(count)))
    BY <1>2 DEF StartGameCall
  <2>2. StartedEvent(count).type = "GameStarted"
    BY DEF StartedEvent, Event!GameStarted
  <2>. QED
    BY <1>2, <2>1, <2>2 DEF Said, Announcements
<1>3. CASE ChangeStageCall
  <2>1. PICK e : e = Event!StageChanged(stage')
    OBVIOUS
  <2>2. Enter(Publish(e))
    BY <1>3, <2>1, PublishOne DEF ChangeStageCall, SetStage
  <2>3. e.type = "StageChanged"
    BY <2>1 DEF Event!StageChanged
  <2>. QED
    BY <2>2, <2>3 DEF Said, Announcements
<1>4. CASE SetCurrentStageCall
  BY <1>4, PublishNone DEF SetCurrentStageCall, SetStage
<1>5. CASE ShuffleDeck \/ ComparePlayerHandsCall
  BY <1>5 DEF ShuffleDeck, ComparePlayerHandsCall
<1>6. CASE DealHoleCardsCall
  BY <1>6
<1>7. CASE DealCommunityCardsCall
  <2>1. PICK e : e = Event!CommunityCardsDealt(community')
    OBVIOUS
  <2>2. Enter(Publish(e))
    BY <1>7, <2>1 DEF DealCommunityCardsCall
  <2>3. e.type \in Announcements
    BY <2>1 DEF Event!CommunityCardsDealt, Announcements
  <2>. QED
    BY <1>7, <2>1, <2>2, <2>3 DEF Said
<1>8. CASE StartBettingRoundCall
  <2>1. PICK e : e = Event!BettingRoundStarted
    OBVIOUS
  <2>2. Enter(Publish(e))
    BY <1>8, <2>1, PublishOne DEF StartBettingRoundCall, TableCall
  <2>3. e.type = "BettingRoundStarted"
    BY <2>1 DEF Event!BettingRoundStarted
  <2>. QED
    BY <2>2, <2>3 DEF Said, Announcements
<1>9. CASE PostSmallBlind
  <2>1. PICK e : e = Event!BlindPosted(SbSeat, SmallBlind, FALSE)
    OBVIOUS
  <2>2. Enter(Publish(e))
    BY <1>9, <2>1, PublishOne DEF PostSmallBlind, TableCall
  <2>3. e.type \in Announcements
    BY <2>1 DEF Event!BlindPosted, Announcements
  <2>. QED
    BY <1>9, <2>1, <2>2, <2>3 DEF Said
<1>10. CASE PostBigBlind
  <2>1. PICK e : e = Event!BlindPosted(BbSeat, BigBlind, TRUE)
    OBVIOUS
  <2>2. Enter(Publish(e))
    BY <1>10, <2>1, PublishOne DEF PostBigBlind, TableCall
  <2>3. e.type \in Announcements
    BY <2>1 DEF Event!BlindPosted, Announcements
  <2>. QED
    BY <1>10, <2>1, <2>2, <2>3 DEF Said
<1>11. CASE MoveActingPlayerCall
  BY <1>11, PublishNone DEF MoveActingPlayerCall, TableCall
<1>12. CASE HandlePlayerActionCall
  <2>. DEFINE events == ActedEvent(table.acting_player, Task.arg)
  <2>1. Enter(PublishAll(events))
    BY <1>12 DEF HandlePlayerActionCall, TableCall
  <2>2. events = << >> \/ \E seat, bet, action : events = <<Event!PlayerActed(seat, bet, action)>>
    BY DEF ActedEvent
  <2>3. ASSUME NEW e, events = <<e>>, e.type = "PlayerActed"
        PROVE  Spoken
    <3>1. Enter(Publish(e))
      BY <2>1, <2>3, PublishOne
    <3>. QED
      BY <1>12, <2>3, <3>1 DEF Said, Announcements
  <2>4. \A seat, bet, action : Event!PlayerActed(seat, bet, action).type = "PlayerActed"
    BY DEF Event!PlayerActed
  <2>5. events = << >> => Spoken
    BY <2>1, PublishNone
  <2>. HIDE DEF events, Spoken
  <2>6. Spoken
    BY <2>2, <2>3, <2>4, <2>5
  <2>. QED
    BY <2>6 DEF Spoken
<1>13. CASE AwaitPlayerAction
  <2>1. PICK e : e = Event!WaitingForAction(table.acting_player, Context(table))
    OBVIOUS
  <2>2. Enter(Publish(e))
    BY <1>13, <2>1 DEF AwaitPlayerAction
  <2>3. e.type \in Announcements
    BY <2>1 DEF Event!WaitingForAction, Announcements
  <2>. QED
    BY <1>13, <2>1, <2>2, <2>3 DEF Said
<1>14. CASE RevealAllHoleCardsCall
  <2>1. PICK e : e = Event!HoleCardsRevealed(revealed')
    OBVIOUS
  <2>2. Enter(Publish(e))
    BY <1>14, <2>1 DEF RevealAllHoleCardsCall
  <2>3. e.type = "HoleCardsRevealed"
    BY <2>1 DEF Event!HoleCardsRevealed
  <2>. QED
    BY <2>2, <2>3 DEF Said, Announcements
<1>15. CASE SplitPotCall
  <2>1. PICK e : e = Event!PotSplited(MapThenSumSet(LAMBDA p : p.chips, pots'))
    OBVIOUS
  <2>2. Enter(Publish(e))
    BY <1>15, <2>1 DEF SplitPotCall
  <2>3. e.type \in Announcements
    BY <2>1 DEF Event!PotSplited, Announcements
  <2>. QED
    BY <1>15, <2>1, <2>2, <2>3 DEF Said
<1>16. CASE FinishGameCall
  <2>1. PICK e : e = Event!GameEnded
    OBVIOUS
  <2>2. Enter(Publish(e))
    BY <1>16, <2>1 DEF FinishGameCall
  <2>3. e.type = "GameEnded"
    BY <2>1 DEF Event!GameEnded
  <2>. QED
    BY <2>2, <2>3 DEF Said, Announcements
<1>. QED
  BY <1>1, <1>2, <1>3, <1>4, <1>5, <1>6, <1>7, <1>8, <1>9, <1>10, <1>11, <1>12, <1>13,
     <1>14, <1>15, <1>16 DEF PlainCall

\* CallHeard: a call leaves the rest of its handler on top, or what it says.
LEMMA CallHeard ==
    ASSUME NEW todo, Placed(todo), Ordered(todo), PlainCall
    PROVE  Heard
<1>1. ASSUME Enter(<< >>)
      PROVE  Heard
  <2>1. stack' # << >> /\ Head(stack') = Tail(todo)
    BY <1>1, NoTasks, EnteredHead
  <2>. QED
    BY <2>1 DEF Ordered, Heard, Quiet, Watched
<1>2. ASSUME NEW e, e.type \in Announcements, Enter(Publish(e)), Said(e)
      PROVE  Heard
  <2>. DEFINE U == {Deliver(to, e) : to \in STRING}
  <2>1. Publish(e) \in Seq(U)
    BY <1>2, PublishAnnouncement
  <2>. HIDE DEF U
  <2>2. /\ stack' # << >>
        /\ Head(stack') = IF Publish(e) = << >> THEN Tail(todo) ELSE Publish(e)
        /\ Publish(e) # << >> /\ Tail(todo) = << >> => Finished(Tail(stack'))
    BY <1>2, <2>1, EnteredHead
  <2>3. CASE Publish(e) = << >>
    BY <2>2, <2>3 DEF Ordered, Heard, Quiet, Watched
  <2>4. CASE Publish(e) # << >>
    <3>2. ASSUME e.type = "WaitingForAction"
          PROVE  /\ e = Event!WaitingForAction(settled'.table.acting_player, Context(settled'.table))
                 /\ Steady' /\ control' = "awaiting" /\ Finished(Tail(stack'))
      <4>1. AwaitPlayerAction /\ e = Event!WaitingForAction(table.acting_player, Context(table))
        <5>1. \A seat, bet, action : Event!PlayerActed(seat, bet, action).type # "WaitingForAction"
          BY DEF Event!PlayerActed
        <5>2. ASSUME ActedEvent(table.acting_player, Task.arg) = <<e>>
              PROVE  FALSE
          <6>1. PICK events : events = ActedEvent(table.acting_player, Task.arg)
            OBVIOUS
          <6>2. events = << >> \/ \E seat, bet, action : events = <<Event!PlayerActed(seat, bet, action)>>
            BY <6>1 DEF ActedEvent
          <6>. QED
            BY <3>2, <5>1, <5>2, <6>1, <6>2
        <5>. QED
          BY <1>2, <3>2, <5>2
          DEF Said, StartedEvent, Event!GameStarted, Event!BlindPosted, Event!CommunityCardsDealt,
              Event!PotSplited
      <4>2. Calling("awaitPlayerAction") /\ control' = "awaiting" /\ HoldemStepEnds /\ table' = table
        BY <4>1 DEF AwaitPlayerAction
      <4>3. Head(todo).do = "call" /\ Head(todo).op = "awaitPlayerAction"
        BY <4>2 DEF Calling, Task, Placed
      <4>4. Tail(todo) = << >>
        BY <4>3 DEF Ordered
      <4>5. SettledNow
        BY <4>2 DEF HoldemStepEnds, SettledNow, Now
      <4>6. Steady' /\ settled'.table = table
        BY <4>2, <4>5 DEF SettledNow, Steady, At, Hidden
      <4>. QED
        BY <2>2, <2>4, <4>1, <4>2, <4>4, <4>6
    <3>. QED
      BY <1>2, <2>2, <2>4, <3>2 DEF Heard, Tells
  <2>. QED
    BY <2>3, <2>4
<1>. QED
  BY <1>1, <1>2, CallTells DEF Heard

\* BusPlaced: what a call is made of is all that is left to do.
LEMMA BusPlaced ==
    ASSUME NEW A, BusInv(A), BusStep, Top # << >>
    PROVE  Placed(Top) /\ Ordered(Top) /\ Reached(A, Top) /\ IsStack(stack)
<1>1. Running /\ ~Watched(Head(Top))
  BY BusTask
<1>2. PICK todo : IsStack(stack) /\ stack # << >> /\ Laid(stack, todo) /\ Reached(A, todo)
  BY <1>1 DEF BusInv, Running
<1>3. todo = Top /\ Finished(Tail(stack))
  BY <1>1, <1>2, LaidCalled DEF Top
<1>4. Placed(Top)
  BY <1>1, <1>2, <1>3 DEF Placed
<1>. QED
  BY <1>2, <1>3, <1>4, ReachedOrdered

\* BusHeard: so do the others.
LEMMA BusHeard ==
    ASSUME NEW A, BusInv(A), BusStep
    PROVE  Heard
<1>1. ControllerHandles \/ Branch \/ PlainCall \/ DistributePotsCall \/ Return
  BY DEF BusStep, GameModelCall, PlainCall
<1>2. Running /\ (Top = << >> <=> Return) /\ (Top # << >> => ~Watched(Head(Top)))
  BY BusTask
<1>3. PICK todo : IsStack(stack) /\ stack # << >> /\ Laid(stack, todo) /\ Reached(A, todo)
  BY <1>2 DEF BusInv, Running
<1>4. CASE Top = << >>
  <2>1. stack' = Tail(stack)
    BY <1>2, <1>4 DEF Return
  <2>2. Holds(stack', todo) /\ IsStack(stack')
    BY <1>3, <1>4, <2>1, PoppedHolds DEF Top
  <2>3. todo # << >> => ~Watched(Head(todo))
    BY <1>3, ReachedOrdered DEF Ordered
  <2>4. Quiet(stack')
    BY <2>2, <2>3, HeldQuiet
  <2>. QED
    BY <2>4 DEF Heard
<1>5. CASE Top # << >>
  <2>1. todo = Top /\ Finished(Tail(stack))
    BY <1>2, <1>3, <1>5, LaidCalled DEF Top
  <2>2. Placed(todo) /\ Ordered(todo)
    BY <1>5, <2>1, BusPlaced
  <2>3. CASE PlainCall
    BY <2>2, <2>3, CallHeard
  <2>4. CASE ControllerHandles
    <3>1. Head(todo).do = "deliver" /\ Enter(CallsOf(Head(todo).event))
      BY <2>1, <2>4 DEF ControllerHandles, Delivering, Task
    <3>3. Head(todo).event.type \in Requests
      BY <2>2, <3>1 DEF Ordered
    <3>4. \E T : \E tasks \in Seq(T) : /\ Enter(tasks) /\ tasks # << >> /\ Head(tasks).do = "call"
      <4>. DEFINE x == CallWith("handlePlayerAction", Head(todo).event)
      <4>1. CASE Head(todo).event.type = "PlayerJoinRequest"
        <5>1. Enter(<<Call("joinNewPlayer")>>)
          BY <3>1, <4>1 DEF CallsOf
        <5>2. /\ <<Call("joinNewPlayer")>> \in Seq({Call("joinNewPlayer")})
              /\ <<Call("joinNewPlayer")>> # << >> /\ Head(<<Call("joinNewPlayer")>>).do = "call"
          BY DEF Call
        <5>. QED
          BY <5>1, <5>2
      <4>2. CASE Head(todo).event.type = "StartGame"
        <5>1. Enter(StartCalls)
          BY <3>1, <4>2, HandlersCalls DEF CallsOf, Event!StartGame
        <5>2. StartCalls # << >> /\ Head(StartCalls).do = "call"
          <6>1. 1 \in 1..8
            OBVIOUS
          <6>2. StartCalls # << >> /\ Head(StartCalls) = Call("startGame")
            BY <6>1, StartList DEF IsList
          <6>. QED
            BY <6>2 DEF Call
        <5>3. StartCalls \in Seq({StartCalls[i] : i \in 1..8})
          BY DEF StartCalls
        <5>. QED
          BY <5>1, <5>2, <5>3
      <4>3. CASE Head(todo).event.type = "PlayerAction"
        <5>1. Enter(<<x, Call("branch")>>)
          BY <3>1, <4>3 DEF CallsOf
        <5>2. x.do = "call"
          BY DEF CallWith
        <5>. HIDE DEF x
        <5>3. /\ <<x, Call("branch")>> \in Seq({x, Call("branch")})
              /\ <<x, Call("branch")>> # << >> /\ Head(<<x, Call("branch")>>).do = "call"
          BY <5>2
        <5>. QED
          BY <5>1, <5>3
      <4>. QED
        BY <3>3, <4>1, <4>2, <4>3 DEF Requests
    <3>6. PICK T : \E tasks \in Seq(T) : Enter(tasks) /\ tasks # << >> /\ Head(tasks).do = "call"
      BY <3>4
    <3>7. PICK tasks \in Seq(T) : Enter(tasks) /\ tasks # << >> /\ Head(tasks).do = "call"
      BY <3>6
    <3>8. Head(stack') = tasks
      BY <2>2, <3>7, EnteredHead
    <3>. QED
      BY <3>7, <3>8 DEF Heard, Quiet, Watched
  <2>5. CASE Branch
    <3>1. stack' = <<CallsAfterAction \o Tail(Top)>> \o Tail(stack)
      BY <2>5 DEF Branch, Become
    <3>2. Tail(Top) = << >>
      BY <2>1, <2>2, <2>5 DEF Branch, Calling, Task, Ordered
    <3>3. PICK calls : calls = CallsAfterAction
      OBVIOUS
    <3>4. \E T : calls \in Seq(T) /\ calls # << >> /\ Head(calls).do = "call"
      BY <3>3, AfterAction
    <3>5. PICK T : calls \in Seq(T) /\ calls # << >> /\ Head(calls).do = "call"
      BY <3>4
    <3>6. calls \o << >> = calls
      BY <3>5
    <3>7. stack' = <<calls>> \o Tail(stack)
      BY <3>1, <3>2, <3>3, <3>6
    <3>8. stack' # << >> /\ Head(stack') = calls
      BY <1>3, <3>5, <3>7, LaidBecome, <2>1
    <3>. QED
      BY <3>5, <3>8 DEF Heard, Quiet, Watched
  <2>6. CASE DistributePotsCall
    <3>1. CASE Become(<< >>)
      <4>1. stack' = <<Tail(Top)>> \o Tail(stack)
        <5>1. \E T : Tail(Top) \in Seq(T)
          <6>1. PICK T : stack \in Seq(Seq(T))
            BY <1>3 DEF IsStack
          <6>. QED
            BY <1>3, <1>5, <6>1 DEF Top
        <5>2. << >> \o Tail(Top) = Tail(Top)
          BY <5>1
        <5>. QED
          BY <3>1, <5>2 DEF Become
      <4>2. Head(stack') = Tail(todo)
        <5>1. PICK T : stack \in Seq(Seq(T))
          BY <1>3 DEF IsStack
        <5>2. Tail(stack) \in Seq(Seq(T)) /\ Tail(Top) \in Seq(T)
          BY <1>3, <1>5, <5>1 DEF Top
        <5>. QED
          BY <2>1, <4>1, <5>2, Pushed
      <4>. QED
        BY <2>2, <4>2 DEF Ordered, Heard, Quiet, Watched
    <3>2. ASSUME NEW e, e.type = "WinnerDeclared", stack' = <<Publish(e)>> \o stack
          PROVE  Heard
      <4>1. PICK T : stack \in Seq(Seq(T))
        BY <1>3 DEF IsStack
      <4>. DEFINE U == {Deliver(to, e) : to \in STRING}
                  W == Seq(T \cup U)
      <4>2. e.type \in Announcements /\ Publish(e) \in Seq(U)
        BY <3>2, PublishAnnouncement DEF Announcements
      <4>. HIDE DEF U
      <4>3. stack \in Seq(W) /\ Publish(e) \in W
        BY <4>1, <4>2, WiderStack
      <4>. HIDE DEF W
      <4>4. stack' # << >> /\ Head(stack') = Publish(e)
        BY <3>2, <4>3, Pushed
      <4>5. CASE Publish(e) = << >>
        BY <4>4, <4>5 DEF Heard, Quiet
      <4>6. CASE Publish(e) # << >>
        BY <3>2, <4>2, <4>4, <4>6 DEF Heard, Said, Tells
      <4>. QED
        BY <4>5, <4>6
    <3>3. PICK winners : Become(<< >>) \/ stack' = <<Publish(Event!WinnerDeclared(winners))>> \o stack
      BY <2>6 DEF DistributePotsCall
    <3>4. Event!WinnerDeclared(winners).type = "WinnerDeclared"
      BY DEF Event!WinnerDeclared
    <3>. QED
      BY <3>1, <3>2, <3>3, <3>4
  <2>. QED
    BY <1>1, <1>2, <1>5, <2>3, <2>4, <2>5, <2>6
<1>. QED
  BY <1>4, <1>5

-----------------------------------------------------------------------------
(* The hand as it was where the game's last step ended.                    *)

\* The theorems about that module's specification, for the variables that are
\* kept of it and for whatever may be answered.
Game == INSTANCE ConsoleProofs WITH
    TargetBet <- Int,
    control <- settled.control, stage <- settled.stage,
    player_count <- settled.player_count, table <- settled.table,
    community <- settled.community, cards_dealt <- settled.cards_dealt,
    pots <- settled.pots, unpaid <- settled.unpaid, hand_value <- settled.hand_value,
    revealed <- settled.revealed, declared <- settled.declared, buy_in <- settled.buy_in

\* GameOps: an operator of this instance on a table is the operator itself, too.
LEMMA GameOps ==
    /\ \A t, e : Game!HandlePlayerAction(t, e) = HandlePlayerAction(t, e)
    /\ \A t : Game!Context(t) = Context(t)
    /\ \A c, x : Game!ConsoleAccepts(c, x) <=> ConsoleAccepts(c, x)
    /\ \A t : Game!ActiveSeats(t) = ActiveSeats(t)
    /\ \A t : Game!AliveSeats(t) = AliveSeats(t)
    /\ \A t : Game!IsFlowEnded(t) <=> IsFlowEnded(t)
    /\ \A t : Game!MoveActingPlayer(t) = MoveActingPlayer(t)
    /\ \A t, s : Game!StartBettingRound(t, s) = StartBettingRound(t, s)
    /\ \A t : Game!PostBlinds(t) = PostBlinds(t)
    /\ \A s : Game!BoardSize(s) = BoardSize(s) /\ Game!NextStage(s) = NextStage(s)
    /\ \A t : Game!SplitPot(t) = SplitPot(t)
    /\ \A t, w : Game!DistributePot(t, w) = DistributePot(t, w)
    /\ \A S : Game!Cardinality(S) = Cardinality(S)
<1>1. \A t : Game!ActiveSeats(t) = ActiveSeats(t)
  BY SMT DEF Game!ActiveSeats, ActiveSeats, Game!Seat, Seat, Game!Cardinality,
      Cardinality
<1>2. \A t : Game!AliveSeats(t) = AliveSeats(t)
  BY SMT DEF Game!AliveSeats, AliveSeats, Game!AliveStates, AliveStates, Game!Seat,
      Seat, Game!Cardinality, Cardinality
<1>3. \A t : Game!IsFlowEnded(t) <=> IsFlowEnded(t)
  BY SMT DEF Game!IsFlowEnded, IsFlowEnded, Game!AliveSeats, AliveSeats,
      Game!AliveStates, AliveStates, Game!Seat, Seat, Game!Cardinality, Cardinality
<1>4. \A t : Game!MoveActingPlayer(t) = MoveActingPlayer(t)
  BY SMT DEF Game!MoveActingPlayer, MoveActingPlayer, Game!NextActiveSeat,
      NextActiveSeat, Game!IsNextActive, IsNextActive, Game!SeatAfter, SeatAfter,
      Game!Cardinality, Cardinality
<1>5. \A t, s : Game!StartBettingRound(t, s) = StartBettingRound(t, s)
  BY SMT DEF Game!StartBettingRound, StartBettingRound, Game!SetupToStart, SetupToStart,
      Game!SetupBetting, SetupBetting, Game!ActiveSeats, ActiveSeats,
      Game!NextActiveSeat, NextActiveSeat, Game!IsNextActive, IsNextActive, Game!Seat,
      Seat, Game!BtnSeat, BtnSeat, Game!SeatAfter, SeatAfter, Game!NextSeat, NextSeat,
      Game!SbSeat, SbSeat, Game!BbSeat, BbSeat, Game!UtgSeat, UtgSeat, Game!Cardinality,
      Cardinality
<1>6. \A t : Game!PostBlinds(t) = PostBlinds(t)
  BY SMT DEF Game!PostBlinds, PostBlinds, Game!PostBlind, PostBlind,
      Game!MoveChipsToPot, MoveChipsToPot, Game!SmallBlind, SmallBlind, Game!Seat, Seat,
      Game!BtnSeat, BtnSeat, Game!SeatAfter, SeatAfter, Game!NextSeat, NextSeat,
      Game!SbSeat, SbSeat, Game!BbSeat, BbSeat, Game!UtgSeat, UtgSeat, Game!Cardinality,
      Cardinality
<1>7. \A s : Game!BoardSize(s) = BoardSize(s) /\ Game!NextStage(s) = NextStage(s)
  BY SMT DEF Game!BoardSize, BoardSize, Game!NextStage, NextStage, Game!Cardinality,
      Cardinality
<1>8. \A t : Game!SplitPot(t) = SplitPot(t)
  BY SMT DEF Game!SplitPot, SplitPot, Game!LoadSidePots, LoadSidePots, Game!SidePot,
      SidePot, Game!PotLevels, PotLevels, Game!LevelBelow, LevelBelow,
      Game!PotContributors, PotContributors, Game!PlayingSeats, PlayingSeats,
      Game!PlayingStates, PlayingStates, Game!Seat, Seat, Game!Max, Max,
      Game!Cardinality, Cardinality
<1>9. \A t, w : Game!DistributePot(t, w) = DistributePot(t, w)
  BY SMT DEF Game!DistributePot, DistributePot, Game!Award, Award, Game!TotalAwarded,
      TotalAwarded, Game!OrderFromButton, OrderFromButton, Game!DistanceFromSeatLeft,
      DistanceFromSeatLeft, Game!Seat, Seat, Game!BtnSeat, BtnSeat, Game!SeatAfter,
      SeatAfter, Game!NextSeat, NextSeat, Game!SbSeat, SbSeat, Game!BbSeat, BbSeat,
      Game!UtgSeat, UtgSeat, Game!Cardinality, Cardinality
<1>10. \A S : Game!Cardinality(S) = Cardinality(S)
  BY SMT DEF Game!Cardinality, Cardinality
<1>11. \A t : Game!Context(t) = Context(t)
  BY SMT DEF Game!Context, Context, Game!CanPlayerRaise, CanPlayerRaise
<1>12. \A c, x : Game!ConsoleAccepts(c, x) <=> ConsoleAccepts(c, x)
  BY SMT DEF Game!ConsoleAccepts, ConsoleAccepts, Game!ConsoleDecides, ConsoleDecides,
      Game!MinRaise, MinRaise
<1>13. \A c, x : Game!ProcessBetting(c, x) = ProcessBetting(c, x)
  BY SMT DEF Game!ProcessBetting, ProcessBetting, Game!ChipsCommitted, ChipsCommitted,
      Game!MinRaise, MinRaise, Game!IsAllIn, IsAllIn, Game!IsChipsEnough, IsChipsEnough,
      Game!IsIncompleteCall, IsIncompleteCall, Game!IsCompleteCall, IsCompleteCall,
      Game!IsIncompleteRaise, IsIncompleteRaise, Game!IsCompleteRaise, IsCompleteRaise,
      Game!AllInAction, AllInAction, Game!GetAction, GetAction, Game!Greater, Greater
<1>14. \A t, a : Game!ApplyAction(t, a) = ApplyAction(t, a)
  BY SMT DEF Game!ApplyAction, ApplyAction, Game!ActiveSeats, ActiveSeats, Game!Raises,
      Raises, Game!AllIns, AllIns, Game!Seat, Seat, Game!Cardinality, Cardinality
<1>15. \A r : Game!IsValid(r) <=> IsValid(r)
  BY SMT DEF Game!IsValid, IsValid
<1>16. \A t, r : Game!PlaceBet(t, r) = PlaceBet(t, r)
  BY SMT, <1>14 DEF Game!PlaceBet, PlaceBet, Game!MoveChipsToPot, MoveChipsToPot
<1>17. \A t, e : Game!HandlePlayerAction(t, e) = HandlePlayerAction(t, e)
  BY SMT, <1>11, <1>13, <1>14, <1>15, <1>16 DEF Game!HandlePlayerAction, HandlePlayerAction
<1>. QED
  BY <1>1, <1>2, <1>3, <1>4, <1>5, <1>6, <1>7, <1>8, <1>9, <1>10, <1>11, <1>12, <1>17

\* SameStart: it starts as Atomic does.
LEMMA SameStart == Atomic!Init => Game!Init
BY DEF Game!Init, Atomic!Init, Game!NewTable, Atomic!NewTable, Game!Seat, Atomic!Seat

\* SameShowdown: a showdown of Atomic is one of this instance.
LEMMA SameShowdown ==
    ASSUME NEW t, NEW board, Atomic!ProcessShowdownStage(t, board)
    PROVE  Game!ProcessShowdownStage(t, board)
BY AtomicOps, GameOps
DEF Atomic!ProcessShowdownStage, Game!ProcessShowdownStage,
    Atomic!RevealAllHoleCards, Game!RevealAllHoleCards,
    Atomic!ComparePlayerHands, Game!ComparePlayerHands,
    Atomic!EvaluationMayTrap, Game!EvaluationMayTrap

\* SameAnswer: so is an answer.
LEMMA SameAnswer ==
    ASSUME NEW event, Atomic!PlayerAction(event)
    PROVE  Game!PlayerAction(event)
<1>. DEFINE t == HandlePlayerAction(settled.table, event)
<1>1. /\ settled.control = "awaiting"
      /\ \/ Atomic!ContinueRound(t) \/ Atomic!AwardUncontested(t) \/ Atomic!RunOutBoard(t)
         \/ Atomic!NextStreet(t) \/ Atomic!RiverShowdown(t)
  BY AtomicOps DEF Atomic!PlayerAction
<1>. HIDE DEF t
<1>2. Atomic!ContinueRound(t) => Game!ContinueRound(t)
  BY AtomicOps, GameOps DEF Atomic!ContinueRound, Game!ContinueRound,
     Atomic!showdownVars, Game!showdownVars
<1>3. Atomic!AwardUncontested(t) => Game!AwardUncontested(t)
  BY AtomicOps, GameOps, SameShowdown DEF Atomic!AwardUncontested, Game!AwardUncontested
<1>4. Atomic!RunOutBoard(t) => Game!RunOutBoard(t)
  BY AtomicOps, GameOps, SameShowdown
  DEF Atomic!RunOutBoard, Game!RunOutBoard, Atomic!DealCommunityCards, Game!DealCommunityCards
<1>5. Atomic!StreetsOpen(t) => Game!StreetsOpen(t)
  BY AtomicOps, GameOps DEF Atomic!StreetsOpen, Game!StreetsOpen
<1>6. Atomic!NextStreet(t) => Game!NextStreet(t)
  BY <1>5, AtomicOps, GameOps
  DEF Atomic!NextStreet, Game!NextStreet, Atomic!DealCommunityCards, Game!DealCommunityCards,
      Atomic!showdownVars, Game!showdownVars
<1>7. Atomic!RiverShowdown(t) => Game!RiverShowdown(t)
  BY <1>5, SameShowdown DEF Atomic!RiverShowdown, Game!RiverShowdown
<1>. QED
  BY <1>1, <1>2, <1>3, <1>4, <1>6, <1>7, GameOps DEF Game!PlayerAction, t

\* SamePot: so is the payment of a pot.
LEMMA SamePot ==
    ASSUME NEW p
    PROVE  /\ Atomic!DistributePots(p) => Game!DistributePots(p)
           /\ Atomic!DistributeDeadPot(p) => Game!DistributeDeadPot(p)
<1>1. Atomic!NextPot(p) = Game!NextPot(p)
  BY DEF Atomic!NextPot, Game!NextPot
<1>2. Atomic!Contenders(p) = Game!Contenders(p)
  BY AtomicOps, GameOps DEF Atomic!Contenders, Game!Contenders
<1>3. \A S : Atomic!DetermineWinners(S) = Game!DetermineWinners(S)
  BY DEF Atomic!DetermineWinners, Game!DetermineWinners
<1>4. Atomic!DistributePots(p) => Game!DistributePots(p)
  BY <1>1, <1>2, <1>3, AtomicOps, GameOps
  DEF Atomic!DistributePots, Game!DistributePots, Atomic!EvaluationMayTrap, Game!EvaluationMayTrap
<1>5. Atomic!DistributeDeadPot(p) => Game!DistributeDeadPot(p)
  BY <1>1, <1>2
  DEF Atomic!DistributeDeadPot, Game!DistributeDeadPot
<1>. QED
  BY <1>4, <1>5

\* SameMoves: so are the steps that are not an answer.
LEMMA SameMoves ==
    /\ Atomic!PlayerJoinRequest => Game!PlayerJoinRequest
    /\ Atomic!SetChips => Game!SetChips
    /\ Atomic!StartGame => Game!StartGame
    /\ Atomic!Settle => Game!Settle
    /\ Atomic!vars' = Atomic!vars <=> Game!vars' = Game!vars
<1>1. Atomic!PlayerJoinRequest => Game!PlayerJoinRequest
  BY DEF Atomic!PlayerJoinRequest, Game!PlayerJoinRequest, Atomic!showdownVars, Game!showdownVars
<1>2. Atomic!SetChips => Game!SetChips
  BY DEF Atomic!SetChips, Game!SetChips, Atomic!showdownVars, Game!showdownVars, Atomic!Seat, Game!Seat
<1>3. Atomic!StartGame => Game!StartGame
  BY AtomicOps, GameOps
  DEF Atomic!StartGame, Game!StartGame, Atomic!showdownVars, Game!showdownVars,
      Atomic!DealHoleCards, Game!DealHoleCards
<1>4. Atomic!Settle => Game!Settle
  BY SamePot
  DEF Atomic!Settle, Game!Settle, Atomic!FinishGame, Game!FinishGame, Atomic!showdownVars, Game!showdownVars
<1>5. Atomic!vars' = Atomic!vars <=> Game!vars' = Game!vars
  BY DEF Atomic!vars, Game!vars, Atomic!showdownVars, Game!showdownVars
<1>. QED
  BY <1>1, <1>2, <1>3, <1>4, <1>5

\* SameSteps: so is every step.
LEMMA SameSteps ==
    ASSUME [Atomic!ConsoleNext]_(Atomic!vars)
    PROVE  [Game!ConsoleNext]_(Game!vars)
<1>1. Atomic!ConsoleTurn => Game!ConsoleTurn
  <2>1. Atomic!PlayerActionEvent \subseteq Game!PlayerActionEvent
    BY TargetBetAssumption DEF Atomic!PlayerActionEvent, Game!PlayerActionEvent
  <2>2. \A event : Atomic!ConsoleAnswers(event) => Game!ConsoleAnswers(event)
    BY AtomicOps, GameOps DEF Atomic!ConsoleAnswers, Game!ConsoleAnswers
  <2>. QED
    BY <2>1, <2>2, SameAnswer DEF Atomic!ConsoleTurn, Game!ConsoleTurn
<1>2. Atomic!Over => Game!Over
  BY SameMoves DEF Atomic!Over, Game!Over
<1>. QED
  BY <1>1, <1>2, SameMoves DEF Atomic!ConsoleNext, Game!ConsoleNext
=============================================================================
