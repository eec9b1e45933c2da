-------------------------- MODULE ConsoleBusProofs --------------------------
(***************************************************************************)
(* The program poker on the bus: its calls and deliveries implement module *)
(* ConsoleGame, the console is asked by the last thing there is to do, and *)
(* what an event says still holds when it is delivered.                    *)
(***************************************************************************)
EXTENDS ConsoleBus, BusProofs

-----------------------------------------------------------------------------
(* What main has to do.                                                    *)

\* FlattenSingles: sequences of one put one after the other.
LEMMA FlattenSingles ==
    ASSUME NEW n \in Nat, n # 0, NEW x, NEW ss, ss = [i \in 1..n |-> <<x>>]
    PROVE  FlattenSeq(ss) = [i \in 1..n |-> x]
<1>1. Len(ss) = n /\ \A i \in 1..n : ss[i] = <<x>>
  OBVIOUS
<1>2. PICK g : Flattens(ss, n, g) /\ FlattenSeq(ss) = g[n]
  BY <1>1, Flattened
<1>3. \A m \in 1..n : g[m] = IF m = 1 THEN <<x>> ELSE g[m - 1] \o <<x>>
  BY <1>1, <1>2 DEF Flattens
<1>. DEFINE P == {m \in 1..n : g[m] # [i \in 1..m |-> x]}
<1>4. ASSUME P # {}
      PROVE  FALSE
  <2>1. PICK m \in P : \A k \in P : m <= k
    <3>1. P \in SUBSET Nat
      OBVIOUS
    <3>. HIDE DEF P
    <3>. QED
      BY <1>4, <3>1, LeastNatural
  <2>2. m \in 1..n /\ g[m] # [i \in 1..m |-> x]
    OBVIOUS
  <2>3. m # 1
    <3>1. <<x>> = [i \in 1..1 |-> x]
      OBVIOUS
    <3>. QED
      BY <1>3, <2>2, <3>1
  <2>4. m - 1 \in 1..n /\ m - 1 \notin P
    BY <2>1, <2>2, <2>3
  <2>5. g[m] = [i \in 1..(m - 1) |-> x] \o <<x>>
    BY <1>3, <2>2, <2>3, <2>4
  <2>6. [i \in 1..(m - 1) |-> x] \o <<x>> = [i \in 1..m |-> x]
    <3>. DEFINE u == [i \in 1..(m - 1) |-> x] \o <<x>>
                v == [i \in 1..m |-> x]
    <3>1. m \in Nat /\ m - 1 \in Nat
      BY <2>2, <2>4
    <3>2. [i \in 1..(m - 1) |-> x] \in Seq({x}) /\ Len([i \in 1..(m - 1) |-> x]) = m - 1
      BY <3>1
    <3>3. u \in Seq({x}) /\ Len(u) = m
      BY <3>1, <3>2
    <3>4. v \in Seq({x}) /\ Len(v) = m
      BY <3>1
    <3>. HIDE DEF u, v
    <3>5. \A i \in 1..Len(u) : u[i] = v[i]
      BY <3>3, <3>4
    <3>. QED
      BY <3>3, <3>4, <3>5, SeqEqual DEF u, v
  <2>. QED
    BY <2>2, <2>5, <2>6
<1>5. n \in 1..n
  OBVIOUS
<1>. QED
  BY <1>2, <1>4, <1>5

\* MainList: what is first, and what is left, of the calls of main.
LEMMA MainList ==
    /\ IsList(MainCalls, NumPlayers + 2) /\ \E T : MainCalls \in Seq(T)
    /\ \A i \in 1..NumPlayers : MainCalls[i] = Deliver("controller", Event!PlayerJoinRequest)
    /\ MainCalls[NumPlayers + 1] = Call("setChips")
    /\ MainCalls[NumPlayers + 2] = Deliver("controller", Event!StartGame)
    /\ From(MainCalls, NumPlayers + 2) = <<Deliver("controller", Event!StartGame)>>
<1>. DEFINE n == NumPlayers
            join == Deliver("controller", Event!PlayerJoinRequest)
            chips == Call("setChips")
            start == Deliver("controller", Event!StartGame)
            T == {join, chips, start}
<1>1. n \in Nat /\ n # 0
  BY NumPlayersAssumption
<1>2. Publish(Event!PlayerJoinRequest) = <<join>> /\ Publish(Event!StartGame) = <<start>>
  <2>1. Event!PlayerJoinRequest.type \in Requests /\ Event!StartGame.type \in Requests
    BY DEF Event!PlayerJoinRequest, Event!StartGame, Requests
  <2>. QED
    BY <2>1, PublishRequest
<1>. HIDE DEF n, join, chips, start
<1>3. FlattenSeq([i \in 1..n |-> <<join>>]) = [i \in 1..n |-> join]
  BY <1>1, FlattenSingles
<1>4. MainCalls = ([i \in 1..n |-> join] \o <<chips>>) \o <<start>>
  BY <1>2, <1>3 DEF MainCalls, n, chips
<1>. DEFINE a == [i \in 1..n |-> join]
            b == a \o <<chips>>
<1>5. a \in Seq(T) /\ Len(a) = n /\ \A i \in 1..n : a[i] = join
  BY <1>1
<1>. HIDE DEF a
<1>6. b \in Seq(T) /\ Len(b) = n + 1 /\ (\A i \in 1..n : b[i] = join) /\ b[n + 1] = chips
  BY <1>1, <1>5
<1>. HIDE DEF b
<1>7. /\ MainCalls \in Seq(T) /\ Len(MainCalls) = n + 2
      /\ \A i \in 1..n : MainCalls[i] = join
      /\ MainCalls[n + 1] = chips /\ MainCalls[n + 2] = start
  <2>1. MainCalls = b \o <<start>>
    BY <1>4 DEF a, b
  <2>. DEFINE c == b \o <<start>>
  <2>2. start \in T
    OBVIOUS
  <2>. HIDE DEF T
  <2>3. <<start>> \in Seq(T) /\ Len(<<start>>) = 1 /\ <<start>>[1] = start
    BY <2>2
  <2>4. c \in Seq(T) /\ Len(c) = n + 2
    BY <1>1, <1>6, <2>3
  <2>5. (\A i \in 1..(n + 1) : c[i] = b[i]) /\ c[n + 2] = start
    BY <1>1, <1>6, <2>3
  <2>. HIDE DEF c
  <2>6. (\A i \in 1..n : c[i] = join) /\ c[n + 1] = chips
    BY <1>1, <1>6, <2>5
  <2>. QED
    BY <2>1, <2>4, <2>5, <2>6 DEF c
<1>. HIDE DEF T
<1>8. IsList(MainCalls, n + 2)
  BY <1>7, ListFromCalls
<1>9. From(MainCalls, n + 2) = <<start>>
  <2>. DEFINE u == From(MainCalls, n + 2)
  <2>1. u = SubSeq(MainCalls, n + 2, n + 2)
    BY <1>7 DEF From
  <2>2. start \in T
    BY DEF T
  <2>3. u \in Seq(T) /\ Len(u) = 1 /\ u[1] = start
    <3>1. \A i \in (n + 2)..(n + 2) : MainCalls[i] \in T
      BY <1>1, <1>7, <2>2
    <3>2. n + 2 \in Int
      BY <1>1
    <3>3. SubSeq(MainCalls, n + 2, n + 2) \in Seq(T) /\ Len(SubSeq(MainCalls, n + 2, n + 2)) = 1
      BY <1>1, <3>1, <3>2, SubSeqProperties
    <3>4. SubSeq(MainCalls, n + 2, n + 2)[1] = MainCalls[n + 2]
      BY <1>1, <1>7, <3>1, <3>2, SubSeqProperties
    <3>. QED
      BY <1>7, <2>1, <3>3, <3>4
  <2>. HIDE DEF u
  <2>4. u = <<start>>
    BY <2>3
  <2>. QED
    BY <2>4 DEF u
<1>. QED
  BY <1>7, <1>8, <1>9 DEF n, join, chips, start

-----------------------------------------------------------------------------
(* Where main is, and what those who watch are being told.                 *)

\* What the console may answer to the WaitingForAction that is out.
Allowed == {e \in PlayerActionEvent : Atomic!ConsoleAnswers(e)}

\* k - 1 players have sat down; the next may be about to.
Seating(k) ==
    /\ Steady /\ control = "seating" /\ player_count = k - 1
    /\ IsStack(stack)
    /\ \/ Holds(stack, From(MainCalls, k))
       \/ /\ k <= NumPlayers /\ stack # << >> /\ Top = <<Call("joinNewPlayer")>>
          /\ Holds(Tail(stack), From(MainCalls, k + 1))

\* After that the stack is what module BusProofs says.
Playing == \E A : A \subseteq Allowed /\ BusInv(A)

\* The frame f is what is left of a publish; when it is of WaitingForAction,
\* nothing else is left to do.
Telling(f) ==
    \E e : /\ e.type \in Announcements
           /\ \E k \in 1..Len(Publish(e)) : f = From(Publish(e), k)
           /\ e.type = "WaitingForAction" =>
                 /\ e = Event!WaitingForAction(settled.table.acting_player, Context(settled.table))
                 /\ Steady /\ control = "awaiting" /\ Finished(Tail(stack))

News == Quiet(stack) \/ Telling(Top)

ConsoleInv ==
    /\ \/ \E k \in 1..(NumPlayers + 1) : Seating(k)
       \/ Playing
    /\ control = "trapped" \/ News

\* MainTask: what main does next.
LEMMA MainTask ==
    ASSUME NEW k \in 1..(NumPlayers + 2)
    PROVE  /\ From(MainCalls, k) # << >>
           /\ Head(From(MainCalls, k)) = MainCalls[k]
           /\ Tail(From(MainCalls, k)) = From(MainCalls, k + 1)
           /\ ~Watched(Head(From(MainCalls, k)))
<1>0. NumPlayers \in Nat
  BY NumPlayersAssumption
<1>1. /\ From(MainCalls, k) # << >> /\ Head(From(MainCalls, k)) = MainCalls[k]
      /\ Tail(From(MainCalls, k)) = From(MainCalls, k + 1)
  BY MainList DEF IsList
<1>2. k \in 1..NumPlayers \/ k = NumPlayers + 1 \/ k = NumPlayers + 2
  BY <1>0
<1>3. MainCalls[k] \in {Deliver("controller", Event!PlayerJoinRequest), Call("setChips"),
                        Deliver("controller", Event!StartGame)}
  BY <1>2, MainList
<1>4. ~Watched(MainCalls[k])
  BY <1>3 DEF Watched, Deliver, Call
<1>. QED
  BY <1>1, <1>4

\* SilentEvents: nobody watches those who sit down, or is told of hole cards.
LEMMA SilentEvents ==
    /\ \A seat, count : Publish(Event!NewPlayerJoined(seat, count)) = << >>
    /\ \A seat : Publish(Event!HoleCardsDealt(seat)) = << >>
<1>1. ASSUME NEW e, e.type \in {"NewPlayerJoined", "HoleCardsDealt"}
      PROVE  Publish(e) = << >>
  <2>1. Subscribers(e.type) = << >>
    BY <1>1, ConsoleSubscribersAssumption DEF ConsoleSubscribers, Requests, Announcements
  <2>2. DOMAIN << >> = {}
    OBVIOUS
  <2>. QED
    BY <2>1, <2>2 DEF Publish
<1>. QED
  BY <1>1 DEF Event!NewPlayerJoined, Event!HoleCardsDealt

\* JoinSteps: joinNewPlayer is called by main.
LEMMA JoinSteps ==
    ASSUME NEW k \in 1..NumPlayers, Steady, control = "seating", player_count = k - 1,
           IsStack(stack), stack # << >>, Top = <<Call("joinNewPlayer")>>,
           Holds(Tail(stack), From(MainCalls, k + 1)), BusStep
    PROVE  Atomic!PlayerJoinRequest /\ Seating(k + 1)' /\ Quiet(stack')
<1>1. Task.do = "call" /\ Task.op = "joinNewPlayer" /\ Tail(Top) = << >> /\ Top # << >>
  BY DEF Task, Call
<1>2. JoinNewPlayer
  <2>1. ControllerHandles \/ Branch \/ PlainCall \/ DistributePotsCall \/ Return
    BY DEF BusStep, GameModelCall, PlainCall
  <2>. QED
    BY <1>1, <2>1, CalledOps DEF PlainCall, Calling, ControllerHandles, Delivering, Return
<1>3. PlayerJoinRequest /\ SettledNow /\ Enter(<< >>)
  BY <1>2, SilentEvents DEF JoinNewPlayer, HoldemStepEnds, SettledNow, Now
<1>4. Atomic!PlayerJoinRequest
  BY <1>3
  DEF Atomic!PlayerJoinRequest, Atomic!showdownVars, PlayerJoinRequest, showdownVars,
      SettledNow, Steady, At, Hidden
<1>5. Steady' /\ control' = "seating" /\ player_count' = (k + 1) - 1
  <2>1. player_count' = (k + 1) - 1
    BY <1>3 DEF PlayerJoinRequest
  <2>. QED
    BY <1>3, <2>1 DEF PlayerJoinRequest, SettledNow, Steady, At, Hidden
<1>6. IsStack(stack') /\ Holds(stack', From(MainCalls, k + 1))
  <2>1. PICK T : stack \in Seq(Seq(T))
    BY DEF IsStack
  <2>2. stack' = << << >> >> \o Tail(stack)
    <3>1. stack' = << >> \o << << >> >> \o Tail(stack)
      BY <1>1, <1>3 DEF Enter
    <3>2. << << >> >> \in Seq(Seq(T)) /\ Tail(stack) \in Seq(Seq(T))
      BY <2>1
    <3>. QED
      BY <3>1, <3>2
  <2>3. Tail(stack) \in Seq(Seq(T)) /\ << >> \in Seq(T)
    BY <2>1
  <2>4. Holds(<< << >> >> \o Tail(stack), From(MainCalls, k + 1))
    BY <2>3, HoldsBelow
  <2>5. << << >> >> \o Tail(stack) \in Seq(Seq(T))
    BY <2>3, Pushed
  <2>. QED
    BY <2>2, <2>4, <2>5 DEF IsStack
<1>7. k + 1 \in 1..(NumPlayers + 2)
  BY NumPlayersAssumption
<1>8. Quiet(stack')
  BY <1>6, <1>7, MainTask, HeldQuiet
<1>. QED
  BY <1>4, <1>5, <1>6, <1>8 DEF Seating

\* MainSteps: main asks the controller to seat a player, sets the stacks, and
\* asks it to start.
LEMMA MainSteps ==
    ASSUME NEW k \in 1..(NumPlayers + 1), Steady, control = "seating", player_count = k - 1,
           IsStack(stack), Holds(stack, From(MainCalls, k)),
           BusStep \/ SetChipsCall
    PROVE  /\ Quiet(stack')
           /\ \/ Seating(k)' /\ settled' = settled
              \/ Playing' /\ Atomic!SetChips
<1>0. NumPlayers \in Nat /\ Running /\ stack # << >>
  <2>1. BusStep => Running
    BY BusTask
  <2>2. SetChipsCall => Running
    BY DEF SetChipsCall, Calling, Busy
  <2>. QED
    BY <2>1, <2>2, NumPlayersAssumption DEF Running
<1>. DEFINE todo == From(MainCalls, k)
<1>1. /\ todo # << >> /\ Head(todo) = MainCalls[k] /\ Tail(todo) = From(MainCalls, k + 1)
      /\ ~Watched(Head(todo))
  BY <1>0, MainTask
<1>2. Top = << >> \/ Top = todo
  BY <1>0, HeldFirst DEF Top
<1>. HIDE DEF todo
<1>3. CASE Top = << >>
  <2>1. BusStep
    BY <1>3 DEF SetChipsCall, Calling, Busy
  <2>2. Return
    BY <1>3, <2>1, BusTask
  <2>3. stack' = Tail(stack) /\ UNCHANGED <<vars, settled>>
    BY <2>2 DEF Return
  <2>4. IsStack(stack') /\ Holds(stack', todo)
    BY <1>0, <1>3, <2>3, HeldFirst DEF Top, todo
  <2>5. Steady' /\ control' = "seating" /\ player_count' = k - 1 /\ settled' = settled
    BY <2>3 DEF Steady, At, Hidden, vars, showdownVars
  <2>6. Quiet(stack')
    BY <1>1, <2>4, HeldQuiet
  <2>. QED
    BY <2>4, <2>5, <2>6 DEF Seating, todo
<1>4. CASE Top = todo /\ k <= NumPlayers
  <2>1. Head(todo) = Deliver("controller", Event!PlayerJoinRequest)
    BY <1>0, <1>1, <1>4, MainList
  <2>2. Placed(todo)
    BY <1>0, <1>1, <1>4, HeldFirst DEF Placed, Top, todo
  <2>3. BusStep
    BY <1>4, <2>1 DEF SetChipsCall, Calling, Task, Deliver
  <2>4. ControllerHandles
    BY <2>1, <2>2, <2>3, TaskDecides DEF Deliver
  <2>. DEFINE calls == <<Call("joinNewPlayer")>>
  <2>5. Enter(calls) /\ UNCHANGED <<vars, settled>>
    BY <1>4, <2>1, <2>4
    DEF ControllerHandles, CallsOf, Task, Deliver, Event!PlayerJoinRequest
  <2>6. calls \in Seq({Call("joinNewPlayer")}) /\ calls # << >> /\ Head(calls) = Call("joinNewPlayer")
    OBVIOUS
  <2>. HIDE DEF calls
  <2>7. stack' = Entered(stack, calls)
    BY <2>5 DEF Enter, Entered, Top
  <2>8. IsStack(stack') /\ stack' # << >> /\ Head(stack') = calls /\ Holds(Tail(stack'), From(MainCalls, k + 1))
    <3>1. Head(stack) = todo /\ Finished(Tail(stack)) /\ IsStack(stack)
      BY <1>4, <2>2 DEF Placed, Top
    <3>2. stack # << >> /\ Head(stack) # << >> /\ Tail(Head(stack)) = From(MainCalls, k + 1)
      BY <1>0, <1>1, <3>1
    <3>3. /\ IsStack(stack') /\ stack' # << >>
          /\ calls # << >> => Head(stack') = calls /\ Holds(Tail(stack'), Tail(Head(stack)))
      BY <2>6, <2>7, <3>1, <3>2, EnteredHolds
    <3>. QED
      BY <2>6, <3>2, <3>3
  <2>9. Steady' /\ control' = "seating" /\ player_count' = k - 1 /\ settled' = settled
    BY <2>5 DEF Steady, At, Hidden, vars, showdownVars
  <2>10. Quiet(stack')
    BY <2>6, <2>8 DEF Quiet, Watched, Call
  <2>. QED
    BY <1>4, <2>8, <2>9, <2>10 DEF Seating, Top, calls
<1>5. CASE Top = todo /\ k = NumPlayers + 1
  <2>1. Head(todo) = Call("setChips")
    BY <1>1, <1>5, MainList
  <2>2. Placed(todo)
    BY <1>0, <1>1, <1>5, HeldFirst DEF Placed, Top, todo
  <2>3. SetChipsCall
    <3>1. ~BusStep
      <4>1. Task.do = "call" /\ Task.op = "setChips" /\ Top # << >>
        BY <1>1, <1>5, <2>1 DEF Task, Call
      <4>2. BusStep => ControllerHandles \/ Branch \/ PlainCall \/ DistributePotsCall \/ Return
        BY DEF BusStep, GameModelCall, PlainCall
      <4>. QED
        BY <4>1, <4>2, CalledOps DEF PlainCall, Calling, ControllerHandles, Delivering, Return
    <3>. QED
      BY <3>1
  <2>4. SetChips /\ SettledNow /\ Enter(<< >>)
    BY <2>3 DEF SetChipsCall, HoldemStepEnds, SettledNow, Now
  <2>5. Atomic!SetChips
    BY <2>4
    DEF Atomic!SetChips, Atomic!showdownVars, Atomic!Seat, SetChips, showdownVars, Seat,
        SettledNow, Steady, At, Hidden
  <2>. DEFINE last == <<Deliver("controller", Event!StartGame)>>
  <2>6. Tail(todo) = last
    <3>1. k + 1 = NumPlayers + 2
      BY <1>0, <1>5
    <3>. QED
      BY <1>1, <3>1, MainList
  <2>7. ~Watched(Head(last))
    BY DEF Watched, Deliver
  <2>. HIDE DEF last
  <2>8. IsStack(stack') /\ Holds(stack', last)
    <3>1. Head(stack) = todo /\ Finished(Tail(stack)) /\ IsStack(stack)
      BY <1>5, <2>2 DEF Placed, Top
    <3>2. stack' = Entered(stack, << >>)
      BY <2>4 DEF Enter, Entered, Top
    <3>. QED
      BY <1>0, <1>1, <2>6, <3>1, <3>2, NoTasks, EnteredHolds
  <2>9. Starting(last)'
    BY <2>4 DEF SetChips, Starting, SettledNow, Steady, At, Hidden, last
  <2>10. BusInv({})'
    BY <2>8, <2>9 DEF BusInv, Reached, Laid
  <2>11. Quiet(stack')
    BY <2>7, <2>8, HeldQuiet
  <2>. QED
    BY <2>5, <2>10, <2>11 DEF Playing
<1>. QED
  BY <1>0, <1>2, <1>3, <1>4, <1>5

\* SeatSteps: what happens before the stacks are set.
LEMMA SeatSteps ==
    ASSUME NEW k \in 1..(NumPlayers + 1), Seating(k),
           BusStep \/ SetChipsCall \/ ShowEvent \/ GetPlayerInput
    PROVE  /\ Quiet(stack')
           /\ \/ Seating(k)' /\ settled' = settled
              \/ k + 1 \in 1..(NumPlayers + 1) /\ Seating(k + 1)' /\ Atomic!PlayerJoinRequest
              \/ Playing' /\ Atomic!SetChips
<1>0. Steady /\ control = "seating" /\ player_count = k - 1 /\ IsStack(stack) /\ NumPlayers \in Nat
  <2>1. Steady /\ control = "seating" /\ player_count = k - 1 /\ IsStack(stack)
    BY DEF Seating
  <2>. QED
    BY <2>1, NumPlayersAssumption
<1>1. CASE Holds(stack, From(MainCalls, k))
  <2>1. ~Watched(Head(From(MainCalls, k)))
    BY <1>0, MainTask
  <2>2. Quiet(stack)
    BY <1>0, <1>1, <2>1, HeldQuiet
  <2>3. BusStep \/ SetChipsCall
    BY <2>2 DEF ShowEvent, GetPlayerInput, Delivering, Busy, Running, Quiet, Watched, Task, Top
  <2>. QED
    BY <1>0, <1>1, <2>3, MainSteps
<1>2. CASE /\ k <= NumPlayers /\ stack # << >> /\ Top = <<Call("joinNewPlayer")>>
           /\ Holds(Tail(stack), From(MainCalls, k + 1))
  <2>1. k \in 1..NumPlayers
    BY <1>0, <1>2
  <2>2. Task.do = "call" /\ Task.op = "joinNewPlayer"
    BY <1>2 DEF Task, Call
  <2>3. BusStep
    BY <2>2 DEF SetChipsCall, ShowEvent, GetPlayerInput, Delivering, Calling
  <2>4. Atomic!PlayerJoinRequest /\ Seating(k + 1)' /\ Quiet(stack')
    BY <1>0, <1>2, <2>1, <2>3, JoinSteps
  <2>. QED
    BY <1>0, <2>1, <2>4
<1>3. \/ Holds(stack, From(MainCalls, k))
      \/ /\ k <= NumPlayers /\ stack # << >> /\ Top = <<Call("joinNewPlayer")>>
         /\ Holds(Tail(stack), From(MainCalls, k + 1))
  BY DEF Seating
<1>. QED
  BY <1>1, <1>2, <1>3

\* HoleCardsSilent: nobody is told of the hole cards.
LEMMA HoleCardsSilent ==
    ASSUME DealHoleCardsCall
    PROVE  Enter(<< >>)
<1>. DEFINE told(i) == IF i - 1 \in ActiveSeats(table) THEN Publish(Event!HoleCardsDealt(i - 1))
                       ELSE << >>
            ss == [i \in 1..NumPlayers |-> told(i)]
<1>1. Enter(FlattenSeq(ss))
  BY DEF DealHoleCardsCall
<1>2. \A i \in 1..NumPlayers : told(i) = << >>
  BY SilentEvents
<1>. HIDE DEF told
<1>3. NumPlayers \in Nat /\ ss \in [1..NumPlayers -> Seq({})]
  <2>1. << >> \in Seq({})
    BY EmptySeq
  <2>2. \A i \in 1..NumPlayers : told(i) \in Seq({})
    BY <1>2, <2>1
  <2>. QED
    BY <2>2, NumPlayersAssumption
<1>. HIDE DEF ss
<1>4. FlattenSeq(ss) \in Seq({})
  BY <1>3, FlattenKeeps
<1>5. \A s \in Seq({}) : s = << >>
  OBVIOUS
<1>. QED
  BY <1>1, <1>4, <1>5

\* Telling: the step puts on top what those who watch are told.
LEMMA TellingNews ==
    ASSUME NEW e, Tells(e)
    PROVE  /\ Telling(Top)'
           /\ 1 \in 1..Len(Publish(e)) /\ Head(stack') = From(Publish(e), 1)
<1>1. 1 \in 1..Len(Publish(e)) /\ Head(stack') = From(Publish(e), 1)
  BY PublishedList DEF Tells
<1>. QED
  BY <1>1 DEF Tells, Telling, Top

\* BusNews: a step of the bus leaves what is left of a handler on top, or what
\* those who watch are told.
LEMMA BusNews ==
    ASSUME NEW A, BusInv(A), BusStep
    PROVE  News' /\ (Quiet(stack') \/ \E e : Tells(e))
<1>1. CASE DealHoleCardsCall
  <2>1. Enter(<< >>) /\ Top # << >>
    BY <1>1, HoleCardsSilent DEF DealHoleCardsCall, Calling, Busy
  <2>2. Placed(Top) /\ Ordered(Top)
    BY <2>1, BusPlaced
  <2>3. stack' # << >> /\ Head(stack') = Tail(Top)
    BY <2>1, <2>2, NoTasks, EnteredHead
  <2>. QED
    BY <2>2, <2>3 DEF Ordered, News, Quiet, Watched
<1>. QED
  BY <1>1, BusHeard, TellingNews DEF Heard, News

\* WatchedStep: when one of those who watch is called, it is told something.
LEMMA WatchedStep ==
    ASSUME News, Busy, Watched(Task)
    PROVE  \E e : /\ e.type \in Announcements
                  /\ \E k \in 1..Len(Publish(e)) :
                        /\ Top = From(Publish(e), k) /\ Task = Deliver(Subscribers(e.type)[k], e)
                        /\ Tail(Top) = From(Publish(e), k + 1)
                  /\ e.type = "WaitingForAction" =>
                        /\ e = Event!WaitingForAction(settled.table.acting_player, Context(settled.table))
                        /\ Steady /\ control = "awaiting" /\ Finished(Tail(stack))
<1>1. ~Quiet(stack)
  BY DEF Quiet, Busy, Running, Top, Task
<1>2. PICK e : /\ e.type \in Announcements
               /\ \E k \in 1..Len(Publish(e)) : Top = From(Publish(e), k)
               /\ e.type = "WaitingForAction" =>
                     /\ e = Event!WaitingForAction(settled.table.acting_player, Context(settled.table))
                     /\ Steady /\ control = "awaiting" /\ Finished(Tail(stack))
  BY <1>1 DEF News, Telling
<1>3. PICK k \in 1..Len(Publish(e)) : Top = From(Publish(e), k)
  BY <1>2
<1>4. Head(Top) = Publish(e)[k] /\ Tail(Top) = From(Publish(e), k + 1)
  BY <1>2, <1>3, PublishedList DEF IsList
<1>5. Publish(e)[k] = Deliver(Subscribers(e.type)[k], e)
  BY <1>2, <1>3, PublishAnnouncement
<1>. QED
  BY <1>2, <1>3, <1>4, <1>5 DEF Task

\* ShowSteps: what is printed changes nothing but what is left to tell.
LEMMA ShowSteps ==
    ASSUME NEW A, BusInv(A), News, ShowEvent
    PROVE  /\ BusInv(A)' /\ settled' = settled /\ News'
           /\ stack' # << >> /\ Head(stack') = Tail(Top)
<1>1. /\ Busy /\ Watched(Task) /\ Become(<< >>) /\ UNCHANGED <<vars, settled>>
  BY DEF ShowEvent, Delivering, Watched
<1>2. PICK todo : IsStack(stack) /\ stack # << >> /\ Laid(stack, todo) /\ Reached(A, todo)
  BY <1>1 DEF BusInv, Busy, Running
<1>3. todo # << >> => ~Watched(Head(todo))
  BY <1>2, ReachedOrdered DEF Ordered
<1>4. Head(stack) # << >> /\ Watched(Head(Head(stack)))
  BY <1>1 DEF Busy, Top, Task
<1>5. stack' = <<Tail(Top)>> \o Tail(stack)
  <2>1. PICK T : stack \in Seq(Seq(T))
    BY <1>2 DEF IsStack
  <2>2. Tail(Top) \in Seq(T)
    BY <1>2, <1>4, <2>1 DEF Top
  <2>3. << >> \o Tail(Top) = Tail(Top)
    BY <2>2
  <2>. QED
    BY <1>1, <2>3 DEF Become
<1>6. IsStack(stack') /\ Laid(stack', todo)
  BY <1>2, <1>3, <1>4, <1>5, LaidWatched DEF Top
<1>7. stack' # << >> /\ Head(stack') = Tail(Top) /\ Tail(stack') = Tail(stack)
  <2>1. PICK T : stack \in Seq(Seq(T))
    BY <1>2 DEF IsStack
  <2>2. Tail(Top) \in Seq(T) /\ Tail(stack) \in Seq(Seq(T))
    BY <1>2, <1>4, <2>1 DEF Top
  <2>. QED
    BY <1>5, <2>2, Pushed
<1>8. Reached(A, todo)' /\ settled' = settled
  BY <1>1, <1>2, ReachedStill
<1>9. BusInv(A)'
  BY <1>6, <1>8 DEF BusInv
<1>10. PICK e : /\ e.type \in Announcements
                /\ \E k \in 1..Len(Publish(e)) : Tail(Top) = From(Publish(e), k + 1)
                /\ e.type = "WaitingForAction" =>
                      /\ e = Event!WaitingForAction(settled.table.acting_player, Context(settled.table))
                      /\ Steady /\ control = "awaiting" /\ Finished(Tail(stack))
  BY <1>1, WatchedStep
<1>11. PICK k \in 1..Len(Publish(e)) : Tail(Top) = From(Publish(e), k + 1)
  BY <1>10
<1>12. Len(Publish(e)) \in Nat /\ From(Publish(e), Len(Publish(e)) + 1) = << >>
  BY <1>10, PublishedList DEF IsList
<1>13. CASE k = Len(Publish(e))
  BY <1>7, <1>8, <1>9, <1>11, <1>12, <1>13 DEF News, Quiet
<1>14. CASE k # Len(Publish(e))
  <2>1. k + 1 \in 1..Len(Publish(e)) /\ Head(stack') = From(Publish(e), k + 1)
    <3>1. \A n \in Nat : \A i \in 1..n : i # n => i + 1 \in 1..n
      OBVIOUS
    <3>2. k + 1 \in 1..Len(Publish(e))
      BY <1>12, <1>14, <3>1
    <3>. QED
      BY <1>7, <1>11, <3>2
  <2>2. ASSUME e.type = "WaitingForAction"
        PROVE  /\ e = Event!WaitingForAction(settled'.table.acting_player, Context(settled'.table))
               /\ Steady' /\ control' = "awaiting" /\ Finished(Tail(stack'))
    <3>1. Steady'
      BY <1>1, <1>10, <2>2 DEF Steady, At, Hidden, vars, showdownVars
    <3>. QED
      BY <1>1, <1>7, <1>8, <1>10, <2>2, <3>1 DEF vars
  <2>3. Telling(Top)'
    BY <1>10, <2>1, <2>2 DEF Telling, Top
  <2>. QED
    BY <1>7, <1>8, <1>9, <2>3 DEF News
<1>. QED
  BY <1>13, <1>14

\* AskedLast: the console is the last to be told of a turn, and all there is
\* left to do then is to handle its answer.
LEMMA AskedLast ==
    ASSUME News, Delivering("input")
    PROVE  /\ Tail(Top) = << >> /\ Finished(Tail(stack)) /\ Steady /\ control = "awaiting"
           /\ Task.event = Event!WaitingForAction(settled.table.acting_player, Context(settled.table))
<1>1. /\ Busy /\ Watched(Task) /\ Task.do = "deliver" /\ Task.to = "input"
  BY DEF Delivering, Watched
<1>2. PICK e : /\ e.type \in Announcements
               /\ \E k \in 1..Len(Publish(e)) :
                     /\ Task = Deliver(Subscribers(e.type)[k], e)
                     /\ Tail(Top) = From(Publish(e), k + 1)
               /\ e.type = "WaitingForAction" =>
                     /\ e = Event!WaitingForAction(settled.table.acting_player, Context(settled.table))
                     /\ Steady /\ control = "awaiting" /\ Finished(Tail(stack))
  BY <1>1, WatchedStep
<1>3. PICK k \in 1..Len(Publish(e)) :
         Task = Deliver(Subscribers(e.type)[k], e) /\ Tail(Top) = From(Publish(e), k + 1)
  BY <1>2
<1>4. Subscribers(e.type) = ConsoleSubscribers(e.type) /\ Len(Publish(e)) = Len(Subscribers(e.type))
  BY <1>2, ConsoleSubscribersAssumption, PublishAnnouncement
<1>5. Subscribers(e.type)[k] = "input" /\ Task.event = e
  BY <1>1, <1>3 DEF Deliver
<1>6. e.type = "WaitingForAction" /\ k = Len(Publish(e))
  <2>1. Len(<<"printGameModel">>) = 1 /\ Len(<<"printEvent">>) = 1
        /\ Len(<<"printGameModel", "printEvent", "input">>) = 3
    OBVIOUS
  <2>2. \A i \in 1..1 : <<"printGameModel">>[i] # "input" /\ <<"printEvent">>[i] # "input"
    OBVIOUS
  <2>3. \A i \in 1..3 : <<"printGameModel", "printEvent", "input">>[i] = "input" => i = 3
    OBVIOUS
  <2>4. \A i \in 1..Len(<< >>) : FALSE
    OBVIOUS
  <2>5. e.type \notin Requests
    BY <1>2 DEF Announcements, Requests
  <2>6. \/ e.type = "WaitingForAction"
              /\ ConsoleSubscribers(e.type) = <<"printGameModel", "printEvent", "input">>
        \/ ConsoleSubscribers(e.type) = <<"printGameModel">>
        \/ ConsoleSubscribers(e.type) = <<"printEvent">>
        \/ ConsoleSubscribers(e.type) = << >>
    BY <2>5 DEF ConsoleSubscribers
  <2>. QED
    BY <1>3, <1>4, <1>5, <2>1, <2>2, <2>3, <2>4, <2>6
<1>7. Tail(Top) = << >>
  BY <1>2, <1>3, <1>6, PublishedList DEF IsList
<1>8. /\ e = Event!WaitingForAction(settled.table.acting_player, Context(settled.table))
      /\ Steady /\ control = "awaiting" /\ Finished(Tail(stack))
  BY <1>2, <1>6
<1>. QED
  BY <1>5, <1>7, <1>8

\* InputSteps: the answer is handled where the turn was published.
LEMMA InputSteps ==
    ASSUME Playing, News, GetPlayerInput
    PROVE  Playing' /\ settled' = settled /\ News' /\ Quiet(stack')
<1>1. /\ Busy /\ UNCHANGED <<vars, settled>> /\ Delivering("input")
  BY DEF GetPlayerInput, Delivering
<1>2. PICK e : e = Task.event
  OBVIOUS
<1>7. Tail(Top) = << >>
  BY <1>1, AskedLast
<1>8. /\ e = Event!WaitingForAction(settled.table.acting_player, Context(settled.table))
      /\ Steady /\ control = "awaiting" /\ Finished(Tail(stack))
  BY <1>1, <1>2, AskedLast
<1>9. PICK event \in PlayerActionEvent :
         Answers(e, event) /\ Enter(Publish(Event!PlayerAction(event.target_bet, event.is_fold)))
  BY <1>2 DEF GetPlayerInput
<1>10. event \in Allowed
  BY <1>8, <1>9, AtomicOps DEF Answers, Allowed, Atomic!ConsoleAnswers, Event!WaitingForAction
<1>. DEFINE request == Deliver("controller", Answer(event))
<1>11. Publish(Answer(event)) = <<request>>
  <2>1. Answer(event).type \in Requests
    BY DEF Answer, Event!PlayerAction, Requests
  <2>. QED
    BY <2>1, PublishRequest
<1>12. ~Watched(request)
  BY DEF Watched, Deliver
<1>. HIDE DEF request
<1>13. Enter(<<request>>)
  BY <1>9, <1>11 DEF Answer
<1>. DEFINE tasks == <<request>>
<1>14. tasks \in Seq({request}) /\ tasks # << >> /\ Head(tasks) = request
  OBVIOUS
<1>15. IsStack(stack) /\ stack # << >> /\ Head(stack) # << >>
  BY <1>1, <1>8 DEF Playing, BusInv, Busy, Running, Top
<1>16. stack' = Entered(stack, tasks)
  BY <1>13 DEF Enter, Entered, Top
<1>. HIDE DEF tasks
<1>17. IsStack(stack') /\ Laid(stack', tasks) /\ stack' # << >> /\ Head(stack') = tasks
  BY <1>7, <1>8, <1>14, <1>15, <1>16, LaidEntered DEF Top
<1>18. Handling(tasks, event)'
  BY <1>1, <1>8 DEF Handling, Steady, At, Hidden, vars, showdownVars, tasks, request
<1>19. BusInv({event})'
  BY <1>17, <1>18 DEF BusInv, Reached
<1>20. {event} \subseteq Allowed'
  BY <1>1, <1>10 DEF Allowed, Atomic!ConsoleAnswers
<1>21. Playing'
  BY <1>19, <1>20 DEF Playing
<1>22. News' /\ Quiet(stack')
  BY <1>12, <1>14, <1>17 DEF News, Quiet
<1>. QED
  BY <1>1, <1>21, <1>22
-----------------------------------------------------------------------------
(* The whole program.                                                      *)

\* ConsoleInitial: main is about to ask for the first player.
LEMMA ConsoleInitial ==
    ASSUME ConsoleBusInit
    PROVE  ConsoleInv /\ Quiet(stack) /\ Atomic!Init
<1>0. NumPlayers \in Nat /\ 1 \in 1..(NumPlayers + 1) /\ 1 \in 1..(NumPlayers + 2)
  BY NumPlayersAssumption
<1>1. Init /\ stack = <<MainCalls>> /\ settled = Now
  BY DEF ConsoleBusInit
<1>2. Steady /\ control = "seating" /\ player_count = 1 - 1
  BY <1>1 DEF Init, Now, Steady, At, Hidden
<1>3. PICK T : MainCalls \in Seq(T)
  BY MainList
<1>4. From(MainCalls, 1) = MainCalls
  BY <1>0, MainList DEF IsList
<1>5. Holds(stack, From(MainCalls, 1)) /\ IsStack(stack)
  <2>. DEFINE W == Seq(T)
  <2>1. << >> \in Seq(W) /\ Finished(<< >>) /\ MainCalls \in W
    BY <1>3, EmptySeq DEF Finished
  <2>. HIDE DEF W
  <2>2. Holds(<<MainCalls>> \o << >>, MainCalls)
    BY <2>1, HoldsInnermost
  <2>3. <<MainCalls>> \in Seq(W) /\ <<MainCalls>> \o << >> = <<MainCalls>>
    BY <2>1
  <2>. QED
    BY <1>1, <1>4, <2>2, <2>3 DEF IsStack, W
<1>6. Seating(1)
  BY <1>2, <1>5 DEF Seating
<1>7. Quiet(stack)
  BY <1>0, <1>5, MainTask, HeldQuiet
<1>8. Atomic!Init
  BY <1>1 DEF Init, Now, Atomic!Init, Atomic!NewTable, NewTable, Atomic!Seat, Seat
<1>. QED
  BY <1>0, <1>6, <1>7, <1>8 DEF ConsoleInv, News

\* StandingStill: where nothing happens nothing is lost.
LEMMA StandingStill ==
    ASSUME ConsoleInv, UNCHANGED busVars
    PROVE  ConsoleInv'
<1>1. UNCHANGED <<vars, settled>> /\ stack' = stack
  BY DEF busVars
<1>2. (Steady => Steady') /\ control' = control /\ player_count' = player_count
  BY <1>1 DEF vars, showdownVars, Steady, At, Hidden
<1>3. ASSUME NEW k \in 1..(NumPlayers + 1), Seating(k)
      PROVE  Seating(k)'
  BY <1>1, <1>2, <1>3 DEF Seating, Top
<1>4. ASSUME NEW A, A \subseteq Allowed, BusInv(A)
      PROVE  Playing'
  <2>1. BusInv(A)'
    <3>1. CASE control = "trapped"
      BY <1>2, <3>1 DEF BusInv
    <3>2. ASSUME NEW todo, IsStack(stack), Laid(stack, todo), Reached(A, todo)
          PROVE  BusInv(A)'
      <4>1. Reached(A, todo)'
        BY <1>1, <3>2, ReachedStill
      <4>. QED
        BY <1>1, <3>2, <4>1 DEF BusInv
    <3>. QED
      BY <1>4, <3>1, <3>2 DEF BusInv
  <2>2. A \subseteq Allowed'
    BY <1>1, <1>4 DEF Allowed, Atomic!ConsoleAnswers
  <2>. QED
    BY <2>1, <2>2 DEF Playing
<1>5. Quiet(stack) => Quiet(stack')
  BY <1>1
<1>6. Telling(Top) => Telling(Top)'
  BY <1>1, <1>2 DEF Telling, Top
<1>7. News => News'
  BY <1>5, <1>6 DEF News
<1>. QED
  BY <1>2, <1>3, <1>4, <1>7 DEF ConsoleInv, Playing

\* Unseen: where nothing changes that ConsoleGame sees, its variables are as they
\* were.
LEMMA Unseen ==
    ASSUME settled' = settled
    PROVE  Atomic!vars' = Atomic!vars
BY DEF Atomic!vars, Atomic!showdownVars

\* SetBefore: the stacks are not set once a hand may be played.
LEMMA SetBefore ==
    ASSUME NEW A, BusInv(A)
    PROVE  ~SetChipsCall
<1>1. SUFFICES ASSUME SetChipsCall PROVE FALSE
  OBVIOUS
<1>2. Busy /\ Running /\ Task.do = "call" /\ Task.op = "setChips"
  BY <1>1 DEF SetChipsCall, Calling, Busy
<1>3. PICK todo : IsStack(stack) /\ stack # << >> /\ Laid(stack, todo) /\ Reached(A, todo)
  BY <1>2 DEF BusInv, Running
<1>4. Head(stack) # << >> /\ ~Watched(Head(Head(stack)))
  BY <1>2 DEF Busy, Watched, Task, Top
<1>5. todo = Head(stack)
  BY <1>3, <1>4, LaidCalled
<1>6. Ordered(todo)
  BY <1>3, <1>4, <1>5, ReachedOrdered
<1>. QED
  BY <1>2, <1>5, <1>6 DEF Ordered, Task, Top

\* ProgramSteps: every step of the program keeps the invariant, and is a step of
\* ConsoleGame or none.
LEMMA ProgramSteps ==
    ASSUME ConsoleInv, [ConsoleBusNext]_busVars
    PROVE  ConsoleInv' /\ [Atomic!ConsoleNext]_(Atomic!vars)
<1>1. CASE UNCHANGED busVars
  <2>1. settled' = settled
    BY <1>1 DEF busVars
  <2>. QED
    BY <1>1, <2>1, StandingStill, Unseen
<1>2. CASE BusStep \/ SetChipsCall \/ ShowEvent \/ GetPlayerInput
  <2>1. Running /\ News
    <3>1. BusStep => Running
      BY BusTask
    <3>2. SetChipsCall \/ ShowEvent \/ GetPlayerInput => Running
      BY DEF SetChipsCall, ShowEvent, GetPlayerInput, Delivering, Calling, Busy
    <3>. QED
      BY <1>2, <3>1, <3>2 DEF ConsoleInv, Running
  <2>2. ASSUME NEW k \in 1..(NumPlayers + 1), Seating(k)
        PROVE  ConsoleInv' /\ [Atomic!ConsoleNext]_(Atomic!vars)
    <3>1. /\ Quiet(stack')
          /\ \/ Seating(k)' /\ settled' = settled
             \/ k + 1 \in 1..(NumPlayers + 1) /\ Seating(k + 1)' /\ Atomic!PlayerJoinRequest
             \/ Playing' /\ Atomic!SetChips
      BY <1>2, <2>2, SeatSteps
    <3>2. News'
      BY <3>1 DEF News
    <3>3. CASE Seating(k)' /\ settled' = settled
      <4>1. ConsoleInv'
        BY <2>2, <3>2, <3>3 DEF ConsoleInv
      <4>. QED
        BY <3>3, <4>1, Unseen
    <3>4. CASE k + 1 \in 1..(NumPlayers + 1) /\ Seating(k + 1)' /\ Atomic!PlayerJoinRequest
      <4>1. ConsoleInv'
        BY <3>2, <3>4 DEF ConsoleInv
      <4>. QED
        BY <3>4, <4>1 DEF Atomic!ConsoleNext
    <3>5. CASE Playing' /\ Atomic!SetChips
      <4>1. ConsoleInv'
        BY <3>2, <3>5 DEF ConsoleInv
      <4>. QED
        BY <3>5, <4>1 DEF Atomic!ConsoleNext
    <3>. QED
      BY <3>1, <3>3, <3>4, <3>5
  <2>3. ASSUME NEW A, A \subseteq Allowed, BusInv(A)
        PROVE  ConsoleInv' /\ [Atomic!ConsoleNext]_(Atomic!vars)
    <3>0. Playing
      BY <2>3 DEF Playing
    <3>1. CASE BusStep
      <4>1. Comes(A) /\ News'
        BY <2>3, <3>1, BusSteps, BusNews
      <4>2. CASE BusInv(A)' /\ settled' = settled
        <5>1. A \subseteq Allowed'
          BY <2>3, <4>2 DEF Allowed, Atomic!ConsoleAnswers
        <5>2. Playing'
          BY <4>2, <5>1 DEF Playing
        <5>3. ConsoleInv'
          BY <4>1, <5>2 DEF ConsoleInv
        <5>. QED
          BY <4>2, <5>3, Unseen
      <4>3. CASE BusInv({})' /\ Atomically(A)
        <5>1. Playing'
          BY <4>3 DEF Playing
        <5>2. ConsoleInv'
          BY <4>1, <5>1 DEF ConsoleInv
        <5>3. ASSUME NEW e \in A, Atomic!PlayerAction(e)
              PROVE  Atomic!ConsoleTurn
          <6>1. e \in Atomic!PlayerActionEvent /\ Atomic!ConsoleAnswers(e)
            BY <2>3, <5>3 DEF Allowed, PlayerActionEvent, Atomic!PlayerActionEvent
          <6>2. settled.control = "awaiting"
            BY <5>3 DEF Atomic!PlayerAction
          <6>. QED
            BY <5>3, <6>1, <6>2 DEF Atomic!ConsoleTurn
        <5>4. Atomic!ConsoleNext
          BY <4>3, <5>3 DEF Atomically, Atomic!ConsoleNext
        <5>. QED
          BY <5>2, <5>4
      <4>. QED
        BY <4>1, <4>2, <4>3 DEF Comes
    <3>2. CASE ShowEvent
      <4>1. BusInv(A)' /\ settled' = settled /\ News'
        BY <2>1, <2>3, <3>2, ShowSteps
      <4>2. A \subseteq Allowed'
        BY <2>3, <4>1 DEF Allowed, Atomic!ConsoleAnswers
      <4>3. Playing'
        BY <4>1, <4>2 DEF Playing
      <4>4. ConsoleInv'
        BY <4>1, <4>3 DEF ConsoleInv
      <4>. QED
        BY <4>1, <4>4, Unseen
    <3>3. CASE GetPlayerInput
      <4>1. Playing' /\ settled' = settled /\ News'
        BY <2>1, <3>0, <3>3, InputSteps
      <4>2. ConsoleInv'
        BY <4>1 DEF ConsoleInv
      <4>. QED
        BY <4>1, <4>2, Unseen
    <3>4. ~SetChipsCall
      BY <2>3, SetBefore
    <3>. QED
      BY <1>2, <3>1, <3>2, <3>3, <3>4
  <2>. QED
    BY <2>2, <2>3 DEF ConsoleInv, Playing
<1>. QED
  BY <1>1, <1>2 DEF ConsoleBusNext, ProgramOver

\* ConsoleReached: the program is always in a handler of GameController, in
\* main before it, or telling those who watch.
THEOREM ConsoleReached == ConsoleBusSpec => []ConsoleInv
<1>1. ConsoleBusInit => ConsoleInv
  BY ConsoleInitial
<1>2. ConsoleInv /\ [ConsoleBusNext]_busVars => ConsoleInv'
  BY ProgramSteps
<1>. QED
  BY <1>1, <1>2, PTL DEF ConsoleBusSpec

\* CallsAreAtomic: for any table, stakes and answers, the calls and deliveries
\* of poker come to the steps of ConsoleGame: what GameModel publishes from
\* inside a handler never lets another handler run in the middle of it.
THEOREM CallsAreAtomic == ConsoleBusSpec => AtomicSteps
<1>1. ConsoleBusInit => Atomic!Init
  BY ConsoleInitial
<1>2. ConsoleInv /\ [ConsoleBusNext]_busVars => [Atomic!ConsoleNext]_(Atomic!vars)
  BY ProgramSteps
<1>. QED
  BY <1>1, <1>2, ConsoleReached, PTL DEF ConsoleBusSpec, AtomicSteps, Atomic!ConsoleSpec

\* AskedAtTheEnd: whenever the console is asked, awaitPlayerAction was the last
\* call of its handler, and every frame below has nothing left to do.
THEOREM AskedAtTheEnd == ConsoleBusSpec => []TurnsAreTailCalls
<1>1. ConsoleInv => TurnsAreTailCalls
  <2>1. SUFFICES ASSUME ConsoleInv, Delivering("input")
                 PROVE  Tail(Top) = << >> /\ \A i \in 2..Len(stack) : stack[i] = << >>
    BY DEF TurnsAreTailCalls
  <2>2. Busy /\ control # "trapped" /\ stack # << >>
    BY <2>1 DEF Delivering, Busy, Running
  <2>3. News /\ IsStack(stack)
    BY <2>1, <2>2 DEF ConsoleInv, Seating, Playing, BusInv
  <2>4. Tail(Top) = << >> /\ Finished(Tail(stack))
    BY <2>1, <2>3, AskedLast
  <2>5. PICK T : stack \in Seq(Seq(T))
    BY <2>3 DEF IsStack
  <2>6. /\ Len(stack) \in Nat /\ Len(Tail(stack)) = Len(stack) - 1
        /\ \A i \in 2..Len(stack) : stack[i] = Tail(stack)[i - 1]
    BY <2>2, <2>5, Popped
  <2>7. \A i \in 2..Len(stack) : i - 1 \in 1..Len(Tail(stack))
    BY <2>6
  <2>. QED
    BY <2>4, <2>6, <2>7 DEF Finished
<1>. QED
  BY <1>1, ConsoleReached, PTL

-----------------------------------------------------------------------------
(* The hand as it was where ConsoleGame's last step ended.                 *)

\* The chips of a set of pots.
InPots(S) == MapThenSumSet(LAMBDA p : p.chips, S)

\* What of the table the events are about.
SettledSound ==
    /\ settled.table \in TableType
    /\ settled.control = "awaiting" =>
          settled.table.acting_player \in Seat /\ settled.declared = {}
    /\ settled.control = "settling" /\ settled.declared = {} =>
          InPots(settled.pots) = settled.table.pot

\* SettledIsSound: the theorems about ConsoleGame say so, since the calls come to
\* its steps.
LEMMA SettledIsSound == ConsoleBusSpec => []SettledSound
<1>1. Atomic!Init => Game!Init
  BY SameStart
<1>2. [Atomic!ConsoleNext]_(Atomic!vars) => [Game!ConsoleNext]_(Game!vars)
  BY SameSteps
<1>3. ConsoleBusSpec => Game!ConsoleSpec
  BY <1>1, <1>2, CallsAreAtomic, PTL DEF AtomicSteps, Atomic!ConsoleSpec, Game!ConsoleSpec
<1>. Int \subseteq Int
  OBVIOUS
<1>4. Game!ConsoleSpec => []Game!PotsCoverPot
  BY Game!PotsAreCovered, NumPlayersAssumption, BigBlindAssumption, BuyInAssumption,
     HandValueAssumption
<1>5. Game!ConsoleSpec => []Game!Undeclared
  BY Game!NothingDeclared, NumPlayersAssumption, BigBlindAssumption, BuyInAssumption,
     HandValueAssumption
<1>6. Game!ConsoleSpec =>
         [](Game!HandInv /\ Game!LedgerInv /\ Game!BetsInv /\ Game!ChipsInv /\ Game!PotInv)
  BY Game!PotInvariant, NumPlayersAssumption, BigBlindAssumption, BuyInAssumption,
     HandValueAssumption
<1>7. Game!HandInv /\ Game!PotsCoverPot /\ Game!Undeclared => SettledSound
  <2>. SUFFICES ASSUME Game!HandInv, Game!PotsCoverPot, Game!Undeclared PROVE SettledSound
    OBVIOUS
  <2>1. settled.table \in TableType
    BY DEF Game!HandInv, Game!TypeOK, Game!TableType, TableType, Game!Seat, Seat,
       Game!PlayerState, PlayerState
  <2>2. ASSUME settled.control = "awaiting"
        PROVE  settled.table.acting_player \in Seat /\ settled.declared = {}
    <3>1. settled.table.acting_player \in Game!ActiveSeats(settled.table)
      BY <2>2 DEF Game!HandInv, Game!TurnInv, Game!TurnTable
    <3>2. Game!ActiveSeats(settled.table) = ActiveSeats(settled.table)
      BY GameOps
    <3>. QED
      BY <2>2, <3>1, <3>2 DEF ActiveSeats, Game!Undeclared
  <2>3. ASSUME settled.control = "settling", settled.declared = {}
        PROVE  InPots(settled.pots) = settled.table.pot
    <3>1. Game!MapThenSumSet(LAMBDA p : p.chips, settled.pots) = settled.table.pot
      BY <2>3 DEF Game!PotsCoverPot
    <3>. QED
      BY <3>1 DEF InPots, MapThenSumSet, MapThenFoldSet, Game!MapThenSumSet, Game!MapThenFoldSet
  <2>. QED
    BY <2>1, <2>2, <2>3 DEF SettledSound
<1>. QED
  BY <1>3, <1>4, <1>5, <1>6, <1>7, PTL

-----------------------------------------------------------------------------
(* What an event says.                                                     *)

\* ActedIsSo: what is said of an answer is what the table shows of it.
LEMMA ActedIsSo ==
    ASSUME NEW t \in TableType, t.acting_player \in Seat, NEW event, NEW e,
           LET result == ProcessBetting(Context(t), event.target_bet)
           IN  \/ event.is_fold /\ e = Event!PlayerActed(t.acting_player, 0, "FOLD")
               \/ /\ ~event.is_fold /\ IsValid(result)
                  /\ e = Event!PlayerActed(t.acting_player, result.player_bet, result.action)
    PROVE  LET u == HandlePlayerAction(t, event)
           IN  IF e.action = "FOLD" THEN u.state[e.player] = "FOLDED"
               ELSE e.bet = u.bet[e.player]
<1>. DEFINE s == t.acting_player
            result == ProcessBetting(Context(t), event.target_bet)
            u == HandlePlayerAction(t, event)
<1>1. CASE event.is_fold /\ e = Event!PlayerActed(s, 0, "FOLD")
  <2>1. u = ApplyAction(t, "FOLD")
    BY <1>1 DEF HandlePlayerAction
  <2>2. ApplyAction(t, "FOLD").state[s] = "FOLDED"
    BY DEF ApplyAction, TableType
  <2>. QED
    BY <1>1, <2>1, <2>2 DEF Event!PlayerActed
<1>2. CASE /\ ~event.is_fold /\ IsValid(result)
           /\ e = Event!PlayerActed(s, result.player_bet, result.action)
  <2>1. u = PlaceBet(t, result)
    BY <1>2 DEF HandlePlayerAction
  <2>. HIDE DEF result
  <2>2. PlaceBet(t, result).bet[s] = result.player_bet
    BY DEF PlaceBet, ApplyAction, MoveChipsToPot, TableType
  <2>3. result.action = "FOLD" => PlaceBet(t, result).state[s] = "FOLDED"
    BY DEF PlaceBet, ApplyAction, MoveChipsToPot, TableType
  <2>. QED
    BY <1>2, <2>1, <2>2, <2>3 DEF Event!PlayerActed
<1>. QED
  BY <1>1, <1>2

\* SaidIsSo: what a call says of the managers holds when it has been made.
LEMMA SaidIsSo ==
    ASSUME NEW A, BusInv(A), BusStep, SettledSound, SettledSound',
           NEW e, e.type \in Announcements, Said(e)
    PROVE  Current(e)'
<1>1. ASSUME NEW op, Calling(op)
      PROVE  /\ Reached(A, Top) /\ Where(A, Top) /\ Head(Top).op = op /\ Task = Head(Top)
  BY <1>1, CallPlaced
<1>2. CASE AwaitPlayerAction /\ e = Event!WaitingForAction(table.acting_player, Context(table))
  <2>1. table' = table
    BY <1>2 DEF AwaitPlayerAction
  <2>. QED
    BY <1>2, <2>1 DEF Current, Event!WaitingForAction
<1>3. CASE HandlePlayerActionCall /\ ActedEvent(table.acting_player, Task.arg) = <<e>>
  <2>1. Calling("handlePlayerAction") /\ table' = HandlePlayerAction(table, Task.arg)
    BY <1>3 DEF HandlePlayerActionCall, TableCall
  <2>2. PICK a \in A : Handling(Top, a)
    BY <1>1, <2>1 DEF Where
  <2>3. table = settled.table /\ settled.control = "awaiting"
    BY <2>2 DEF Handling, Steady, At
  <2>4. table \in TableType /\ table.acting_player \in Seat
    BY <2>3 DEF SettledSound
  <2>5. PICK event : event = Task.arg
    OBVIOUS
  <2>6. PICK result : result = ProcessBetting(Context(table), event.target_bet)
    OBVIOUS
  <2>7. \/ event.is_fold /\ e = Event!PlayerActed(table.acting_player, 0, "FOLD")
        \/ /\ ~event.is_fold /\ IsValid(result)
           /\ e = Event!PlayerActed(table.acting_player, result.player_bet, result.action)
    <3>1. \A x : <<x>> = <<e>> => x = e
      OBVIOUS
    <3>2. << >> # <<e>>
      OBVIOUS
    <3>. QED
      BY <1>3, <2>5, <2>6, <3>1, <3>2 DEF ActedEvent
  <2>8. IF e.action = "FOLD" THEN table'.state[e.player] = "FOLDED"
        ELSE e.bet = table'.bet[e.player]
    BY <2>1, <2>4, <2>5, <2>6, <2>7, ActedIsSo
  <2>9. e.type = "PlayerActed"
    BY <2>7 DEF Event!PlayerActed
  <2>. QED
    BY <2>8, <2>9 DEF Current
<1>4. CASE PostSmallBlind /\ e = Event!BlindPosted(SbSeat, SmallBlind, FALSE)
  <2>1. Calling("postSmallBlind") /\ table' = PostBlind(table, SbSeat, SmallBlind)
    BY <1>4 DEF PostSmallBlind, TableCall
  <2>2. Opening(Top, 6)
    BY <1>1, <2>1 DEF Where
  <2>3. table = StartBettingRound(settled.table, "PREFLOP")
    BY <2>2 DEF Opening, At, OpenedTable
  <2>4. table'.bet[SbSeat] = SmallBlind
    BY <2>1, <2>3, BlindIsSo DEF SettledSound
  <2>. QED
    BY <1>4, <2>4 DEF Current, Event!BlindPosted
<1>5. CASE PostBigBlind /\ e = Event!BlindPosted(BbSeat, BigBlind, TRUE)
  <2>1. Calling("postBigBlind") /\ table' = PostBlind(table, BbSeat, BigBlind)
    BY <1>5 DEF PostBigBlind, TableCall
  <2>2. Opening(Top, 7)
    BY <1>1, <2>1 DEF Where
  <2>3. table = PostBlind(StartBettingRound(settled.table, "PREFLOP"), SbSeat, SmallBlind)
    BY <2>2 DEF Opening, At, OpenedTable
  <2>4. table'.bet[BbSeat] = BigBlind
    BY <2>1, <2>3, BlindIsSo DEF SettledSound
  <2>. QED
    BY <1>5, <2>4 DEF Current, Event!BlindPosted
<1>6. CASE DealCommunityCardsCall /\ e = Event!CommunityCardsDealt(community')
  BY <1>6 DEF Current, Event!CommunityCardsDealt
<1>7. CASE SplitPotCall /\ e = Event!PotSplited(MapThenSumSet(LAMBDA p : p.chips, pots'))
  <2>1. /\ Calling("splitPot") /\ control' = "settling" /\ UNCHANGED <<table, declared>>
        /\ settled' = Now'
    BY <1>7 DEF SplitPotCall, HoldemStepEnds
  <2>2. settled.control = "awaiting" /\ declared = settled.declared
    BY <1>1, <2>1 DEF Where
  <2>3. /\ settled'.control = "settling" /\ settled'.declared = {}
        /\ settled'.pots = pots' /\ settled'.table = table'
    BY <2>1, <2>2 DEF Now, SettledSound
  <2>4. InPots(pots') = table'.pot
    BY <2>3 DEF SettledSound
  <2>5. e.chips = InPots(pots') /\ e.type = "PotSplited"
    BY <1>7 DEF InPots, Event!PotSplited
  <2>. QED
    BY <2>4, <2>5 DEF Current
<1>8. CASE \/ e.type \in {"NewPlayerJoined", "StageChanged", "BettingRoundStarted",
                         "HoleCardsRevealed", "WinnerDeclared", "GameEnded"}
           \/ \E count \in StartedCounts : e = StartedEvent(count)
  BY <1>8 DEF Current, StartedEvent, Event!GameStarted
<1>. QED
  BY <1>2, <1>3, <1>4, <1>5, <1>6, <1>7, <1>8 DEF Said

-----------------------------------------------------------------------------
(* Those who watch are told the truth.                                     *)

\* The frame f is what is left of the publish of an event that still holds.
Truthful(f) ==
    \E e : /\ e.type \in Announcements /\ Current(e)
           /\ \E k \in 1..Len(Publish(e)) : f = From(Publish(e), k)

TruthInv == control = "trapped" \/ Quiet(stack) \/ Truthful(Top)

\* CurrentStill: an event holds as long as the managers do not change.
LEMMA CurrentStill ==
    ASSUME UNCHANGED vars, NEW e, Current(e)
    PROVE  Current(e)'
<1>1. table' = table /\ community' = community
  BY DEF vars
<1>. QED
  BY <1>1 DEF Current

\* ToldOn: those who have not been told yet are told the same.
LEMMA ToldOn ==
    ASSUME Running, TruthInv, ShowEvent, stack' # << >>, Head(stack') = Tail(Top)
    PROVE  TruthInv'
<1>1. Busy /\ Watched(Task) /\ UNCHANGED vars
  BY DEF ShowEvent, Delivering, Watched
<1>2. ~Quiet(stack) /\ control # "trapped"
  BY <1>1 DEF Quiet, Busy, Running, Top, Task
<1>3. PICK e : /\ e.type \in Announcements /\ Current(e)
               /\ \E k \in 1..Len(Publish(e)) : Top = From(Publish(e), k)
  BY <1>2 DEF TruthInv, Truthful
<1>4. PICK k \in 1..Len(Publish(e)) : Top = From(Publish(e), k)
  BY <1>3
<1>5. Head(stack') = From(Publish(e), k + 1)
  BY <1>3, <1>4, PublishedList DEF IsList
<1>6. Len(Publish(e)) \in Nat /\ From(Publish(e), Len(Publish(e)) + 1) = << >>
  BY <1>3, PublishedList DEF IsList
<1>7. CASE k = Len(Publish(e))
  BY <1>5, <1>6, <1>7 DEF TruthInv, Quiet
<1>8. CASE k # Len(Publish(e))
  <2>1. \A n \in Nat : \A i \in 1..n : i # n => i + 1 \in 1..n
    OBVIOUS
  <2>2. k + 1 \in 1..Len(Publish(e))
    BY <1>6, <1>8, <2>1
  <2>3. Current(e)'
    BY <1>1, <1>3, CurrentStill
  <2>4. Truthful(Top)'
    BY <1>3, <1>5, <2>2, <2>3 DEF Truthful, Top
  <2>. QED
    BY <2>4 DEF TruthInv
<1>. QED
  BY <1>7, <1>8

\* AskedFor: what the controller is called for is a request.
LEMMA AskedFor ==
    ASSUME ConsoleInv, Busy, Task.do = "deliver", ~Watched(Task)
    PROVE  Task.event.type \in Requests
<1>1. /\ control # "trapped" /\ stack # << >> /\ Head(stack) # << >> /\ Task = Head(Head(stack))
      /\ Top = Head(stack)
  BY DEF Busy, Running, Task, Top
<1>2. ASSUME NEW k \in 1..(NumPlayers + 1), Seating(k)
      PROVE  Task.event.type \in Requests
  <2>1. Top # <<Call("joinNewPlayer")>>
    BY <1>1 DEF Task, Call
  <2>2. IsStack(stack) /\ Holds(stack, From(MainCalls, k))
    BY <1>2, <2>1 DEF Seating
  <2>3. k \in 1..(NumPlayers + 2)
    BY NumPlayersAssumption
  <2>4. Head(stack) = From(MainCalls, k)
    BY <1>1, <2>2, HeldFirst
  <2>5. Task = MainCalls[k]
    BY <1>1, <2>3, <2>4, MainTask
  <2>6. k \in 1..NumPlayers \/ k = NumPlayers + 1
    BY NumPlayersAssumption
  <2>. QED
    BY <2>5, <2>6, MainList DEF Deliver, Call, Event!PlayerJoinRequest, Requests
<1>3. ASSUME NEW A, BusInv(A)
      PROVE  Task.event.type \in Requests
  <2>1. PICK todo : IsStack(stack) /\ Laid(stack, todo) /\ Reached(A, todo)
    BY <1>1, <1>3 DEF BusInv
  <2>2. todo = Head(stack)
    BY <1>1, <2>1, LaidCalled
  <2>3. Ordered(todo)
    BY <1>1, <2>1, <2>2, ReachedOrdered
  <2>. QED
    BY <1>1, <2>2, <2>3 DEF Ordered
<1>. QED
  BY <1>1, <1>2, <1>3 DEF ConsoleInv, Playing

\* TruthSteps: no step makes what is still to be told untrue.
LEMMA TruthSteps ==
    ASSUME ConsoleInv, SettledSound, SettledSound', TruthInv, [ConsoleBusNext]_busVars
    PROVE  TruthInv'
<1>1. CASE UNCHANGED busVars
  <2>1. UNCHANGED vars /\ control' = control /\ stack' = stack
    BY <1>1 DEF busVars, vars
  <2>2. Quiet(stack) => Quiet(stack')
    BY <2>1
  <2>3. Truthful(Top) => Truthful(Top)'
    <3>1. SUFFICES ASSUME Truthful(Top) PROVE Truthful(Top)'
      OBVIOUS
    <3>2. PICK e : /\ e.type \in Announcements /\ Current(e)
                   /\ \E k \in 1..Len(Publish(e)) : Top = From(Publish(e), k)
      BY <3>1 DEF Truthful
    <3>3. Current(e)' /\ Top' = Top
      BY <2>1, <3>2, CurrentStill DEF Top
    <3>. QED
      BY <3>2, <3>3 DEF Truthful
  <2>. QED
    BY <2>1, <2>2, <2>3 DEF TruthInv
<1>2. CASE BusStep \/ SetChipsCall \/ ShowEvent \/ GetPlayerInput
  <2>1. Running /\ News
    <3>1. BusStep => Running
      BY BusTask
    <3>2. SetChipsCall \/ ShowEvent \/ GetPlayerInput => Running
      BY DEF SetChipsCall, ShowEvent, GetPlayerInput, Delivering, Calling, Busy
    <3>. QED
      BY <1>2, <3>1, <3>2 DEF ConsoleInv, Running
  <2>2. ASSUME NEW k \in 1..(NumPlayers + 1), Seating(k)
        PROVE  TruthInv'
    BY <1>2, <2>2, SeatSteps DEF TruthInv
  <2>3. ASSUME NEW A, A \subseteq Allowed, BusInv(A)
        PROVE  TruthInv'
    <3>1. CASE BusStep
      <4>1. Quiet(stack') \/ \E e : Tells(e)
        BY <2>3, <3>1, BusNews
      <4>2. ASSUME NEW e, Tells(e)
            PROVE  TruthInv'
        <5>0. e.type \in Announcements /\ Said(e) /\ 1 \in 1..Len(Publish(e))
              /\ stack' # << >> /\ Head(stack') = From(Publish(e), 1)
          BY <4>2, TellingNews DEF Tells
        <5>1. Current(e)'
          BY <2>3, <3>1, <5>0, SaidIsSo
        <5>2. Truthful(Top)'
          BY <5>0, <5>1 DEF Truthful, Top
        <5>. QED
          BY <5>2 DEF TruthInv
      <4>. QED
        BY <4>1, <4>2 DEF TruthInv
    <3>2. CASE ShowEvent
      <4>1. stack' # << >> /\ Head(stack') = Tail(Top)
        BY <2>1, <2>3, <3>2, ShowSteps
      <4>. QED
        BY <2>1, <3>2, <4>1, ToldOn
    <3>3. CASE GetPlayerInput
      <4>1. Quiet(stack')
        BY <2>1, <2>3, <3>3, InputSteps DEF Playing
      <4>. QED
        BY <4>1 DEF TruthInv
    <3>. QED
      BY <1>2, <2>3, <3>1, <3>2, <3>3, SetBefore
  <2>. QED
    BY <2>1, <2>2, <2>3 DEF ConsoleInv, Playing, Running
<1>. QED
  BY <1>1, <1>2 DEF ConsoleBusNext, ProgramOver

\* EventsStayCurrent: for any table, stakes and answers, whoever is called for an
\* event of poker finds the managers as the event says: no handler that runs
\* inside a publish changes them before publish has come to the last subscriber.
THEOREM EventsStayCurrent == ConsoleBusSpec => []EventsAreCurrent
<1>1. ConsoleBusInit => TruthInv
  BY ConsoleInitial DEF TruthInv
<1>2. ConsoleInv /\ SettledSound /\ SettledSound' /\ TruthInv /\ [ConsoleBusNext]_busVars => TruthInv'
  BY TruthSteps
<1>3. ConsoleInv /\ TruthInv => EventsAreCurrent
  <2>1. SUFFICES ASSUME ConsoleInv, TruthInv, Busy, Task.do = "deliver"
                 PROVE  Current(Task.event)
    BY DEF EventsAreCurrent
  <2>2. control # "trapped" /\ stack # << >> /\ Head(stack) # << >> /\ Task = Head(Head(stack))
    BY <2>1 DEF Busy, Running, Task, Top
  <2>3. CASE Watched(Task)
    <3>1. PICK e : /\ e.type \in Announcements /\ Current(e)
                   /\ \E k \in 1..Len(Publish(e)) : Top = From(Publish(e), k)
      BY <2>1, <2>2, <2>3 DEF TruthInv, Truthful, Quiet
    <3>2. PICK k \in 1..Len(Publish(e)) : Top = From(Publish(e), k)
      BY <3>1
    <3>3. Task = Publish(e)[k]
      BY <3>1, <3>2, PublishedList DEF IsList, Task
    <3>4. Publish(e)[k] = Deliver(Subscribers(e.type)[k], e)
      BY <3>1, <3>2, PublishAnnouncement
    <3>5. Task.event = e
      BY <3>3, <3>4 DEF Deliver
    <3>. QED
      BY <3>1, <3>5
  <2>4. CASE ~Watched(Task)
    <3>1. Task.event.type \in Requests
      BY <2>1, <2>2, <2>4, AskedFor
    <3>. QED
      BY <3>1 DEF Current, Requests
  <2>. QED
    BY <2>3, <2>4
<1>. QED
  BY <1>1, <1>2, <1>3, ConsoleReached, SettledIsSound, PTL DEF ConsoleBusSpec
=============================================================================
