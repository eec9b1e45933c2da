----------------------------- MODULE ConsoleBus ----------------------------
(***************************************************************************)
(* The program poker (src/main.cpp) on the bus: the subscriptions of main  *)
(* in their order, and the console, which answers WaitingForAction from    *)
(* inside its handler.                                                     *)
(***************************************************************************)
EXTENDS GameBus

\* Mutation: the console is subscribed before what prints the turn.
ConsoleSubscribersInputFirst(type) ==
    CASE type \in Requests -> <<"controller">>
      [] type = "WaitingForAction" -> <<"input", "printGameModel", "printEvent">>
      [] type = "GameEnded" -> <<"printGameModel">>
      [] type \in {"BlindPosted", "PlayerActed", "WinnerDeclared", "PotSplited"} -> <<"printEvent">>
      [] OTHER -> << >>

ConsoleSubscribers(type) ==
    CASE type \in Requests -> <<"controller">>
      [] type = "WaitingForAction" -> <<"printGameModel", "printEvent", "input">>
      [] type = "GameEnded" -> <<"printGameModel">>
      [] type \in {"BlindPosted", "PlayerActed", "WinnerDeclared", "PotSplited"} -> <<"printEvent">>
      [] OTHER -> << >>

ASSUME ConsoleSubscribersAssumption ==
    \A type \in Requests \cup Announcements : Subscribers(type) = ConsoleSubscribers(type)

\* main: five joins, the stacks, StartGame.
MainCalls ==
    FlattenSeq([i \in 1..NumPlayers |-> Publish(Event!PlayerJoinRequest)])
        \o <<Call("setChips")>> \o Publish(Event!StartGame)

ConsoleBusInit == Init /\ stack = <<MainCalls>> /\ settled = Now

SetChipsCall ==
    /\ Calling("setChips")
    /\ SetChips
    /\ HoldemStepEnds
    /\ Enter(<< >>)

\* printEvent and printGameModel only read.
ShowEvent ==
    /\ Delivering("printEvent") \/ Delivering("printGameModel")
    /\ Become(<< >>)
    /\ UNCHANGED <<vars, settled>>

\* getPlayerInput decides by what the event carries.
Answers(e, event) ==
    IF event.is_fold THEN event.target_bet = 0 ELSE ConsoleAccepts(e.context, event.target_bet)

GetPlayerInput ==
    /\ Delivering("input")
    /\ \E event \in PlayerActionEvent :
          /\ Answers(Task.event, event)
          /\ Enter(Publish(Event!PlayerAction(event.target_bet, event.is_fold)))
    /\ UNCHANGED <<vars, settled>>

\* main has returned, or the process is dead.
ProgramOver == ~Running /\ UNCHANGED busVars

ConsoleBusNext == BusStep \/ SetChipsCall \/ ShowEvent \/ GetPlayerInput \/ ProgramOver

ConsoleBusSpec == ConsoleBusInit /\ [][ConsoleBusNext]_busVars

-----------------------------------------------------------------------------
\* TurnsAreTailCalls: when the console is asked, no call below it on the stack
\* has anything left to do: the answer is handled inside publish, and whatever
\* came after awaitPlayerAction would run when the hand is long over.
TurnsAreTailCalls ==
    Delivering("input") =>
        Tail(Top) = << >> /\ \A i \in 2..Len(stack) : stack[i] = << >>

\* AtomicSteps: seen only where Holdem's steps end, the calls and deliveries
\* are steps of ConsoleGame: what nested publishes interleave comes to what
\* that module does at once.
AtomicSteps == Atomic!ConsoleSpec
=============================================================================
