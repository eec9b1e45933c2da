# OpenHoldem in TLA+

A specification of OpenHoldem: one hand of no-limit hold'em, from the first player sitting down to
`GameEnded`, as `GameController`, `GameModel` and the managers play it on the event bus, as the console
program `poker` drives it, as a client sees it over the network, and the network that brings it there.
TLC checks it on small tables and with two clients; TLAPS proves the table's invariant, the arithmetic of
bets, awards and side pots, that hands are ranked by the rules of poker, that no chip is lost, that the rounds of betting ask whom they should, that every pot is
paid, that the nested calls on the event bus come to one step a handler, and the network's queues, for every table and
every number of clients.

Paths below are relative to the repository. Numbers of the form `file:line` are the code's.

## The system

| Part | State it keeps | Operations | What makes it correct |
|---|---|---|---|
| `GameController` | none | the handlers of `StartGame`, `PlayerJoinRequest`, `PlayerAction`; the stages | each answer leads to exactly one of: next seat, next street, showdown |
| `GameModel` | `current_stage` | one step of a stage each; publishes what it did | the managers agree with each other after every handler |
| `ActionFlow` | acting seat, pending count, incomplete-raise flag | `setupToStart`, `applyAction`, `moveActingPlayer`, `isFlowEnded`, `canPlayerRaise` | every active seat is asked, and asked again after a raise, nobody else |
| `BettingManager` | the round's bet, the minimum raise (and each `Player::bet`) | `setupBetting`, the blinds, setters | the round's bet is the highest bet |
| `ChipsManager`, `PotManager` | the pot, the side pots (and each `Player`'s chips and commitment) | `moveChipsToPot`, `moveChipsToPlayer`, `distributePot` | chips are neither made nor lost; the pot is what was committed |
| `SeatManager`, `PlayerSet`, `Player` | the seats, the button, each player's state | next active seat, blinds' seats, order from the button | the seat found can act |
| `chips_calc` | none | `process_betting`, `calculate_awards` | a bet is classified by its effect; awards are the pot |
| `side_pots.h` | none | `load_side_pots` | side pots return every commitment |
| `eval_hand`, `HandValue` | none | the value of the best five of seven cards | integers order hands as the rules do |
| `Deck`, `CardsManager` | deck position, board, hole cards | shuffle, deal, compare | no card twice, a board per street |
| `main.cpp` (`poker`) | none | five joins, the stacks, `StartGame`, `getPlayerInput` | it lets through what the table accepts |
| `EventBus` | handlers by type | `subscribe`, `publish` | synchronous, in subscription order |
| `ServerNetwork`, `ClientNetwork` | a socket and queues of packets each way | accept, `pull`, `push`, send | packets arrive once and in order; a disconnection is noticed |
| `ServerIoAdapter`, `ClientIoAdapter` | none | forward events to and from the network | the right client gets the right event |
| `ClientController`, `ClientModel` | a client's copy of pot, bets and states | one handler per event | the copy agrees with the table |
| `EventSerializer` | none | event to JSON and back | what is sent is read |
| `server_main.cpp`, `client_main.cpp` | a loop flag | pull, publish, push, every 10 ms | a hand can be played over the network |
| `ConsoleView`, `Formatter`, `EventLogger`, `GlobalLogger` | none | text | none of the game's |

**How the parts interact.** Everything of the game happens in one thread, inside
`EventBus::publish`, which calls its subscribers before it returns: `StartGame` runs up to the first
`WaitingForAction`, whose subscriber in `main.cpp` asks the console and publishes `PlayerAction` from
inside that call, and so on down to `GameEnded`. The managers share `PlayerSet`: four of them write
fields of the same `Player`.

**What is hard.** There are no locks and no crashes to recover from. What is hard is the
bookkeeping over long sequences of calls: a counter, an acting seat and three flags per player that
different classes keep about one betting round; two accounts of the same chips; all-ins below, at and
above the bet and the raise; views of the players (active, alive, playing) that differ in one
state; decisions taken while the board may be incomplete. `publish` nests: a handler that publishes is
still on the stack while everything that follows from it happens. Over the network it is
also packets sent in part, a client that reads nothing or is gone, answers from the wrong client, and a copy
of the game that is kept by adding up differences. `PROJECT.json` lists each hazard at its line.

**The network around it.** `server_main.cpp` and `client_main.cpp` each loop over three steps: `pull` what the
sockets have into a queue, publish the queue on the bus, `push` what the handlers left in the outgoing queues.
`ServerIoAdapter` turns events of the bus into packets for one client or all of them; packets from clients
are published as they are. The sockets do not block: `push` ends at the first packet that is
not sent whole and takes it up again a turn later.

## The modules

| Module | Models | Form |
|---|---|---|
| `GameTypes` | `GameTypes.hpp`, the states of `Player` | sets of names |
| `ChipsCalc` | `chips_calc.cpp` | operators on a context and a target bet |
| `SeatManager` | `SeatManager.cpp` | arithmetic on the ring of seats |
| `SidePots` | `side_pots.h` | the set of side pots of a commitment |
| `HandEval` | `eval_hand.cpp`, `HandValue` | operators on hands of cards |
| `Table` | `ActionFlow`, `BettingManager`, `ChipsManager`, `PotManager`, the data of `Player`, and the compositions of `GameModel` | one record, and functions from record to record, named after the methods |
| `Holdem` | `GameController`, `GameModel`, `CardsManager`'s dealing and comparing, a handler a step | the state machine |
| `ConsoleInput` | `getPlayerInput`'s filter, on unbounded integers and at a width | predicates on a context and a target |
| `ConsoleGame` | the program `poker` | `Holdem` with the console as the only publisher of answers; fairness; refinement |
| `BettingRound` | nothing of the code: the abstract betting rounds | who is asked, no chips or counters |
| `Events` | `Event.hpp` | a record for each event |
| `GameBus` | `EventBus::publish`, and the handlers of `GameController` and `GameModel` call by call | `Holdem`'s state and a stack of calls |
| `ConsoleBus` | the subscriptions of `main.cpp`, `getPlayerInput` inside `publish` | `GameBus` with the console |
| `ClientTable` | `ClientModel`, `ClientController` | functions from a client and an event to a client |
| `ClientGame` | `ServerIoAdapter`, `ClientIoAdapter` | `GameBus` with a server, composed with one `ClientTable` |
| `Network` | `ServerNetwork`, `ClientNetwork`, the loops of `server_main.cpp` and `client_main.cpp` | a state machine of 1 + n processes and their streams |
| `Channels` | nothing of the code: a queue each way for each client | what `Network` implements |
| `MCHoldem`, `MCAlgo` (with `MCChipsCalc`, `MCSidePots`, `MCHandEval`), `MCConsoleBus`, `MCClientGame` | instances for TLC | constants, enumerated inputs, the rules of poker as reference |
| `AlgoProofs`, `MCAlgoProofs`, `HoldemProofs`, `ConsoleProofs`, `BusProofs`, `ConsoleBusProofs`, `ClientProofs`, `NetworkProofs` | theorems | |

**`Holdem`.** The state is the table record plus `stage` (`GameModel::current_stage`), `player_count`,
`community` and `cards_dealt` (how many cards lie on the board and have left the deck), `pots` and
`unpaid` (the side pots, and those `distributePots` has not visited), `hand_value`, and the events a
property needs to see (`revealed`, `declared`). `control` says where the one thread is.
`buy_in` is a history variable: the stacks of the start.

A handler, with everything it publishes, is one action, because `publish` returns only
when the subscribers are done. `PlayerAction(event)` is the whole of
`handle(PlayerAction)`: the bet or fold is applied by `HandlePlayerAction`, and one of five disjuncts
follows, under the conditions of `GameController.cpp:32-52` in their order: `ContinueRound`,
`AwardUncontested`, `RunOutBoard`, `NextStreet`, `RiverShowdown`. The thread is only interrupted
where the program itself can stop: at `WaitingForAction`, and between the pots of `distributePots`, each
of which is a step of its own (`DistributePots`, `DistributeDeadPot`).

**`GameBus`.** That a handler is one step is itself a claim, and `GameBus` takes it apart. `stack` is the
call stack: a frame is what a handler has left to call, or a publish has left to deliver. Each member
function of `GameModel` is an action, and so is each delivery to a subscriber (`ControllerHandles` and, in
the programs, `ShowEvent`, `GetPlayerInput`, `IoForwards`). The events are of two kinds: `Requests`, which the controller
subscribes to, and `Announcements`, which `GameModel` publishes. Who subscribes is the constant `Subscribers`: in
`ConsoleBus` it is `main.cpp`'s list in its order, in `ClientGame` the server's; all that `GameBus` itself assumes is that
the controller alone gets requests and no announcements. `settled` is a history
variable, the variables of `Holdem` where its last step ended; through it `GameBus` refines `ConsoleGame`.

**`ClientGame`.** The server's bus with `ServerIoAdapter` subscribed before the controller, and one client. Its
connection is `client_id`, which the adapter takes for its seat. `IoForwards` hands an event that is addressed to the
client to `Handle`, so that `client` is what the client will know when it has handled what was
sent so far. The lag of the network is left out there without loss: a client handles what it gets in order
(`PacketsInOrder`) and sends nothing but an answer, which `asked` stands for. The other players'
answers are arbitrary, and an answer that no turn asked for is taken for the acting seat's, as
`handle(PlayerAction)` takes it, since the event carries no seat.

`GameModel.cpp:27` publishes `GameStarted{}`, which says that there are no players and that the big blind is 0;
`Event.hpp:38` declares a `player_count`. `StartedCounts` is what the event may say. 0 is what the code publishes, and a
client then dies at the first event that indexes its empty vectors: its own `HoleCardsDealt` if
it takes its own seat for its own, and the small blind if it takes another. With the number of players it lives, and
everything else in its handlers can be looked at.

**`Network`.** The server's thread is at one of `accept`, `connected`, `receive`, `publish`, `handling`, `push`,
a client's at `pull`, `publish`, `push`; each step is one socket call or the handling of one packet.
A stream holds whole packets and possibly the first part of one more. `SendOutcomes` is `send` on a
socket that does not block: all of it, part of it, nothing, or a lost connection; the kernel may also take a packet
for a peer that has gone. SFML remembers how much of a packet it has sent in the packet object, so the next `send`
of the same packet completes it, and the send of any other would be glued to the part:
`Completed` gives `Garbled` for that. The handlers are left open: they send any message to one
client or to all, an answer or none. Any process may be killed at any step (`ClientDies`, `ServerDies`), and what
its socket had received may or may not be read. A client that is gone stays among the clients, as it does in the code.

**Undefined behaviour** is a choice. Evaluating a hand on an empty board reads `counts[1]` of a
vector of one (`eval_hand.cpp:113`): the process dies or goes on with some value. A side pot whose
contributors have all folded is divided by zero (`chips_calc.cpp:71`): the process dies, or the
quotient, which nothing then uses, is not computed. A dead process is `control = "trapped"`.
`ClientModel::this_player_seat` is read before anything is written to it: any seat of `SeatGuess`. A write past the end of the client's
empty vectors goes through null: the client is dead (`crashed`). `target_bet - player_bet` at
`main.cpp:82` may overflow: its result is then any `int`.

**What is abstracted.** Cards have no identity in `Holdem`: an alive hand has any value at
the showdown, which is every outcome of every shuffle as far as bets and pots can tell, and `HandEval`
is where values come from. A board is how many cards it shows. Integers are unbounded but in `WidthIsHarmless`. `last_aggressor` and
`is_all_in` are written and never read, and left out. `closeBettingRound`, `processSettlementStage`,
`Player::commit`, `needsToAct`, `nextAliveSeat`, `clearPot` and `advanceBtnSeat` are called by
nothing and left out; the button stays at seat 0. A packet is the event it was made from.

Operators with a comment that starts with `Mutation:` are not part of the model. Each is a plausible
bug of the definition below it, and putting it in that definition's place makes a property fail.

## The runs

`MCHoldem` uses a big blind of 2. Stacks of 3, 5 and 6 are one above the big blind, enough for a full
raise and one more than that, so that players are all in below, at and above each other's bets, raise by
less than the minimum, and leave two and three levels of side pots. Targets go from a negative one to
the largest stack. Three players are the fewest with a main pot, a side pot and a player out of both;
the abstract betting rounds are checked with four, where a raise between two calls leaves seats
both behind and before the raiser.

| Run | Specification | What it shows |
|---|---|---|
| `bus` | `Spec`, 3 players, any answer at any turn, refused ones included | `TypeOK`, `TurnIsActive`, `AllInExact`, `SeatLedger`, `ChipsConserved`, `RoundBetIsHighest`, `BoardMatchesStreet`, `OutIsFinal` (about 650,000 states) |
| `console` | `FairConsoleSpec`, 3 players | the side pots hold the pot and the lowest is contended by everyone alive; a hand that ends leaves nothing in the pot; every hand ends (540,000) |
| `betting_round` | `ConsoleSpec`, 4 players | no round closes over an unmatched bet, streets are paid equally, and `RoundRefinement`: `ActionFlow` implements `BettingRound` (190,000) |
| `algo` | one input a state: every context of up to 4 chips, target, pot and up to 5 winners; every commitment of 0 to 4 chips by 4 seats; hands over chosen decks | the console and the table agree, at 4-bit integers too; a bet is classified by its effect; raises are full unless all in; awards are the pot; pots return the commitments and are layers; packed values order hands as the rules do; the best five of seven are found (100,000) |
| `event_bus` | `ConsoleBusSpec`, 3 players | call by call and delivery by delivery: no event is out of date when a subscriber gets it, the console is asked with nothing left to do below it on the stack, and `AtomicSteps`: the program implements `ConsoleSpec` (770,000) |
| `client_view` | `ClientGameSpec`, 3 players, one client | what a client knows: the board and who is out always; the bet of a seat that has acted on the street; the pot up to what folded seats had bet, before the flop; that its pot and stacks are its bets; no cards but its own (4.9 million) |
| `network` | `FairNetworkSpec`, 2 clients | no packets run together; `PacketsInOrder`: the programs implement `Channels`; nobody holds up anybody else, either way; the server notices every client that is gone (520,000) |

`AnsweredMeansMatched` and `StreetsSettledEqually` do **not** hold on the bare bus, and are checked of
the console program: a refused answer passes the turn without being counted
(`GameModel.cpp:109-118`), so a publisher with a weaker filter than the console's lets a round close
over an unmatched bet. `ConsoleAndTableAgree` is the other half of that argument.

The hands of `algo` are drawn from the ranks where the code has special cases: 2 to 6 with the
ace (wheel, six-high straight, the gap between) and ten to ace. Five cards with at most
four of a rank need only be suited or not; sevens come from a deck with three or more suits of the
low ranks, so straight flushes, flushes, full houses and straights compete inside one seven. Four bits of `int` hold
every sum of the inputs and none of the differences that overflow.

`event_bus` has stacks of 3 and 5 and targets up to 5, so that one or two seats are all in below the others' bets:
every branch of `handle(PlayerAction)` and every kind of showdown is called. More players only repeat
deliveries.

`client_view` gives every player the same stack, as `server_main.cpp` does, which never sets one: 5 stands for the 200 that a
`Player` is born with, and is enough for two raises on one street. The client is in seat 1, the small blind, and takes
seat 1 or, wrongly, seat 2 for its own. What it is **not** shown to know says as much. Its bets are not
cleared between streets, because nothing publishes `BettingRoundEnded`: hence "once it has acted" in
`ClientBetsAgree`. Its pot is wrong once anyone folds, because a fold is published with a bet of 0 and the client
subtracts the difference, and from the flop on: hence "before the flop, short of what folded seats had bet" in `ClientPotBeforeFlop`.

`network` bounds: the handlers leave at most 2 packets in a queue (`QueueBound`) so that `push` can stop with one sent
and one not; one answer is on its way at a time (`AnswerBound`), as in a game; a stream takes one whole packet before
it is full (`SocketBuffer`), so that full sockets are frequent. Two clients are the fewest in which one can hold up
another, and each of the loops over the clients has one at its end and one before that. The server may really stop, and so deadlock is not
checked there.

Five runs look for, and find, a state that a comment or the README excludes:

| Run | The text | What the code does |
|---|---|---|
| `side_pot_winners` | `GameModel.h:98`, all pots are shared out | every call of `distributePot` pays the total (`ChipsManager.cpp:41`), so the winners of the highest side pot take everything |
| `hole_cards_revealed` | `GameModel.h:94`, all players' hole cards | players who are all in are not revealed (`GameModel.cpp:125`) |
| `board_at_showdown` | `eval_hand.h:9`, five community cards and two hole cards | a hand everyone else folds is evaluated on the board as it is, empty before the flop |
| `settlement_survives` | `README.md:13`, a hand can be played | a side pot with no contender left divides by zero |
| `client_starts` | `README.md:13`, a hand can be played over the network | `GameStarted{}` says that there are no players (`GameModel.cpp:27`), so the client's vectors are empty: with its own seat as `this_player_seat` it dies when its hole cards are dealt (`ClientController.cpp:45`), before the blinds, which is the trace TLC shows; with another it dies on the small blind (`ClientController.cpp:54`) |

`SettlementSurvives` looks at boards with cards only, so that it speaks of the division and not of the
empty board. The chip properties are checked through both traps: `ChipsConserved` holds in a state in
which the process has died, too. `client_view` includes the client that dies: its properties speak of the one that
lives, but for `ClientMoneyIsBets` and `HoleCardsAreOwn`, which hold of both.

**Fairness of the console.** `FairConsoleSpec` assumes weak fairness of three things. The joins, the stacks and the start
are consecutive statements of `main`. The settlement is a loop. `ConsoleTurn` is fair because
`getPlayerInput` asks until it gets an answer it accepts, and one always exists (a fold); the
assumption is that the person at the console gives one in the end. At the end of the input stream the
program asks for ever, and the assumption does not hold there. No fairness chooses between a fold, a
call and a raise: `HandFinishes` holds because every round of raises spends chips.

**Fairness of the network.** Each program loops on a thread of its own, sleeping 10 ms a turn, and no call in
the loop blocks: weak fairness of `ServerStep`, and of each client's `ClientStep`. Nothing is assumed of what the handlers send, of
the connections, or of the deaths of processes. A handler returns because `QueueBound` ends what it sends; that a
full socket drains is not assumed but follows from the client's own loop. The liveness properties all
have an escape for an end that has died, and for nothing else.

## The proofs

The theorems about a table hold of `Spec`, so for any answers on the bus (those of `ConsoleProofs` of
`ConsoleSpec`, the answers that the console lets through), and for any number of players from 2 to
23 (a deck has 52 cards, `2n + 5` are dealt; with two or more players the blinds are two different
seats), any big blind of at least 2 and any stacks larger than it. `main.cpp` has five, 10, and 100 to
300. The assumptions are the `ASSUME`s of `SeatManager`, `Table` and `Holdem`. Those about the algorithms hold of
`AlgoSpec`, for amounts of any size and any finite set of seats; its bounds are the `ASSUME`s of `MCChipsCalc` and `MCSidePots`,
which say no more than that the inputs are natural numbers, and of `MCHandEval`, that the ranks and the cards are those of
`Card.hpp`.

- `AlgoProofs`: the algorithms. `BetsAgree` says that the console's filter and `process_betting`, written apart, accept
  the same targets for all amounts, and `OverflowIsHarmless` that they still do at every width of
  `int`, whatever an overflow comes out as. `AwardsAddUp` is about the split of a pot, `SidePotsHold`,
  `SharesReturnCommitment` and `PotsLieAbove` about the side pots. Its last part, on sequences of sequences, is for
  the bus and the network.
- `MCAlgoProofs`: what the run `algo` checks of them on small inputs, for every input, and the evaluation of hands.
- `HoldemProofs`: the ring of seats, where the walk of `nextActiveSeat` finds an active seat, and not -1,
  whenever there is one, and only then (`NextActiveSeatFound`); counts of seats; each operation on the table, as a lemma with
  the fields it changes. `AcceptedBet`, `PlacedBet` and `FoldedSeat` say what an answer does, `NextTurn` and
  `OpenedStreet` what follows it. Then the invariant and what follows, and the accounts of chips that different classes keep.
- `ConsoleProofs`: the rounds of betting, that they implement `BettingRound`, and the settlement.
- `BusProofs`: any program on the bus, a call or a delivery at a time.
- `ConsoleBusProofs`: the program `poker` on the bus.
- `ClientProofs`: what a client shows of the hand.
- `NetworkProofs`: the queues and the streams, and that they implement `Channels`.

`TurnIsActive` is not inductive. That the seat asked next is active needs an active seat to exist, and
that comes from the counts: more than zero answers are pending, and never more than
there are active seats other than the one that has just answered. That this seat has chips needs
every active seat to have chips, which in turn needs ALL_IN to be marked in the very step that
spends the last chip, which is about the branches of `get_action`. `HandInv` collects this:

    HandInv == TypeOK /\ SeatedInv /\ TurnInv /\ BoardMatchesStreet /\ HandsInv

`SeatedInv` is about the table before the hand (everyone active, stacks above the big blind), `TurnInv` about
a turn (`TurnTable`: every seat sound, counts in range, the acting seat active),
`HandsInv` about the settlement (every alive seat has a value). `InitHand` and `NextHand`,
with a lemma for every group of actions, make it inductive; the theorems `TypesHold`, `TurnsAreActive`,
`AllInsAreExact`, `BoardsMatchStreets` and `OutsAreFinal` each follow from it. `TypesHold` also says
that no amount is ever negative, so that the exceptions of `moveChipsToPot` and `playerAt(-1)` are out
of reach.

**The accounts of a bet.** `LedgerInv` says of a turn that some seat has bet what the round asks for, that a seat's
bet is part of what it committed, and that its chips and its commitment are the stack it brought. It is inductive next to
`HandInv`, which bounds the bets from above; `RoundBetsAreHighest` and `StacksCommitted` follow, neither of which needs a
sum. `ChipsInv` adds the two sums: before the settlement the pot is the sum of what was committed
(`PotIsCommitted`), and always the stacks and the pot are what was brought (`NoChipsLost`).

**Sums** are where a proof would need induction over data, which is out of reach as a schema. It is not out of reach
for one function: a strict subset is well-founded on finite sets, and that a given set of finite sets has a least member for
it can be stated without an operator parameter. `AlgoProofs` takes from this that a sum over a finite set is that over the rest plus one
term, and from that all that is needed: a change at one seat changes the sum by as much, equal terms give
a product, a sum splits over a partition. The awards are `pot \div n` each and one more for `pot % n` places. For the side
pots, sums over pots become sums over the levels below a seat's commitment, which telescope.

**Hands.** `HandsRank` says of any two hands of five different cards that the integer of one is greater exactly when the rules let it
win, and `BestOfSeven` of any seven that `eval_hand` gives them the best type they hold. The run `algo` takes its hands from
chosen ranks, suited or not; the theorems take any cards of any suits. No hand is enumerated. The argument goes along the code:

1. `OrderFound`: the counts are in the order of `operator>`, each once. `FiveCounted`: they add up to five and none is above four,
   a rank having one card a suit, so that they are five ones or one of the five rows of the table in `evalPatternHandType`.
2. `StraightRuns`: five ranks that are first and last four apart, or a turned wheel, are a run of five, and a run is nothing
   else. `FlushSuited`: cards of one suit have five ranks, so a flush is never looked up in the table.
3. `TypeByRules`: with these the type by tables is the type by rules, which are told from the cards.
4. `PackedOrder`: integers compare as their digits. `LeadsByRules`: hands of the same type have the same counts
   (`CountsByType`), so at the first digit that differs stands the highest group that only one of them has; of two straights it is the top.
   That nobody else wins follows from the order being total (`LeadsTotal`).
5. `BestOfSeven`: five cards make nothing that seven do not (`PartMakesLess`), and what seven make is at no more than five places
   (`FiveMakeAll`), which some five of the seven include (`FiveAround`); the greatest integer has the greatest type.

**The rounds of betting.** `BettingRound` keeps the set of the seats still to be asked. The code has no such set: it has an
acting seat, a count, and a walk around the ring. `ToAct` reads the set off them: an active seat is in it if fewer active
seats lie between it and the acting one than there are answers pending. What the refinement comes down to is that this set
changes by the seat that answered, and by nothing else. The argument goes along the distances on the ring:

1. `NextIsNearest`: the walk of `nextActiveSeat` passes over no active seat.
2. `Rotated`: seen from the seat that it finds, the order of the other seats is the same.
3. `ActingIsFirst`: the acting seat is in the set. `BeforeMoved`, `ToActMoved`: when the turn moves on, the seat before it is
   gone from the set, and the count has gone down by as much. `ToActRaised`: after a raise the set is everybody else.
4. `ConsoleAnswerCounts`: an answer that the console lets through is counted as exactly one of a fold, a call and a raise. Here
   `BetsAgree` is needed: a refused answer would pass the turn and count nothing.

`BetsInv`, that whoever is out of the set has matched the bet and that the streets before are settled, is inductive next to
`HandInv` and `LedgerInv` (`ConsoleInvariant`); a street opens only with the set empty (`NobodyLeftToAsk`), and so with
every bet matched. `RoundsAreImplemented`, `NoDebtIsForgotten` and `StreetsArePaidEqually` follow. `RoundCardinality` is there
because `BettingRound` counts with a `Cardinality` of its own.

**The settlement.** `distributePot` pays the whole pot with the first side pot that somebody contends for, and a pot that
nobody contends for is passed over. So `PotPaidOut` says that some pot is contended, which is so because whoever is still
in has put in something, and then all who are in contend for the lowest pot (`LowestPotIsEveryones`). That they have is not a matter of
course: a seat that posts no blind starts with nothing committed, and could reach the showdown that way if the turn could
pass it over. `PotInv` says that it cannot: while an answer is awaited the big blind has paid, and every active seat that
has paid nothing is still to be asked, and before the big blind is (`Antes`). `Before` reads the order off the
ring, and `AnswerMovesTurn` moves it. When the big blind is asked there is no such seat left, and since a street is
settled with every bet matched (`BetsInv`), nobody gets one for nothing later (`NothingIsOwed`). `PotInv` is inductive next to
`HandInv`, `LedgerInv`, `BetsInv` and `ChipsInv` (`PotInvariant`).

**The bus taken apart.** `Holdem` takes a handler, with all that it publishes, for one step. That `poker` may be read so is
`CallsAreAtomic`, for any table and any answers: `ConsoleBusSpec` implements `ConsoleSpec`. What has to be found is where in
a handler the thread may be. `BusInv(A)` says it, for a set `A` of answers that may be in progress:

- the stack is what is left of **one** handler among frames that have nothing left to do, and above them, at most, what is
  left of one publish to those who watch (`Holds`, `Laid`). Nothing else is ever on it, because the call that publishes a turn is
  the last of its handler;
- `Reached` says for each task that may be next what the variables are, by how much they are ahead of `settled`: after
  `postSmallBlind` the table is `PostBlind` of the one before, and so on through the five branches of `handle(PlayerAction)`.

`BusSteps` shows that every call, delivery and return keeps this and is either no step of `Holdem` at all, or completes one:
at `awaitPlayerAction`, `splitPot`, a pot of `distributePots`, `finishGame`, and where the process dies (`Comes`). It needs no
invariant of the table, and nothing of the subscribers but `SubscribersAssumption`. `ConsoleInv` adds `main` before
the hand (`Seating`), that the answer in progress is one that the console let through, and who is being told what (`News`).
`AskedAtTheEnd` follows: when the console is asked, everything below it on the stack is finished, so that it makes no difference that
the rest of the hand is played from inside its handler.

`EventsStayCurrent` says that no subscriber is told what is no longer so. While those who watch an event are called nothing
changes, unless one of them is the console; and it is the last to be called. What is left to show is that an event holds when
it is published (`SaidIsSo`), which for the blinds and the answers is about the table at that call (`Where`), and for
`PotSplited` that the side pots add up to the pot. That is `PotsCoverPot`, a theorem about `ConsoleGame`: since the calls come
to its steps, its theorems hold of `settled` (the instance `Game`, `SettledIsSound`), and `NothingDeclared` adds
that no winner is declared before the settlement. `ConsoleSubscribersAssumption` is the list of
`main.cpp`; TLC evaluates it, as it does the others.

**The client.** `CardsAreOwn` is what `ServerIoAdapter`'s choice of addressees comes to, whatever a client holds in
`this_player_seat` (`Handled`, `ClientsChange`). `BusProofs` states what a call publishes and what is left on the stack
while it is told (`CallHeard`, `BusHeard`) for any list of subscribers, so that both programs' proofs rest on it.

The rest needs the server's program taken apart as `poker` was. `ServerInv` is `BusInv` with what `ServerIoAdapter` may find on
top (`Sent`); it is inductive (`ServerReached`), and as every step of the server comes to one of `Holdem` or to none,
`ServerPlaysHoldem` makes the theorems about `Holdem` theorems about the server's table (`HandIsSound`). The client is
behind this table by what is being published, and so the invariant is about `Shown`, the client as it will be once the
delivery on top is made:

    ViewInv == Accounts(client) /\ Accounts(Shown) /\ (control = "trapped" \/ View(Shown, control, stage, table, community))

`Accounts` is `ClientMoneyIsBets` with the sizes of the vectors; it needs that `GameStarted` finds no bet, since it clears the bets and
not the pot. `View` relates each seat's mark and bet to the table's, and says more than the properties do: a seat that folded shows a
bet of 0 for good, and a client whose vectors are still empty has not been told of the big blind, which it does
not survive. `ViewSteps` has a lemma for each call that publishes what the client shows (`StartView`, `BlindsView`, `BoardView`,
`ActView`), one for the round that is opened (`RoundView`), and one for all calls that say nothing of the table (`QuietView`).
The properties are what is left when nothing is being published (`ViewAtRest`). For the pot before the flop it takes in
addition that a bet before the flop is all that a seat has committed (`StreetInvariant`) and that the pot is the sum of
that (`PotIsCommitted`): then the pot that is shown lacks what the folded seats had bet (`FoldedApart`).

**The network's theorems** hold of `NetworkSpec` for any number of clients, any messages, any size of the buffers and the
queues, and any deaths of processes; no fairness is used. The invariant is

    NetworkInv == NetworkTypeOK /\ StreamsUnbroken

and each part needs the other: the types say that no `Garbled` packet is in any queue, which holds because a
part that lies in a stream is of the packet sent next (`Unbroken`), and that in turn is kept because a
handler puts packets at the end of the queue (`QueueGrows`), and `push` drops one only when it is sent whole
(`SendKeepsStream`). `PacketsStayWhole` is the invariant, `StreamsNeverBreak` the property of the run.
`ChannelsAreKept` is `PacketsInOrder`, the refinement of `Channels`: while both ends live, every step leaves what is queued one way
for one client, the concatenation of a queue at either end and the stream between them, as it is, puts a message at its
end or takes its first. A send that is whole moves the head of a queue behind the stream (`SendMovesOn`), `pull` moves the
stream behind what was read before. On the way to the server the last queue, `incoming_packets`, is one that all clients share; what it holds of one
of them is a concatenation of sequences of at most one packet (`From`), and `OfAppend` and `OfTail` say that a packet put
to it or taken from it counts for its own client and for no other. They rest on `FlattenLast` and `FlattenFirst`: a recursion over
a sequence is proved about as the sums are, from the least place where two functions part.

**Only model-checked.** Liveness (`HandFinishes`, `ClientsServed`, `ClientsHeard`, `LossNoticed`) is outside the
prover's reach. Everything else that the passing runs check, invariants, action properties and refinements, is proved.

## Not modelled, and why

- **`EventSerializer`.** It does not compile against `Event.hpp`, and the names under which `deserializeEvent` looks for two
  events, `AwaitPlayerAction` and `PlayerActionSubmitted` (`EventSerializer.cpp:79-80`), are not the ones
  `Event.hpp` has. A conversion that has no behaviour has no model: `Network` takes an event through it unchanged.
- **`server_main.cpp`, `client_main.cpp`** do not compile either, and no CMake target builds them: the server
  includes a `BettingRound.h` that does not exist, and `ServerIoAdapter.h:79` reads a `player_seat` of `WaitingForAction`
  that `Event.hpp` calls `player`. They are modelled from their text, that field taken for the one it was renamed to.
  Nothing in the server publishes `StartGame`: `StartRequest` is external.
- **Of the network**: the server's five tries for a port and the client's exit on a refused connection, both before the first
  step of the model. Packets that a full socket does not take in the `push` that follows `GameEnded` are lost with the
  process (`ServerExits`), and `PacketsInOrder` speaks of processes that live. A client that has nothing to send never learns that its server is gone (`ClientNetwork.cpp:36` takes
  every status but `Done` for nothing to read), and no property says it would.
- **Joins during a hand.** A connection publishes `PlayerJoinRequest` whenever it comes, and `playerCount` would change under a
  hand. `AcceptClient` lets the table fill before the hand only; what the ring of seats means with a seat that has
  no cards is not defined by the code.
- **Events behind the last.** A turn of the server's loop publishes what `pull` brought even after `GameEnded`; what a finished hand does with
  another `PlayerAction` is not modelled: `Network` lets it send nothing, `ClientGame` ends there.
- **Overflow of the minimum raise**, and of sums of chips: the stacks of the programs are far from it. The target of a
  fold is not read, and is one value.
- **Cards** have no identity beyond `HandEval`; the quality of the shuffle, JSON, formatting, the layout of the
  console and the logs are not modelled.

What could follow: joins during a hand; cards with an identity, from the deck to `HandEval`.
