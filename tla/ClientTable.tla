----------------------------- MODULE ClientTable ---------------------------
(***************************************************************************)
(* ClientModel, what a client knows of the hand, and the handlers of       *)
(* ClientController, as functions from a client and an event to a client.  *)
(* players, player_states and player_bets are sized by GameStarted.        *)
(***************************************************************************)
EXTENDS SeatManager

CONSTANT DefaultChips   \* what a Player is born with

ASSUME DefaultChipsAssumption == DefaultChips \in Nat

PlayerStatus == {"IDLE", "BET", "RAISED", "CALLED", "CHECKED", "ALL_IN", "FOLDED",
                 "SMALL_BLIND", "BIG_BLIND"}

\* resize: the seats below count, value-initialised.  It would keep what a vector
\* holds, but GameStarted comes once, when the vectors are empty.
Sized(count, value) == [s \in {v \in Seat : v < count} |-> value]

\* ClientModel has no value for this_player_seat until PlayerJoinResponse.
NewClient(seat) ==
    [this_player_seat |-> seat,
     btn_seat         |-> 0,
     big_blind        |-> 0,
     community        |-> 0,
     pot              |-> 0,
     chips            |-> Sized(0, DefaultChips),
     states           |-> Sized(0, "IDLE"),
     bets             |-> Sized(0, 0),
     hole_cards       |-> {},      \* the seats whose cards are known
     crashed          |-> FALSE]

\* Indexing past the end of an empty vector is a write through null: the
\* process dies, and what it knew with it.
Knows(c, seat) == seat \in DOMAIN c.chips
Crash(c) == [NewClient(-1) EXCEPT !.crashed = TRUE]

-----------------------------------------------------------------------------
HandlePlayerJoinResponse(c, e) == [c EXCEPT !.this_player_seat = e.player_seat]

HandleGameStarted(c, e) ==
    [c EXCEPT !.btn_seat  = e.btn_seat,
              !.big_blind = e.big_blind,
              !.chips     = Sized(e.player_count, DefaultChips),
              !.states    = Sized(e.player_count, "IDLE"),
              !.bets      = Sized(e.player_count, 0)]

HandleHoleCardsDealt(c, e) ==
    IF e.player_seat # c.this_player_seat THEN c
    ELSE IF Knows(c, e.player_seat)
         THEN [c EXCEPT !.hole_cards = @ \cup {e.player_seat}]
    ELSE Crash(c)

\* Mutation: the blind is not kept as the seat's bet.
HandleBlindPostedNoBet(c, e) ==
    IF ~Knows(c, e.player) THEN Crash(c)
    ELSE [c EXCEPT !.states[e.player] = IF e.is_big_blind THEN "BIG_BLIND" ELSE "SMALL_BLIND",
                   !.pot             = @ + e.amount,
                   !.chips[e.player] = @ - e.amount]

HandleBlindPosted(c, e) ==
    IF ~Knows(c, e.player) THEN Crash(c)
    ELSE [c EXCEPT !.states[e.player] = IF e.is_big_blind THEN "BIG_BLIND" ELSE "SMALL_BLIND",
                   !.pot             = @ + e.amount,
                   !.chips[e.player] = @ - e.amount,
                   !.bets[e.player]  = e.amount]

HandleCommunityCardsDealt(c, e) == [c EXCEPT !.community = e.community_cards]

\* Nothing publishes BettingRoundEnded: only closeBettingRound would.
HandleBettingRoundEnded(c) ==
    [c EXCEPT !.bets   = [s \in DOMAIN @ |-> 0],
              !.states = [s \in DOMAIN @ |-> "IDLE"]]

\* Mutation: only a full call or raise is shown as all in.
StatusOfShortAsBet(action) ==
    CASE action = "CALL"  -> "CALLED"
      [] action = "CHECK" -> "CHECKED"
      [] action = "RAISE" -> "RAISED"
      [] action = "BET"   -> "BET"
      [] action = "FOLD"  -> "FOLDED"
      [] action \in {"ALL_IN_CALL", "ALL_IN_RAISE"} -> "ALL_IN"
      [] OTHER -> "IDLE"

StatusOf(action) ==
    CASE action = "CALL"  -> "CALLED"
      [] action = "CHECK" -> "CHECKED"
      [] action = "RAISE" -> "RAISED"
      [] action = "BET"   -> "BET"
      [] action = "FOLD"  -> "FOLDED"
      [] action \in {"ALL_IN_UNDER_CALL", "ALL_IN_UNDER_RAISE",
                     "ALL_IN_CALL", "ALL_IN_RAISE"} -> "ALL_IN"
      [] OTHER -> "IDLE"

\* Mutation: a bet is paid in full, whatever was bet before.
HandlePlayerActedWhole(c, e) ==
    IF ~Knows(c, e.player) THEN Crash(c)
    ELSE [c EXCEPT !.states[e.player] = StatusOf(e.action),
                   !.pot             = @ + e.bet,
                   !.chips[e.player] = @ - e.bet,
                   !.bets[e.player]  = e.bet]

HandlePlayerActed(c, e) ==
    IF ~Knows(c, e.player) THEN Crash(c)
    ELSE LET delta == e.bet - c.bets[e.player]
         IN  [c EXCEPT !.states[e.player] = StatusOf(e.action),
                       !.pot             = @ + delta,
                       !.chips[e.player] = @ - delta,
                       !.bets[e.player]  = e.bet]

\* A client whose process has died handles nothing.  BettingRoundStarted and
\* HoleCardsRevealed are handled by writing a line to the log, GameEnded ends
\* the client's loop, and the answer to WaitingForAction is ClientAnswer.
Handle(c, e) ==
    IF c.crashed THEN c
    ELSE CASE e.type = "PlayerJoinResponse"  -> HandlePlayerJoinResponse(c, e)
           [] e.type = "GameStarted"         -> HandleGameStarted(c, e)
           [] e.type = "HoleCardsDealt"      -> HandleHoleCardsDealt(c, e)
           [] e.type = "BlindPosted"         -> HandleBlindPosted(c, e)
           [] e.type = "CommunityCardsDealt" -> HandleCommunityCardsDealt(c, e)
           [] e.type = "BettingRoundEnded"   -> HandleBettingRoundEnded(c)
           [] e.type = "PlayerActed"         -> HandlePlayerActed(c, e)
           [] OTHER -> c

\* handle(WaitingForAction): the client bets the big blind whenever it is asked.
Addressed(c, e) == ~c.crashed /\ e.player = c.this_player_seat
ClientAnswer(c) == [target_bet |-> c.big_blind, is_fold |-> FALSE]
=============================================================================
