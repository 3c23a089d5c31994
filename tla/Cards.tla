--------------------------------- MODULE Cards ----------------------------------
(* From readings to reflex cards and back: annotate() grades the metrics of one *)
(* pillar, build_reflexes() and the correlation rules make cards of them on two *)
(* channels, a run of the engine is judged by whether its card is gone, and   *)
(* the loop-breaker parks what never helps.  The mark a refresh puts on a     *)
(* parked card, and the question skill_no_impact.py may then ask about it by  *)
(* a child whose every failure is swallowed, change nothing here.  Torn and   *)
(* overtaken payloads are Refresh's subject.                                  *)
EXTENDS Naturals, FiniteSets

CONSTANTS
  Gauges,      \* the metrics of the pillar
  Place,       \* their order in the registry
  Fixable,     \* those some skill can move (auto_remediable)
  Paired,      \* the metrics whose joint breach a correlation rule reports
  Shown,       \* how many flags a pillar shows
  Dark,        \* no reading: simulated, absent, not a number
  NoRun,
  StuckAfter,  \* fruitless runs until the loop-breaker parks a card
  MaxMoves,    \* bound: how often a metric moves
  MaxRuns,     \* bound: runs started
  MaxEngineDeaths   \* bound: deaths of the engine

ASSUME CardsAssumption ==
  /\ IsFiniteSet(Gauges) /\ Fixable \subseteq Gauges /\ Paired \subseteq Gauges
  /\ Place \in [Gauges -> Nat]
  /\ \A g, h \in Gauges : Place[g] = Place[h] => g = h
  /\ Shown \in Nat \ {0} /\ StuckAfter \in Nat \ {0}
  /\ Dark \notin 0 .. 4
  /\ {MaxMoves, MaxRuns, MaxEngineDeaths} \subseteq Nat

VARIABLES
  level,       \* per metric: 0 inside warn, 1 WARN, 2 WARN flagged, 3 at fail, 4 past it
  outlook,     \* per metric: "strange" by its own history, "soon" past fail
  posted,      \* the payload: what was read, and the cards of both channels
  tally,       \* the engine: fruitless runs and stuck, per card
  kept,        \* reflex_engine_state.json
  cardRun,     \* the run under way, and the payload when it began
  verdict,     \* history: an improvement just judged, the payloads before and after
  cardLeft     \* what is left of the bounds

cardsVars ==
  <<level, outlook, posted, tally, kept, cardRun, verdict, cardLeft>>

Levels == (0 .. 4) \union {Dark}
Kinds == {"metric", "trajectory"}
Correlation == <<"correlation">>
Ids == (Kinds \X Gauges) \union {Correlation}
Fresh == [count |-> 0, stuck |-> FALSE]
Tallies == [Ids -> [count : 0 .. StuckAfter, stuck : BOOLEAN]]
NothingPosted == [read |-> [g \in Gauges |-> Dark], looks |-> [g \in Gauges |-> {}],
                  dispatch |-> {}, advice |-> {}]
Nothing == [id |-> NoRun, was |-> NothingPosted]
NoVerdict == [id |-> NoRun, was |-> NothingPosted, now |-> NothingPosted]

Payloads == [read : [Gauges -> Levels], looks : [Gauges -> SUBSET {"strange", "soon"}],
             dispatch : SUBSET Ids, advice : SUBSET Ids]

CardsTypeOK ==
  /\ level \in [Gauges -> Levels]
  /\ outlook \in [Gauges -> SUBSET {"strange", "soon"}]
  /\ posted \in Payloads
  /\ tally \in Tallies /\ kept \in Tallies
  /\ cardRun \in [id : Ids \union {NoRun}, was : Payloads]
  /\ verdict \in [id : Ids \union {NoRun}, was : Payloads, now : Payloads]
  /\ cardLeft \in [moves : 0 .. MaxMoves, runs : 0 .. MaxRuns,
                   crashes : 0 .. MaxEngineDeaths]

CardsInit ==
  /\ level \in [Gauges -> {0, 2, 3}]
  /\ outlook = [g \in Gauges |-> {}]
  /\ posted = NothingPosted
  /\ tally = [i \in Ids |-> Fresh] /\ kept = tally
  /\ cardRun = Nothing
  /\ verdict = NoVerdict
  /\ cardLeft = [moves |-> MaxMoves, runs |-> MaxRuns, crashes |-> MaxEngineDeaths]

-----------------------------------------------------------------------------
(* annotate(): what is flagged, and which flags are shown                     *)

\* _letter(): F past fail, D down to there; health below 60 is never a C.
Grade(l) == IF l = 4 THEN 0 ELSE 1

Flagged(read) == {g \in Gauges : read[g] # Dark /\ read[g] >= 2}

\* The flags are sorted by grade; the sort is stable.
Sooner(read, g, h) ==
  \/ Grade(read[g]) < Grade(read[h])
  \/ Grade(read[g]) = Grade(read[h]) /\ Place[g] < Place[h]

\* flags[:3].
TopFlags(read) ==
  {g \in Flagged(read) :
     Cardinality({h \in Flagged(read) : Sooner(read, h, g)}) < Shown}

-----------------------------------------------------------------------------
(* build_reflexes()                                                           *)

\* _metric_reflexes(): a metric far from its own mean, or among the flags shown.
Alarming(read, looks) ==
  {g \in Gauges : read[g] # Dark /\ "strange" \in looks[g]} \union TopFlags(read)

\* _trajectory_reflexes(): before the breach, never after it.
Heading(read, looks) ==
  {g \in Gauges : read[g] \in 0 .. 2 /\ "soon" \in looks[g]}

\* correlation.evaluate(): every condition holds; a missing value holds none.
AllBreach(read) == Paired # {} /\ \A g \in Paired : read[g] \in 2 .. 4

\* The channel on which the engine fires and the dashboard has its button.
DispatchCards(read, looks) ==
  {<<"metric", g>> : g \in Alarming(read, looks) \intersect Fixable}
    \union {<<"trajectory", g>> : g \in Heading(read, looks)}
    \union (IF AllBreach(read) THEN {Correlation} ELSE {})

\* The channel of those who only investigate.
AdviceCards(read, looks) == {<<"metric", g>> : g \in Alarming(read, looks) \ Fixable}

\* One refresh: grades, and the cards they make.
Posts ==
  posted' = [read |-> level, looks |-> outlook,
             dispatch |-> DispatchCards(level, outlook),
             advice |-> AdviceCards(level, outlook)]

-----------------------------------------------------------------------------
(* Actions                                                                    *)

\* A metric moves, or its history makes it look different.
MetricMoves(g) ==
  /\ cardLeft.moves > 0 /\ cardLeft' = [cardLeft EXCEPT !.moves = @ - 1]
  /\ \/ level' \in {[level EXCEPT ![g] = l] : l \in Levels \ {level[g]}}
        /\ UNCHANGED outlook
     \/ \E look \in {"strange", "soon"} :
          outlook' = [outlook EXCEPT ![g] =
            IF look \in @ THEN @ \ {look} ELSE @ \union {look}]
        /\ UNCHANGED level
  /\ verdict' = NoVerdict
  /\ UNCHANGED <<posted, tally, kept, cardRun>>

\* refresh_dashboard.py, by the clock.
Refreshed ==
  /\ Posts /\ verdict' = NoVerdict
  /\ UNCHANGED <<level, outlook, tally, kept, cardRun, cardLeft>>

\* A run of a card of the dispatch channel begins; the ids of the payload are noted.
StartCard(i) ==
  /\ cardRun.id = NoRun /\ i \in posted.dispatch /\ ~tally[i].stuck
  /\ cardLeft.runs > 0 /\ cardLeft' = [cardLeft EXCEPT !.runs = @ - 1]
  /\ cardRun' = [id |-> i, was |-> posted]
  /\ verdict' = NoVerdict
  /\ UNCHANGED <<level, outlook, posted, tally, kept>>

\* The reflex was in the payload before the run and is in it no more.
Improved(i, before, after) == i \in before.dispatch /\ i \notin after.dispatch

\* The loop-breaker's count after a run of a card.
Counts(t, improved) ==
  IF improved THEN Fresh
  ELSE [count |-> IF t.count < StuckAfter THEN t.count + 1 ELSE t.count,
        stuck |-> t.stuck \/ t.count + 1 >= StuckAfter]

\* _afterRun(): the engine's own refresh, then the verdict of a run that went well.
EndCard(ok) ==
  /\ cardRun.id # NoRun /\ Posts
  /\ LET improved == ok /\ Improved(cardRun.id, cardRun.was, posted')
     IN /\ tally' = [tally EXCEPT ![cardRun.id] = Counts(@, improved)]
        /\ verdict' = IF improved
                      THEN [id |-> cardRun.id, was |-> cardRun.was, now |-> posted']
                      ELSE NoVerdict
  /\ cardRun' = Nothing
  /\ UNCHANGED <<level, outlook, kept, cardLeft>>

\* The debounced save.
SaveTally ==
  /\ kept # tally /\ kept' = tally /\ verdict' = NoVerdict
  /\ UNCHANGED <<level, outlook, posted, tally, cardRun, cardLeft>>

\* The engine dies and starts again with what was saved.
EngineDies ==
  /\ cardLeft.crashes > 0 /\ cardLeft' = [cardLeft EXCEPT !.crashes = @ - 1]
  /\ tally' = kept /\ cardRun' = Nothing /\ verdict' = NoVerdict
  /\ UNCHANGED <<level, outlook, posted, kept>>

\* clearStuck(), clearAllStuck().
Unstick(ids) ==
  /\ \E i \in ids : tally[i].stuck
  /\ tally' = [i \in Ids |-> IF i \in ids THEN Fresh ELSE tally[i]]
  /\ verdict' = NoVerdict
  /\ UNCHANGED <<level, outlook, posted, kept, cardRun, cardLeft>>

CardsNext ==
  \/ \E g \in Gauges : MetricMoves(g)
  \/ Refreshed \/ SaveTally \/ EngineDies \/ Unstick(Ids)
  \/ \E i \in Ids : StartCard(i) \/ Unstick({i})
  \/ \E ok \in BOOLEAN : EndCard(ok)

CardsSpec == CardsInit /\ [][CardsNext]_cardsVars

-----------------------------------------------------------------------------
(* What the cards promise                                                     *)

\* A run is credited with an improvement only when something moved, and one for a
\* metric that reads no better only when another, at least as bad, took its place
\* among the flags or its strangeness wore off (reflex-engine.ts:1325-1335).
CreditIsForAChange ==
  LET was == verdict.was
      now == verdict.now
  IN verdict.id # NoRun =>
       /\ was.read # now.read \/ was.looks # now.looks
       /\ \A g \in Gauges :
            (/\ verdict.id = <<"metric", g>> /\ now.read[g] # Dark
             /\ now.read[g] >= was.read[g] /\ g \in Flagged(was.read))
            => \/ \E h \in Flagged(now.read) :
                    /\ Sooner(now.read, h, g)
                    /\ ~(h \in Flagged(was.read) /\ Sooner(was.read, h, g))
               \/ "strange" \in was.looks[g] \ now.looks[g]

\* No breach is hidden behind a milder one: a flagged metric that has no card gave its
\* place to others of its grade or a worse one (insights.py:706, flags[:3]).
WorstFirst ==
  \A g \in Flagged(posted.read), h \in Flagged(posted.read) :
    LET Has(m) == <<"metric", m>> \in posted.dispatch \union posted.advice
    IN (~Has(g) /\ Has(h) /\ "strange" \notin posted.looks[h])
       => Grade(posted.read[h]) <= Grade(posted.read[g])

CardsInv == CardsTypeOK /\ CreditIsForAChange /\ WorstFirst
=============================================================================
