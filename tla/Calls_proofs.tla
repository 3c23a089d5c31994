------------------------------ MODULE Calls_proofs ------------------------------
(***************************************************************************)
(* Theorems of what is called: the models a call of the gateway may ask    *)
(* (Gateway), one strict call (StrictCall), the tier of a skill            *)
(* (BushidoPolicy), the chained log (ChainLedger) and a decision whose     *)
(* stores cannot be read (DecisionStores).                                 *)
(***************************************************************************)
EXTENDS Gateway, BushidoPolicy, StrictCall, ChainLedger, DecisionStores,
        WellFoundedInduction, TLAPS

\* A nonempty set of numbers has a least one, and, below a bound, a greatest.
LEMMA LeastExists ==
  ASSUME NEW T, T \subseteq Nat, T /= {}
  PROVE  \E x \in T : \A y \in T : x <= y
<1> DEFINE R == OpToRel(<, Nat)
<1>1. IsWellFoundedOn(R, Nat)
  BY NatLessThanWellFounded
<1>2. \A x, y \in Nat : <<y, x>> \in R <=> y < x
  BY DEF OpToRel
<1> HIDE DEF R
<1>3. \E x \in T : \A y \in T : <<y, x>> \notin R
  BY <1>1, WFMin
<1>4. \A x, y \in T : <<y, x>> \notin R => x <= y
  <2> SUFFICES ASSUME NEW x \in T, NEW y \in T, <<y, x>> \notin R PROVE x <= y
    OBVIOUS
  <2>1. x \in Nat /\ y \in Nat
    OBVIOUS
  <2>2. ~(y < x)
    BY <1>2, <2>1
  <2> QED  BY <2>1, <2>2
<1> QED  BY <1>3, <1>4

\* The same from above, below a bound.
LEMMA GreatestExists ==
  ASSUME NEW k \in Nat, NEW T, T \subseteq 0 .. k, T /= {}
  PROVE  \E x \in T : \A y \in T : y <= x
<1> DEFINE U == {k - n : n \in T}
<1>1. \A n \in T : k - n \in Nat
  OBVIOUS
<1>2. U \subseteq Nat /\ U /= {}
  BY <1>1
<1>3. PICK u \in U : \A v \in U : u <= v
  BY <1>2, LeastExists
<1>4. PICK x \in T : u = k - x
  BY <1>3
<1>5. ASSUME NEW y \in T PROVE y <= x
  <2>1. k - y \in U /\ y \in 0 .. k /\ x \in 0 .. k
    OBVIOUS
  <2>2. k - x <= k - y
    BY <1>3, <1>4, <2>1
  <2> QED  BY <2>1, <2>2
<1> QED  BY <1>5

-----------------------------------------------------------------------------
(* BushidoPolicy.  The module has no constants, so TLC checks the same     *)
(* facts completely; the proofs say why they hold.                         *)

TypeInv ==
  /\ entry \in Entries
  /\ requested \in Categories

\* Every edit leaves an entry that load_skill_metadata can read.
THEOREM EntriesLoad == Spec => []TypeInv
<1>1. Init => TypeInv
  BY DEF Init, TypeInv, Entries
<1>2. TypeInv /\ [Next]_vars => TypeInv'
  BY DEF TypeInv, Next, vars, EditEntry, SetMode, Spend
<1> QED
  BY <1>1, <1>2, PTL DEF Spec

\* A role binding never widens what a package asked for, nor its ceiling.
THEOREM BindingNarrows ==
  ASSUME NEW requested_ \in Blasts, NEW ceiling \in Blasts
  PROVE  LET effective == ResolveCeiling(requested_, ceiling)
         IN  /\ effective \in Blasts
             /\ BlastRank[effective] <= BlastRank[requested_]
             /\ BlastRank[effective] <= BlastRank[ceiling]
BY DEF ResolveCeiling, Blasts, BlastRank

\* compute_tier asks the owner about whatever is not routine, under every
\* override and in every mode.
LEMMA NotRoutineIsAsked ==
  ASSUME NEW w, ~w.routine, NEW override, NEW ronin
  PROVE  ComputeTier(w, override, ronin) \in {"hitl", "hard_stop"}
BY DEF ComputeTier, OwnerTier

\* What the table gives to the owner is not routine, whatever the caller says.
LEMMA OwnedIsNotRoutine ==
  ASSUME TypeInv, Owned
  PROVE  ~SkillToWorkItem.routine
<1>1. TableCategory /= "routine"
  <2>1. entry = NoEntry \/ entry.tabled
    BY DEF TypeInv, Entries
  <2>2. CASE entry = NoEntry
    BY <2>2 DEF TableCategory, NoEntry
  <2>3. CASE entry.tabled
    BY <2>3 DEF Owned, TableCategory
  <2> QED
    BY <2>1, <2>2, <2>3
<1>2. Category = TableCategory
  BY <1>1 DEF Category
<1> QED
  BY <1>1, <1>2 DEF SkillToWorkItem

\* "Unknown skills and unclassified system actions need owner review".
THEOREM OwnerAlwaysAsked == Spec => []OwnerIsAsked
<1>1. TypeInv => OwnerIsAsked
  <2> SUFFICES ASSUME TypeInv, Owned
               PROVE  Tier \in {"hitl", "hard_stop"}
    BY DEF OwnerIsAsked
  <2>1. ~SkillToWorkItem.routine
    BY OwnedIsNotRoutine
  <2>2. ComputeTier(SkillToWorkItem, entry.override, ResolveRoninMode)
          \in {"hitl", "hard_stop"}
    BY <2>1, NotRoutineIsAsked
  <2> QED
    BY <2>2 DEF Tier
<1> QED
  BY <1>1, EntriesLoad, PTL

\* Ronin mode changes the answer for what would be queued, and only to auto.
LEMMA RoninMovesQueueOnly ==
  ASSUME NEW w, NEW override, NEW r1 \in BOOLEAN, NEW r2 \in BOOLEAN
  PROVE  \/ ComputeTier(w, override, r1) = ComputeTier(w, override, r2)
         \/ {ComputeTier(w, override, r1), ComputeTier(w, override, r2)}
              = {"queue", "auto"}
BY DEF ComputeTier

\* Arming and disarming ronin mode only trade a review for a free run.
THEOREM ArmingTradesQueueOnly == Spec => ModeTradesQueueOnly
<1>1. [Next]_vars => [mode' /= mode =>
                        Tier' = Tier \/ {Tier, Tier'} = {"queue", "auto"}]_vars
  <2> SUFFICES ASSUME Next, mode' /= mode
               PROVE  Tier' = Tier \/ {Tier, Tier'} = {"queue", "auto"}
    BY DEF vars
  <2>1. UNCHANGED <<entry, requested, overBudget>>
    BY DEF Next, EditEntry, SetMode, Spend
  <2>2. SkillToWorkItem' = SkillToWorkItem
    BY <2>1 DEF SkillToWorkItem, Category, TableCategory
  <2> DEFINE w == SkillToWorkItem
             limit == IsHardLimit(w, entry.override, overBudget)
  <2>3. CASE limit
    <3>1. Tier = "hard_stop" /\ Tier' = "hard_stop"
      BY <2>1, <2>2, <2>3 DEF Tier, IsHardLimit
    <3> QED
      BY <3>1
  <2>4. CASE ~limit
    <3>1. ResolveRoninMode \in BOOLEAN /\ ResolveRoninMode' \in BOOLEAN
      BY DEF ResolveRoninMode
    <3>2. /\ Tier = ComputeTier(w, entry.override, ResolveRoninMode)
          /\ Tier' = ComputeTier(w, entry.override, ResolveRoninMode')
      BY <2>1, <2>2, <2>4 DEF Tier, IsHardLimit, ComputeTier
    <3> QED
      BY <3>1, <3>2, RoninMovesQueueOnly
  <2> QED
    BY <2>3, <2>4
<1> QED
  BY <1>1, PTL DEF Spec, ModeTradesQueueOnly

-----------------------------------------------------------------------------
(* A decision and its two stores                                             *)

Spots ==
  {"free", "expire", "consume", "standing", "misread", "enqueue", "review",
   "grant", "granting", "revoke", "revoking", "push", "over"}
Sayings == {"none", "auto", "queue", "hitl", "hard_stop", "error"}
CallRecords ==
  [does : {"none", "decide", "list", "approve", "always", "revoke"},
   work : Works \union {NoAsk}, at : Spots, claim : BOOLEAN, holds : SUBSET Works,
   says : Sayings]
RowStores == Stored([Works -> SUBSET OpenStatuses])
GrantStores == Stored(SUBSET Works)
Shelves ==
  [rows : [Works -> SUBSET OpenStatuses], grants : SUBSET Works,
   rowsMoved : Nat, grantsMoved : Nat]
Passes ==
  [work : Works \union {NoAsk}, on : {"none", "auto", "cache", "error", "silence"}]
Askings ==
  [for : Judges \union {NoJudge}, strict : BOOLEAN,
   cache : [Works -> {"none", "auto", "hard_stop"}], passed : Passes]
Debts == [approved : SUBSET Works, granted : SUBSET Works, revoked : SUBSET Works]
Bounds == [made : 0 .. MaxCalls, reviews : 0 .. MaxReviews, misread : 0 .. MaxMisreads]

Allowed(w, done) == TierOf[w] = "auto" \/ w \in done

\* What a call says it may say, and who grants was told to.
Fine(r, done) ==
  /\ r.at # "free" => r.work \in Works
  /\ r.does = "decide" /\ r.says = "error" => r.work \notin Sensitive
  /\ r.does = "decide" /\ r.says = "auto" => Allowed(r.work, done)
  /\ r.at \in {"grant", "granting", "push"} => r.work \in done

CallsAreFine == \A j \in Judges : Fine(judge[j], backed)

\* The rows: an approval comes from a human, and the first shelf is an empty one.
RowsAreKept ==
  /\ \A w \in Works : "approved" \in rows.has[w] => w \in backed
  /\ shelf.rowsMoved = 0 => shelf.rows = NoRows
  /\ shelf.rowsMoved <= 1 =>
       \A w \in owed.approved : "approved" \in rows.has[w] \union shelf.rows[w]

\* What may stand in the grants, and what they hold that were loaded under the lock.
GrantsAre(has) ==
  /\ has \subseteq backed /\ owed.revoked \intersect has = {}
  /\ shelf.grantsMoved <= 1 => owed.granted \subseteq has \union shelf.grants

GrantsAreKept ==
  /\ GrantsAre(grants.has)
  /\ shelf.grantsMoved = 0 => shelf.grants = {}
  /\ \A j \in Judges : GrantsLocked(j) => GrantsAre(judge[j].holds)
  /\ \A j, k \in Judges : GrantsLocked(j) /\ GrantsLocked(k) => j = k

\* The engine waits for a decision, and caches what was allowed.
EngineIsSure ==
  /\ asking.for # NoJudge =>
       judge[asking.for].at # "free" /\ judge[asking.for].does = "decide"
  /\ \A w \in Works : asking.cache[w] = "auto" => Allowed(w, backed)
  /\ ErrorsStopSensitiveWork /\ PassesAreBacked

DecisionIInv ==
  /\ DecisionTypeOK /\ CallsAreFine /\ RowsAreKept /\ GrantsAreKept /\ EngineIsSure

-----------------------------------------------------------------------------

\* The types, with the records named.
LEMMA DecisionTypes ==
  DecisionTypeOK <=>
    /\ rows \in RowStores /\ grants \in GrantStores /\ shelf \in Shelves
    /\ judge \in [Judges -> CallRecords] /\ asking \in Askings /\ owed \in Debts
    /\ backed \subseteq Works /\ calls \in Bounds
BY DEF DecisionTypeOK, RowStores, GrantStores, Shelves, CallRecords, Spots, Sayings,
       Askings, Passes, Debts, Bounds

\* The types of the next state.
LEMMA DecisionTypesNext ==
  ASSUME rows' \in RowStores, grants' \in GrantStores, shelf' \in Shelves,
         judge' \in [Judges -> CallRecords], asking' \in Askings, owed' \in Debts,
         backed' \subseteq Works, calls' \in Bounds
  PROVE  DecisionTypeOK'
BY DEF DecisionTypeOK, RowStores, GrantStores, Shelves, CallRecords, Spots, Sayings,
       Askings, Passes, Debts, Bounds

\* The fields of a call.
LEMMA CallIsTyped ==
  ASSUME NEW r \in CallRecords
  PROVE  /\ r.does \in {"none", "decide", "list", "approve", "always", "revoke"}
         /\ r.work \in Works \union {NoAsk} /\ r.at \in Spots /\ r.claim \in BOOLEAN
         /\ r.holds \subseteq Works /\ r.says \in Sayings
BY DEF CallRecords

\* One call goes on; the others stay.
LEMMA OneJudge ==
  ASSUME judge \in [Judges -> CallRecords], NEW j \in Judges, NEW r \in CallRecords,
         judge' = [judge EXCEPT ![j] = r]
  PROVE  /\ judge' \in [Judges -> CallRecords] /\ judge'[j] = r
         /\ \A k \in Judges \ {j} : judge'[k] = judge[k]
OBVIOUS

\* A call that moves on lets go of what it holds, and keeps what it is for.
LEMMA MovesFacts ==
  ASSUME judge \in [Judges -> CallRecords], NEW j \in Judges, NEW place \in Spots,
         MovesTo(j, place)
  PROVE  /\ judge' \in [Judges -> CallRecords]
         /\ judge'[j].at = place /\ judge'[j].does = judge[j].does
         /\ judge'[j].work = judge[j].work /\ judge'[j].says = judge[j].says
         /\ judge'[j].holds = {}
         /\ \A k \in Judges \ {j} : judge'[k] = judge[k]
<1> DEFINE r == [judge[j] EXCEPT !.at = place, !.holds = {}]
<1>1. judge[j] \in CallRecords
  OBVIOUS
<1>2. /\ r \in CallRecords /\ r.at = place /\ r.does = judge[j].does
      /\ r.work = judge[j].work /\ r.says = judge[j].says /\ r.holds = {}
  BY <1>1 DEF CallRecords
<1>3. judge' = [judge EXCEPT ![j] = r]
  BY DEF MovesTo
<1> HIDE DEF r
<1> QED
  BY <1>2, <1>3, OneJudge

\* A call that answers is over, and says so.
LEMMA AnswersFacts ==
  ASSUME judge \in [Judges -> CallRecords], NEW j \in Judges, NEW s \in Sayings,
         Answers(j, s)
  PROVE  /\ judge' \in [Judges -> CallRecords]
         /\ judge'[j].at = "over" /\ judge'[j].does = judge[j].does
         /\ judge'[j].work = judge[j].work /\ judge'[j].says = s
         /\ \A k \in Judges \ {j} : judge'[k] = judge[k]
<1> DEFINE r == [judge[j] EXCEPT !.at = "over", !.claim = FALSE, !.says = s]
<1>1. judge[j] \in CallRecords
  OBVIOUS
<1>2. /\ r \in CallRecords /\ r.at = "over" /\ r.does = judge[j].does
      /\ r.work = judge[j].work /\ r.says = s
  BY <1>1 DEF CallRecords, Spots
<1>3. judge' = [judge EXCEPT ![j] = r]
  BY DEF Answers
<1> HIDE DEF r
<1> QED
  BY <1>2, <1>3, OneJudge

\* A call begins as nothing but what it is for.
LEMMA BeginFacts ==
  ASSUME judge \in [Judges -> CallRecords], NEW j \in Judges, NEW w \in Works,
         NEW does \in {"none", "decide", "list", "approve", "always", "revoke"},
         NEW place \in Spots, BeginCall(j, does, w, place)
  PROVE  /\ judge' \in [Judges -> CallRecords] /\ judge[j].at = "free"
         /\ judge'[j].at = place /\ judge'[j].does = does
         /\ judge'[j].work = w /\ judge'[j].says = "none"
         /\ \A k \in Judges \ {j} : judge'[k] = judge[k]
<1> DEFINE r == [NoCall EXCEPT !.does = does, !.work = w, !.at = place]
<1>2. /\ r \in CallRecords /\ r.at = place /\ r.does = does
      /\ r.work = w /\ r.says = "none"
  BY DEF CallRecords, NoCall, Sayings
<1>3. judge' = [judge EXCEPT ![j] = r] /\ judge[j].at = "free"
  BY DEF BeginCall, Stands
<1> HIDE DEF r
<1> QED
  BY <1>2, <1>3, OneJudge

\* A call that was heard is free again.
LEMMA ResetFacts ==
  ASSUME judge \in [Judges -> CallRecords], NEW j \in Judges,
         judge' = [judge EXCEPT ![j] = NoCall]
  PROVE  /\ judge' \in [Judges -> CallRecords]
         /\ judge'[j].at = "free" /\ judge'[j].does = "none" /\ judge'[j].says = "none"
         /\ \A k \in Judges \ {j} : judge'[k] = judge[k]
<1>2. /\ NoCall \in CallRecords /\ NoCall.at = "free" /\ NoCall.does = "none"
      /\ NoCall.says = "none"
  BY DEF CallRecords, NoCall, Spots, Sayings
<1> QED
  BY <1>2, OneJudge

\* A read of a store that fails costs one of the bound, if it was whole.
LEMMA ReadCosts ==
  ASSUME calls \in Bounds, NEW store, NEW badly \in BOOLEAN,
         ReadFails(store, badly), Costs(badly)
  PROVE  calls' \in Bounds
BY DecisionAssumption DEF Bounds, ReadFails, Costs

\* The fields of the stores.
LEMMA StoreFields ==
  ASSUME DecisionTypeOK
  PROVE  /\ rows.is \in {"absent", "bad", "whole"}
         /\ rows.has \in [Works -> SUBSET OpenStatuses]
         /\ grants.is \in {"absent", "bad", "whole"} /\ grants.has \subseteq Works
         /\ shelf.rows \in [Works -> SUBSET OpenStatuses] /\ shelf.grants \subseteq Works
         /\ shelf.rowsMoved \in Nat /\ shelf.grantsMoved \in Nat
         /\ owed.approved \subseteq Works /\ owed.granted \subseteq Works
         /\ owed.revoked \subseteq Works
         /\ asking.for \in Judges \union {NoJudge} /\ asking.passed \in Passes
         /\ asking.cache \in [Works -> {"none", "auto", "hard_stop"}]
         /\ asking.strict \in BOOLEAN
BY DecisionTypes DEF RowStores, GrantStores, Stored, Shelves, Debts, Askings

\* Nobody has called.
LEMMA DecisionStarts == DecisionInit => DecisionIInv
<1> SUFFICES ASSUME DecisionInit PROVE DecisionIInv
  OBVIOUS
<1>1. /\ NoRows \in [Works -> SUBSET OpenStatuses]
      /\ [w \in Works |-> {"pending"}] \in [Works -> SUBSET OpenStatuses]
      /\ \A w \in Works : NoRows[w] = {}
  BY DEF NoRows, OpenStatuses
<1>2. rows \in RowStores /\ \A w \in Works : "approved" \notin rows.has[w]
  BY <1>1 DEF DecisionInit, RowStores, Stored
<1>3. grants \in GrantStores /\ shelf \in Shelves /\ owed \in Debts /\ backed \subseteq Works
  BY <1>1 DEF DecisionInit, GrantStores, Stored, Shelves, Debts
<1>4. judge \in [Judges -> CallRecords] /\ \A j \in Judges : judge[j] = NoCall
  BY DEF DecisionInit, CallRecords, NoCall, Spots, Sayings
<1>5. /\ asking \in Askings /\ asking.for = NoJudge /\ asking.passed = NoPass
      /\ asking.cache = [w \in Works |-> "none"]
  BY DEF DecisionInit, Askings, Passes, NoPass
<1>6. calls \in Bounds
  BY DecisionAssumption DEF DecisionInit, Bounds
<1>7. DecisionTypeOK
  BY <1>2, <1>3, <1>4, <1>5, <1>6, DecisionTypes
<1>8. CallsAreFine
  <2>1. NoCall.at = "free" /\ NoCall.does = "none"
    BY DEF NoCall
  <2>2. Fine(NoCall, backed)
    BY <2>1 DEF Fine
  <2> QED
    BY <1>4, <2>2 DEF CallsAreFine
<1>9. RowsAreKept
  BY <1>2 DEF RowsAreKept, DecisionInit
<1>10. GrantsAreKept
  <2>1. NoCall.at = "free"
    BY DEF NoCall
  <2> QED
    BY <1>4, <2>1 DEF GrantsAreKept, GrantsAre, GrantsLocked, DecisionInit
<1>11. EngineIsSure
  BY <1>5 DEF EngineIsSure, ErrorsStopSensitiveWork, PassesAreBacked, NoPass
<1> QED
  BY <1>7, <1>8, <1>9, <1>10, <1>11 DEF DecisionIInv

-----------------------------------------------------------------------------
(* Frames: what a part of the state needs to stay as it is                   *)

\* One call goes on from a fine one to a fine one.
LEMMA CallsStayFine ==
  ASSUME CallsAreFine, NEW j \in Judges, Fine(judge'[j], backed'),
         backed \subseteq backed', \A k \in Judges \ {j} : judge'[k] = judge[k]
  PROVE  CallsAreFine'
BY DEF CallsAreFine, Fine, Allowed

\* The rows and what is owed of them stay as they are.
LEMMA RowsStayKept ==
  ASSUME RowsAreKept, rows'.has = rows.has, shelf'.rows = shelf.rows,
         shelf'.rowsMoved = shelf.rowsMoved, owed'.approved = owed.approved,
         backed \subseteq backed'
  PROVE  RowsAreKept'
BY DEF RowsAreKept

\* So do the grants, and nobody goes on who has their lock or takes it.
LEMMA GrantsStayKept ==
  ASSUME GrantsAreKept, NEW j \in Judges,
         grants'.has = grants.has, shelf'.grants = shelf.grants,
         shelf'.grantsMoved = shelf.grantsMoved, owed'.granted = owed.granted,
         owed'.revoked = owed.revoked, backed \subseteq backed',
         judge'[j].at \notin {"granting", "revoking"},
         \A k \in Judges \ {j} : judge'[k] = judge[k]
  PROVE  GrantsAreKept'
BY DEF GrantsAreKept, GrantsAre, GrantsLocked

\* The engine goes on waiting.
LEMMA EngineStaysSure ==
  ASSUME EngineIsSure, NEW j \in Judges, asking' = asking, backed \subseteq backed',
         asking.for \in Judges \union {NoJudge},
         judge'[j].at # "free" \/ asking.for # j, judge'[j].does = judge[j].does \/ asking.for # j,
         \A k \in Judges \ {j} : judge'[k] = judge[k]
  PROVE  EngineIsSure'
BY DEF EngineIsSure, ErrorsStopSensitiveWork, PassesAreBacked, Allowed

-----------------------------------------------------------------------------
(* The steps                                                                 *)

\* Somebody garbles a store: what is in it stays.
LEMMA GarbleStep ==
  ASSUME DecisionIInv, Garble
  PROVE  DecisionIInv'
<1>0. /\ rows \in RowStores /\ grants \in GrantStores /\ calls \in Bounds
      /\ DecisionTypeOK /\ RowsAreKept /\ GrantsAreKept /\ EngineIsSure /\ CallsAreFine
  BY DecisionTypes DEF DecisionIInv
<1>1. /\ rows'.has = rows.has /\ grants'.has = grants.has
      /\ rows' \in RowStores /\ grants' \in GrantStores
  BY <1>0 DEF Garble, RowStores, GrantStores, Stored
<1>2. calls' \in Bounds
  BY <1>0, DecisionAssumption DEF Garble, Bounds
<1>3. UNCHANGED <<shelf, judge, asking, owed, backed>>
  BY DEF Garble
<1>4. DecisionTypeOK'
  BY <1>0, <1>1, <1>2, <1>3, DecisionTypes, DecisionTypesNext
<1>5. CallsAreFine' /\ EngineIsSure'
  BY <1>0, <1>3 DEF CallsAreFine, EngineIsSure, ErrorsStopSensitiveWork, PassesAreBacked
<1>6. RowsAreKept'
  BY <1>0, <1>1, <1>3, RowsStayKept
<1>7. GrantsAreKept'
  BY <1>0, <1>1, <1>3 DEF GrantsAreKept, GrantsAre, GrantsLocked
<1> QED
  BY <1>4, <1>5, <1>6, <1>7 DEF DecisionIInv

\* An unreadable queue is moved: the first time, nothing is on the shelf that matters.
LEMMA RowsAreShelved ==
  ASSUME DecisionTypeOK, RowsAreKept, NEW has \in [Works -> SUBSET OpenStatuses],
         NEW is \in {"absent", "whole"}, rows' = [is |-> is, has |-> has],
         \A w \in Works : "approved" \notin has[w],
         shelf' = [shelf EXCEPT !.rows = rows.has, !.rowsMoved = @ + 1],
         owed' = owed, backed' = backed
  PROVE  /\ rows' \in RowStores /\ shelf' \in Shelves /\ RowsAreKept'
         /\ shelf'.grants = shelf.grants /\ shelf'.grantsMoved = shelf.grantsMoved
<1>0. /\ shelf \in Shelves /\ rows.has \in [Works -> SUBSET OpenStatuses]
      /\ shelf.rowsMoved \in Nat /\ owed.approved \subseteq Works
      /\ shelf.rows \in [Works -> SUBSET OpenStatuses]
  BY StoreFields, DecisionTypes
<1>1. /\ shelf' \in Shelves /\ shelf'.rows = rows.has
      /\ shelf'.rowsMoved = shelf.rowsMoved + 1
      /\ shelf'.grants = shelf.grants /\ shelf'.grantsMoved = shelf.grantsMoved
  <2> DEFINE mid == [shelf EXCEPT !.rows = rows.has]
  <2>1. /\ mid \in Shelves /\ mid.rows = rows.has /\ mid.rowsMoved = shelf.rowsMoved
        /\ mid.grants = shelf.grants /\ mid.grantsMoved = shelf.grantsMoved
    BY <1>0 DEF Shelves
  <2>2. shelf' = [mid EXCEPT !.rowsMoved = shelf.rowsMoved + 1]
    OBVIOUS
  <2> HIDE DEF mid
  <2> QED
    BY <1>0, <2>1, <2>2 DEF Shelves
<1>2. rows' \in RowStores /\ rows'.has = has
  BY DEF RowStores, Stored
<1>3. shelf'.rowsMoved <= 1 => \A w \in owed.approved : "approved" \in rows.has[w]
  <2> SUFFICES ASSUME shelf'.rowsMoved <= 1, NEW w \in owed.approved
               PROVE  "approved" \in rows.has[w]
    OBVIOUS
  <2>1. shelf.rowsMoved = 0
    BY <1>0, <1>1
  <2>2. shelf.rows[w] = {}
    BY <1>0, <2>1 DEF RowsAreKept, NoRows
  <2> QED
    BY <2>1, <2>2, <1>0 DEF RowsAreKept
<1>4. RowsAreKept'
  BY <1>0, <1>1, <1>2, <1>3 DEF RowsAreKept
<1> QED
  BY <1>1, <1>2, <1>4

\* The reconciliation, and the hard limits.
LEMMA ReconcileStep ==
  ASSUME DecisionIInv, NEW j \in Judges, Reconcile(j)
  PROVE  DecisionIInv'
<1>0. /\ DecisionTypeOK /\ RowsAreKept /\ GrantsAreKept /\ EngineIsSure /\ CallsAreFine
      /\ judge \in [Judges -> CallRecords] /\ judge[j].at = "expire"
      /\ Fine(judge[j], backed)
  BY DecisionTypes DEF DecisionIInv, Reconcile, Stands, CallsAreFine
<1>1. UNCHANGED <<grants, asking, owed, backed>>
  BY DEF Reconcile
<1>2. /\ rows' \in RowStores /\ shelf' \in Shelves /\ RowsAreKept' /\ calls' \in Bounds
      /\ shelf'.grants = shelf.grants /\ shelf'.grantsMoved = shelf.grantsMoved
  <2>1. CASE UNCHANGED <<rows, shelf, calls>>
    BY <1>0, <1>1, <2>1, DecisionTypes, RowsStayKept
  <2>2. CASE \E badly \in BOOLEAN : ReadFails(rows, badly) /\ Costs(badly) /\ ShelveRows
    <3>0. PICK badly \in BOOLEAN : ReadFails(rows, badly) /\ Costs(badly) /\ ShelveRows
      BY <2>2
    <3>1. NoRows \in [Works -> SUBSET OpenStatuses] /\ \A w \in Works : "approved" \notin NoRows[w]
      BY DEF NoRows
    <3>2. calls' \in Bounds
      BY <1>0, <3>0, DecisionTypes, ReadCosts
    <3>3. /\ rows' = [is |-> "absent", has |-> NoRows] /\ owed' = owed /\ backed' = backed
          /\ shelf' = [shelf EXCEPT !.rows = rows.has, !.rowsMoved = @ + 1]
      BY <1>1, <3>0 DEF ShelveRows
    <3> QED
      BY <1>0, <3>1, <3>2, <3>3, RowsAreShelved
  <2> QED
    BY <2>1, <2>2 DEF Reconcile
<1>3. /\ judge' \in [Judges -> CallRecords] /\ judge'[j].does = judge[j].does
      /\ judge'[j].at \in {"over", "consume"} /\ judge'[j].work = judge[j].work
      /\ judge'[j].says \in {judge[j].says, "hard_stop"}
      /\ \A k \in Judges \ {j} : judge'[k] = judge[k]
  <2>1. CASE Answers(j, "hard_stop")
    BY <1>0, <2>1, AnswersFacts DEF Sayings
  <2>2. CASE MovesTo(j, "consume")
    BY <1>0, <2>2, MovesFacts DEF Spots
  <2> QED
    BY <2>1, <2>2 DEF Reconcile
<1>4. DecisionTypeOK'
  BY <1>0, <1>1, <1>2, <1>3, DecisionTypes, DecisionTypesNext
<1>5. CallsAreFine'
  <2>1. Fine(judge'[j], backed')
    BY <1>0, <1>1, <1>3 DEF Fine
  <2> QED
    BY <1>0, <1>1, <1>3, <2>1, CallsStayFine
<1>6. GrantsAreKept'
  BY <1>0, <1>1, <1>2, <1>3, GrantsStayKept
<1>7. EngineIsSure'
  BY <1>0, <1>1, <1>3, StoreFields, EngineStaysSure
<1> QED
  BY <1>2, <1>4, <1>5, <1>6, <1>7 DEF DecisionIInv

\* A row of w is written over: what is approved in it a human approved, and what is
\* owed of it is in it.
LEMMA RowIsRewritten ==
  ASSUME DecisionTypeOK, RowsAreKept, NEW w \in Works, NEW set \in SUBSET OpenStatuses,
         rows'.has = [rows.has EXCEPT ![w] = set], shelf' = shelf,
         backed \subseteq backed', "approved" \in set => w \in backed',
         owed'.approved \subseteq owed.approved \union {w},
         w \in owed'.approved => "approved" \in set
  PROVE  RowsAreKept'
BY StoreFields DEF RowsAreKept

\* An approval is spent, or there is none to be found.
LEMMA ConsumeStep ==
  ASSUME DecisionIInv, NEW j \in Judges, Consume(j)
  PROVE  DecisionIInv'
<1> DEFINE w == judge[j].work
<1>0. /\ DecisionTypeOK /\ RowsAreKept /\ GrantsAreKept /\ EngineIsSure /\ CallsAreFine
      /\ judge \in [Judges -> CallRecords] /\ judge[j].at = "consume"
      /\ Fine(judge[j], backed) /\ w \in Works
  BY DecisionTypes DEF DecisionIInv, Consume, Stands, CallsAreFine, Fine
<1>1. UNCHANGED <<grants, shelf, asking, backed>>
  BY DEF Consume
<1>2. CASE /\ rows.is = "whole" /\ "approved" \in rows.has[w]
           /\ rows' = [rows EXCEPT !.has[w] = @ \ {"approved"}]
           /\ owed' = [owed EXCEPT !.approved = @ \ {w}]
           /\ Answers(j, "auto") /\ UNCHANGED calls
  <2>1. /\ rows' \in RowStores /\ rows'.has = [rows.has EXCEPT ![w] = @ \ {"approved"}]
        /\ owed' \in Debts /\ owed'.approved = owed.approved \ {w}
        /\ owed'.granted = owed.granted /\ owed'.revoked = owed.revoked
    BY <1>0, <1>2, DecisionTypes DEF RowStores, Stored, Debts
  <2>2. RowsAreKept'
    <3>1. rows.has[w] \ {"approved"} \in SUBSET OpenStatuses
      BY <1>0, StoreFields
    <3> QED
      BY <1>0, <1>1, <2>1, <3>1, RowIsRewritten
  <2>3. w \in backed
    BY <1>0, <1>2 DEF RowsAreKept
  <2>4. /\ judge' \in [Judges -> CallRecords] /\ judge'[j].does = judge[j].does
        /\ judge'[j].at = "over" /\ judge'[j].work = w /\ judge'[j].says = "auto"
        /\ \A k \in Judges \ {j} : judge'[k] = judge[k]
    BY <1>0, <1>2, AnswersFacts DEF Sayings
  <2>5. CallsAreFine'
    <3>1. Fine(judge'[j], backed')
      BY <1>0, <1>1, <2>3, <2>4 DEF Fine, Allowed
    <3> QED
      BY <1>0, <1>1, <2>4, <3>1, CallsStayFine
  <2>6. GrantsAreKept' /\ EngineIsSure'
    BY <1>0, <1>1, <2>1, <2>4, GrantsStayKept, StoreFields, EngineStaysSure
  <2>7. DecisionTypeOK'
    BY <1>0, <1>1, <1>2, <2>1, <2>4, DecisionTypes, DecisionTypesNext
  <2> QED
    BY <2>2, <2>5, <2>6, <2>7 DEF DecisionIInv
<1>3. CASE /\ UNCHANGED <<rows, owed>>
           /\ \/ TierOf[w] = "auto" /\ Answers(j, "auto")
              \/ MovesTo(j, "standing")
              \/ MovesTo(j, "enqueue")
           /\ calls' \in Bounds
  <2>1. /\ judge' \in [Judges -> CallRecords] /\ judge'[j].does = judge[j].does
        /\ judge'[j].at \in {"over", "standing", "enqueue"} /\ judge'[j].work = w
        /\ judge'[j].says # judge[j].says => judge'[j].says = "auto" /\ TierOf[w] = "auto"
        /\ \A k \in Judges \ {j} : judge'[k] = judge[k]
    <3>1. CASE TierOf[w] = "auto" /\ Answers(j, "auto")
      BY <1>0, <3>1, AnswersFacts DEF Sayings
    <3>2. CASE MovesTo(j, "standing")
      BY <1>0, <3>2, MovesFacts DEF Spots
    <3>3. CASE MovesTo(j, "enqueue")
      BY <1>0, <3>3, MovesFacts DEF Spots
    <3> QED
      BY <1>3, <3>1, <3>2, <3>3
  <2>2. CallsAreFine'
    <3>1. Fine(judge'[j], backed')
      BY <1>0, <1>1, <2>1 DEF Fine, Allowed
    <3> QED
      BY <1>0, <1>1, <2>1, <3>1, CallsStayFine
  <2>3. GrantsAreKept' /\ EngineIsSure' /\ RowsAreKept'
    BY <1>0, <1>1, <1>3, <2>1, GrantsStayKept, StoreFields, EngineStaysSure, RowsStayKept
  <2>4. DecisionTypeOK'
    BY <1>0, <1>1, <1>3, <2>1, DecisionTypes, DecisionTypesNext
  <2> QED
    BY <2>2, <2>3, <2>4 DEF DecisionIInv
<1>4. <1>2!1 \/ <1>3!1
  <2>1. calls \in Bounds
    BY <1>0, DecisionTypes
  <2>2. calls.misread > 0 => [calls EXCEPT !.misread = @ - 1] \in Bounds
    BY <2>1, DecisionAssumption DEF Bounds
  <2> QED
    BY <2>1, <2>2 DEF Consume
<1> QED
  BY <1>2, <1>3, <1>4

\* Who reads the grants without their lock goes on with what stood in them.
LEMMA ReaderGoesOn ==
  ASSUME DecisionIInv, NEW j \in Judges, NEW has \in SUBSET Works, has \subseteq backed,
         judge[j].at # "free", ReadersNext(j, has), backed' = backed
  PROVE  /\ judge' \in [Judges -> CallRecords] /\ CallsAreFine'
         /\ judge'[j].at \in {"over", "enqueue"} /\ judge'[j].does = judge[j].does
         /\ \A k \in Judges \ {j} : judge'[k] = judge[k]
<1>0. /\ CallsAreFine /\ judge \in [Judges -> CallRecords] /\ Fine(judge[j], backed)
      /\ judge[j].work \in Works
  BY DecisionTypes DEF DecisionIInv, CallsAreFine, Fine
<1>1. CASE judge[j].does = "list" /\ Answers(j, "none")
  <2>1. /\ judge' \in [Judges -> CallRecords] /\ judge'[j].does = "list"
        /\ judge'[j].at = "over" /\ judge'[j].work = judge[j].work
        /\ \A k \in Judges \ {j} : judge'[k] = judge[k]
    BY <1>0, <1>1, AnswersFacts DEF Sayings
  <2>2. Fine(judge'[j], backed')
    BY <1>0, <2>1 DEF Fine
  <2> QED
    BY <1>0, <1>1, <2>1, <2>2, CallsStayFine
<1>2. CASE judge[j].work \in has /\ Answers(j, "auto")
  <2>1. /\ judge' \in [Judges -> CallRecords] /\ judge'[j].does = judge[j].does
        /\ judge'[j].at = "over" /\ judge'[j].work = judge[j].work
        /\ judge'[j].says = "auto" /\ \A k \in Judges \ {j} : judge'[k] = judge[k]
    BY <1>0, <1>2, AnswersFacts DEF Sayings
  <2>2. Fine(judge'[j], backed')
    BY <1>0, <1>2, <2>1 DEF Fine, Allowed
  <2> QED
    BY <1>0, <1>1, <2>1, <2>2, CallsStayFine
<1>3. CASE MovesTo(j, "enqueue")
  <2>1. /\ judge' \in [Judges -> CallRecords] /\ judge'[j].does = judge[j].does
        /\ judge'[j].at = "enqueue" /\ judge'[j].work = judge[j].work
        /\ judge'[j].says = judge[j].says /\ \A k \in Judges \ {j} : judge'[k] = judge[k]
    BY <1>0, <1>3, MovesFacts DEF Spots
  <2>2. Fine(judge'[j], backed')
    BY <1>0, <2>1 DEF Fine
  <2> QED
    BY <1>0, <1>1, <2>1, <2>2, CallsStayFine
<1> QED
  BY <1>1, <1>2, <1>3 DEF ReadersNext

\* A load without the lock.
LEMMA LoadGrantsStep ==
  ASSUME DecisionIInv, NEW j \in Judges, LoadGrants(j)
  PROVE  DecisionIInv'
<1>0. /\ DecisionTypeOK /\ RowsAreKept /\ GrantsAreKept /\ EngineIsSure /\ CallsAreFine
      /\ judge \in [Judges -> CallRecords] /\ judge[j].at = "standing"
      /\ Fine(judge[j], backed) /\ calls \in Bounds
  BY DecisionTypes DEF DecisionIInv, LoadGrants, Stands, CallsAreFine
<1>1. UNCHANGED <<rows, grants, shelf, asking, owed, backed>>
  BY DEF LoadGrants
<1>2. /\ calls' \in Bounds /\ judge' \in [Judges -> CallRecords] /\ CallsAreFine'
      /\ judge'[j].at \in {"over", "enqueue", "misread"} /\ judge'[j].does = judge[j].does
      /\ \A k \in Judges \ {j} : judge'[k] = judge[k]
  <2>1. CASE ReadersNext(j, grants.has) /\ UNCHANGED calls
    <3>1. grants.has \in SUBSET Works /\ grants.has \subseteq backed
      BY <1>0, StoreFields DEF GrantsAreKept, GrantsAre
    <3> QED
      BY <1>0, <1>1, <2>1, <3>1, ReaderGoesOn
  <2>2. CASE \E badly \in BOOLEAN :
               ReadFails(grants, badly) /\ Costs(badly) /\ MovesTo(j, "misread")
    <3>1. MovesTo(j, "misread") /\ calls' \in Bounds
      BY <1>0, <2>2, ReadCosts
    <3>2. /\ judge' \in [Judges -> CallRecords] /\ judge'[j].does = judge[j].does
          /\ judge'[j].at = "misread" /\ judge'[j].work = judge[j].work
          /\ judge'[j].says = judge[j].says /\ \A k \in Judges \ {j} : judge'[k] = judge[k]
      BY <1>0, <3>1, MovesFacts DEF Spots
    <3>3. Fine(judge'[j], backed')
      BY <1>0, <1>1, <3>2 DEF Fine
    <3> QED
      BY <1>0, <1>1, <3>1, <3>2, <3>3, CallsStayFine
  <2> QED
    BY <2>1, <2>2 DEF LoadGrants
<1>3. DecisionTypeOK'
  BY <1>0, <1>1, <1>2, DecisionTypes, DecisionTypesNext
<1>4. GrantsAreKept' /\ EngineIsSure' /\ RowsAreKept'
  BY <1>0, <1>1, <1>2, GrantsStayKept, StoreFields, EngineStaysSure, RowsStayKept
<1> QED
  BY <1>2, <1>3, <1>4 DEF DecisionIInv

\* The grants are moved: the first time, the shelf is empty.
LEMMA GrantsAreShelved ==
  ASSUME DecisionTypeOK, GrantsAreKept, ShelveGrants, owed' = owed, backed' = backed
  PROVE  /\ grants' \in GrantStores /\ shelf' \in Shelves /\ grants'.has = {}
         /\ shelf'.rows = shelf.rows /\ shelf'.rowsMoved = shelf.rowsMoved
         /\ shelf'.grantsMoved > 0 /\ GrantsAre({})'
         /\ \A has : GrantsAre(has) => GrantsAre(has)'
<1>0. /\ shelf \in Shelves /\ grants.has \subseteq Works /\ shelf.grantsMoved \in Nat
  BY StoreFields, DecisionTypes
<1>1. /\ shelf' \in Shelves /\ shelf'.grants = grants.has
      /\ shelf'.grantsMoved = shelf.grantsMoved + 1
      /\ shelf'.rows = shelf.rows /\ shelf'.rowsMoved = shelf.rowsMoved
  <2> DEFINE mid == [shelf EXCEPT !.grants = grants.has]
  <2>1. /\ mid \in Shelves /\ mid.grants = grants.has /\ mid.rowsMoved = shelf.rowsMoved
        /\ mid.rows = shelf.rows /\ mid.grantsMoved = shelf.grantsMoved
    BY <1>0 DEF Shelves
  <2>2. shelf' = [mid EXCEPT !.grantsMoved = shelf.grantsMoved + 1]
    BY DEF ShelveGrants
  <2> HIDE DEF mid
  <2> QED
    BY <1>0, <2>1, <2>2 DEF Shelves
<1>2. grants' \in GrantStores /\ grants'.has = {}
  BY DEF ShelveGrants, GrantStores, Stored
<1>3. shelf'.grantsMoved <= 1 => shelf.grantsMoved = 0 /\ shelf.grants = {}
  BY <1>0, <1>1 DEF GrantsAreKept
<1>4. GrantsAre({})'
  BY <1>0, <1>1, <1>3 DEF GrantsAreKept, GrantsAre
<1>5. ASSUME NEW has, GrantsAre(has)
      PROVE  GrantsAre(has)'
  BY <1>0, <1>1, <1>3, <1>5 DEF GrantsAre
<1> QED
  BY <1>0, <1>1, <1>2, <1>4, <1>5

\* The reader moves whatever has the name of the grants by now.
LEMMA MoveGrantsStep ==
  ASSUME DecisionIInv, NEW j \in Judges, MoveGrants(j)
  PROVE  DecisionIInv'
<1>0. /\ DecisionTypeOK /\ RowsAreKept /\ GrantsAreKept /\ EngineIsSure /\ CallsAreFine
      /\ judge \in [Judges -> CallRecords] /\ judge[j].at = "misread"
  BY DecisionTypes DEF DecisionIInv, MoveGrants, Stands
<1>1. UNCHANGED <<rows, asking, owed, backed, calls>>
  BY DEF MoveGrants
<1>2. /\ judge' \in [Judges -> CallRecords] /\ CallsAreFine'
      /\ judge'[j].at \in {"over", "enqueue"} /\ judge'[j].does = judge[j].does
      /\ \A k \in Judges \ {j} : judge'[k] = judge[k]
  BY <1>0, <1>1, ReaderGoesOn DEF MoveGrants
<1>3. CASE UNCHANGED <<grants, shelf>>
  <2>1. DecisionTypeOK'
    BY <1>0, <1>1, <1>2, <1>3, DecisionTypes, DecisionTypesNext
  <2>2. GrantsAreKept' /\ EngineIsSure' /\ RowsAreKept'
    BY <1>0, <1>1, <1>2, <1>3, GrantsStayKept, StoreFields, EngineStaysSure, RowsStayKept
  <2> QED
    BY <1>2, <2>1, <2>2 DEF DecisionIInv
<1>4. CASE ShelveGrants
  <2>1. /\ grants' \in GrantStores /\ shelf' \in Shelves /\ grants'.has = {}
        /\ shelf'.rows = shelf.rows /\ shelf'.rowsMoved = shelf.rowsMoved
        /\ shelf'.grantsMoved > 0 /\ GrantsAre({})'
        /\ \A has : GrantsAre(has) => GrantsAre(has)'
    BY <1>0, <1>1, <1>4, GrantsAreShelved
  <2>2. DecisionTypeOK'
    BY <1>0, <1>1, <1>2, <2>1, DecisionTypes, DecisionTypesNext
  <2>3. EngineIsSure' /\ RowsAreKept'
    BY <1>0, <1>1, <1>2, <2>1, StoreFields, EngineStaysSure, RowsStayKept
  <2>4. GrantsAreKept'
    <3>1. \A k \in Judges : GrantsLocked(k)' => k # j /\ GrantsLocked(k) /\ judge'[k] = judge[k]
      BY <1>2 DEF GrantsLocked
    <3>2. \A k \in Judges : GrantsLocked(k)' => GrantsAre(judge[k].holds)'  /\ judge'[k] = judge[k]
      BY <1>0, <2>1, <3>1 DEF GrantsAreKept, GrantsAre
    <3> QED
      BY <1>0, <2>1, <3>1, <3>2 DEF GrantsAreKept, GrantsAre
  <2> QED
    BY <1>2, <2>2, <2>3, <2>4 DEF DecisionIInv
<1> QED
  BY <1>3, <1>4 DEF MoveGrants

\* A pending row: what is in the others stays, or is moved.
LEMMA EnqueueRowStep ==
  ASSUME DecisionIInv, NEW j \in Judges, EnqueueRow(j)
  PROVE  DecisionIInv'
<1> DEFINE w == judge[j].work
           Asked(has) == [is |-> "whole", has |-> [has EXCEPT ![w] = @ \union {"pending"}]]
<1>0. /\ DecisionTypeOK /\ RowsAreKept /\ GrantsAreKept /\ EngineIsSure /\ CallsAreFine
      /\ judge \in [Judges -> CallRecords] /\ judge[j].at = "enqueue"
      /\ Fine(judge[j], backed) /\ w \in Works /\ calls \in Bounds
      /\ TierOf[w] \in Sayings \ {"error"}
  BY DecisionTypes, DecisionAssumption
     DEF DecisionIInv, EnqueueRow, Stands, CallsAreFine, Fine, Sayings
<1>1. UNCHANGED <<grants, asking, owed, backed>>
  BY DEF EnqueueRow
<1>2. /\ rows' \in RowStores /\ shelf' \in Shelves /\ RowsAreKept' /\ calls' \in Bounds
      /\ shelf'.grants = shelf.grants /\ shelf'.grantsMoved = shelf.grantsMoved
  <2>1. CASE rows' = Asked(rows.has) /\ UNCHANGED <<shelf, calls>>
    <3>1. /\ rows.has[w] \union {"pending"} \in SUBSET OpenStatuses
          /\ rows.has \in [Works -> SUBSET OpenStatuses]
      BY <1>0, StoreFields DEF OpenStatuses
    <3>2. /\ rows' \in RowStores
          /\ rows'.has = [rows.has EXCEPT ![w] = rows.has[w] \union {"pending"}]
      BY <2>1, <3>1 DEF RowStores, Stored
    <3>3. RowsAreKept'
      BY <1>0, <1>1, <2>1, <3>1, <3>2 DEF RowsAreKept
    <3> QED
      BY <1>0, <2>1, <3>2, <3>3, DecisionTypes
  <2>2. CASE \E badly \in BOOLEAN :
               /\ ReadFails(rows, badly) /\ Costs(badly)
               /\ rows' = Asked(NoRows)
               /\ shelf' = [shelf EXCEPT !.rows = rows.has, !.rowsMoved = @ + 1]
    <3>0. PICK badly \in BOOLEAN :
            /\ ReadFails(rows, badly) /\ Costs(badly)
            /\ rows' = Asked(NoRows)
            /\ shelf' = [shelf EXCEPT !.rows = rows.has, !.rowsMoved = @ + 1]
      BY <2>2
    <3> DEFINE has == [NoRows EXCEPT ![w] = @ \union {"pending"}]
    <3>1. has \in [Works -> SUBSET OpenStatuses] /\ \A v \in Works : "approved" \notin has[v]
      BY <1>0 DEF NoRows, OpenStatuses
    <3>2. calls' \in Bounds
      BY <1>0, <3>0, ReadCosts
    <3>3. /\ rows' = [is |-> "whole", has |-> has] /\ owed' = owed /\ backed' = backed
          /\ shelf' = [shelf EXCEPT !.rows = rows.has, !.rowsMoved = @ + 1]
      BY <1>1, <3>0
    <3> HIDE DEF has
    <3> QED
      BY <1>0, <3>1, <3>2, <3>3, RowsAreShelved
  <2> QED
    BY <2>1, <2>2 DEF EnqueueRow
<1>3. /\ judge' \in [Judges -> CallRecords] /\ judge'[j].does = judge[j].does
      /\ judge'[j].at = "over" /\ judge'[j].work = w /\ judge'[j].says = TierOf[w]
      /\ \A k \in Judges \ {j} : judge'[k] = judge[k]
  BY <1>0, AnswersFacts DEF EnqueueRow
<1>4. CallsAreFine'
  <2>1. Fine(judge'[j], backed')
    BY <1>0, <1>1, <1>3 DEF Fine, Allowed
  <2> QED
    BY <1>0, <1>1, <1>3, <2>1, CallsStayFine
<1>5. DecisionTypeOK'
  BY <1>0, <1>1, <1>2, <1>3, DecisionTypes, DecisionTypesNext
<1>6. GrantsAreKept' /\ EngineIsSure'
  BY <1>0, <1>1, <1>2, <1>3, GrantsStayKept, StoreFields, EngineStaysSure
<1> QED
  BY <1>2, <1>4, <1>5, <1>6 DEF DecisionIInv

\* The human approves: the approval is in the row, unless it is claimed.
LEMMA ReviewRowStep ==
  ASSUME DecisionIInv, NEW j \in Judges, ReviewRow(j)
  PROVE  DecisionIInv'
<1> DEFINE w == judge[j].work
<1>0. /\ DecisionTypeOK /\ RowsAreKept /\ GrantsAreKept /\ EngineIsSure /\ CallsAreFine
      /\ judge \in [Judges -> CallRecords] /\ judge[j].at = "review"
      /\ judge[j] \in CallRecords /\ Fine(judge[j], backed) /\ w \in Works
  BY DecisionTypes DEF DecisionIInv, ReviewRow, Stands, CallsAreFine, Fine
<1>1. UNCHANGED <<grants, shelf, asking, calls>>
  BY DEF ReviewRow
<1>2. CASE Answers(j, "none") /\ UNCHANGED <<rows, owed, backed>>
  <2>1. /\ judge' \in [Judges -> CallRecords] /\ judge'[j].does = judge[j].does
        /\ judge'[j].at = "over" /\ judge'[j].work = w /\ judge'[j].says = "none"
        /\ \A k \in Judges \ {j} : judge'[k] = judge[k]
    BY <1>0, <1>2, AnswersFacts DEF Sayings
  <2>2. CallsAreFine'
    <3>1. Fine(judge'[j], backed')
      BY <1>0, <2>1 DEF Fine
    <3> QED
      BY <1>0, <1>2, <2>1, <3>1, CallsStayFine
  <2>3. DecisionTypeOK'
    BY <1>0, <1>1, <1>2, <2>1, DecisionTypes, DecisionTypesNext
  <2>4. GrantsAreKept' /\ EngineIsSure' /\ RowsAreKept'
    BY <1>0, <1>1, <1>2, <2>1, GrantsStayKept, StoreFields, EngineStaysSure, RowsStayKept
  <2> QED
    BY <2>2, <2>3, <2>4 DEF DecisionIInv
<1>3. CASE /\ backed' = backed \union {w}
           /\ \E claimed \in BOOLEAN, place \in {"grant", "push", "over"} :
                /\ rows' = [rows EXCEPT !.has[w] =
                     (@ \ {"pending"}) \union (IF claimed THEN {} ELSE {"approved"})]
                /\ owed' = IF claimed THEN owed
                           ELSE [owed EXCEPT !.approved = @ \union {w}]
                /\ judge' = [judge EXCEPT ![j].at = place, ![j].claim = claimed]
  <2>0. PICK claimed \in BOOLEAN, place \in {"grant", "push", "over"} :
          /\ rows' = [rows EXCEPT !.has[w] =
               (@ \ {"pending"}) \union (IF claimed THEN {} ELSE {"approved"})]
          /\ owed' = IF claimed THEN owed
                     ELSE [owed EXCEPT !.approved = @ \union {w}]
          /\ judge' = [judge EXCEPT ![j].at = place, ![j].claim = claimed]
    BY <1>3
  <2> DEFINE set == (rows.has[w] \ {"pending"}) \union (IF claimed THEN {} ELSE {"approved"})
             r == [judge[j] EXCEPT !.at = place, !.claim = claimed]
  <2>1. /\ rows.has \in [Works -> SUBSET OpenStatuses] /\ set \in SUBSET OpenStatuses
        /\ rows \in RowStores /\ owed \in Debts
    BY <1>0, StoreFields, DecisionTypes DEF OpenStatuses
  <2>2. /\ rows' \in RowStores /\ rows'.has = [rows.has EXCEPT ![w] = set]
    BY <1>0, <2>0, <2>1 DEF RowStores, Stored
  <2>3. /\ owed' \in Debts /\ owed'.granted = owed.granted /\ owed'.revoked = owed.revoked
        /\ owed'.approved = IF claimed THEN owed.approved ELSE owed.approved \union {w}
    BY <1>0, <2>0, <2>1 DEF Debts
  <2>4. RowsAreKept'
    <3>1. "approved" \in set <=> ("approved" \in rows.has[w] \/ ~claimed)
      OBVIOUS
    <3> HIDE DEF set
    <3> QED
      BY <1>0, <1>1, <1>3, <2>1, <2>2, <2>3, <3>1 DEF RowsAreKept
  <2>5. r \in CallRecords /\ r.at = place /\ r.does = judge[j].does /\ r.work = w
        /\ r.says = judge[j].says
    BY <1>0 DEF CallRecords, Spots
  <2>6. judge' = [judge EXCEPT ![j] = r]
    BY <2>0
  <2> HIDE DEF r
  <2>7. /\ judge' \in [Judges -> CallRecords] /\ judge'[j] = r
        /\ \A k \in Judges \ {j} : judge'[k] = judge[k]
    BY <1>0, <2>5, <2>6, OneJudge
  <2>8. CallsAreFine'
    <3>1. Fine(judge'[j], backed')
      BY <1>0, <1>3, <2>5, <2>7 DEF Fine, Allowed
    <3> QED
      BY <1>0, <1>3, <2>7, <3>1, CallsStayFine
  <2>9. DecisionTypeOK'
    BY <1>0, <1>1, <1>3, <2>2, <2>3, <2>7, DecisionTypes, DecisionTypesNext
  <2>10. GrantsAreKept' /\ EngineIsSure'
    BY <1>0, <1>1, <1>3, <2>3, <2>5, <2>7, GrantsStayKept, StoreFields, EngineStaysSure
  <2> QED
    BY <2>4, <2>8, <2>9, <2>10 DEF DecisionIInv
<1>4. <1>2!1 \/ <1>3!1
  BY DEF ReviewRow
<1> QED
  BY <1>2, <1>3, <1>4

\* The lock of the grants is taken by one, who holds what they hold.
LEMMA LoadLockedStep ==
  ASSUME DecisionIInv, NEW j \in Judges, LoadLocked(j)
  PROVE  DecisionIInv'
<1>0. /\ DecisionTypeOK /\ RowsAreKept /\ GrantsAreKept /\ EngineIsSure /\ CallsAreFine
      /\ judge \in [Judges -> CallRecords] /\ judge[j].at \in {"grant", "revoke"}
      /\ judge[j] \in CallRecords /\ Fine(judge[j], backed) /\ calls \in Bounds
      /\ NobodyGrants
  BY DecisionTypes DEF DecisionIInv, LoadLocked, CallsAreFine
<1>1. UNCHANGED <<rows, asking, owed, backed>>
  BY DEF LoadLocked
<1>2. PICK has \in {grants.has, {}} :
        /\ \/ has = grants.has /\ grants.is # "bad" /\ UNCHANGED <<grants, shelf, calls>>
           \/ /\ has = {}
              /\ \E badly \in BOOLEAN :
                   ReadFails(grants, badly) /\ Costs(badly) /\ ShelveGrants
        /\ judge' = IF judge[j].at = "grant"
                    THEN [judge EXCEPT ![j].at = "granting", ![j].holds = has]
                    ELSE IF judge[j].work \in has
                    THEN [judge EXCEPT ![j].at = "revoking", ![j].holds = has]
                    ELSE [judge EXCEPT ![j].at = "over"]
  BY DEF LoadLocked
<1>3. /\ grants' \in GrantStores /\ shelf' \in Shelves /\ calls' \in Bounds
      /\ has \subseteq Works /\ GrantsAre(has)' /\ GrantsAre(grants.has)'
      /\ grants'.has = has
      /\ shelf'.rows = shelf.rows /\ shelf'.rowsMoved = shelf.rowsMoved
      /\ shelf'.grantsMoved = 0 => shelf'.grants = {}
  <2>1. CASE has = grants.has /\ UNCHANGED <<grants, shelf, calls>>
    <3>1. GrantsAre(has)' /\ GrantsAre(grants.has)'
      BY <1>0, <1>1, <2>1 DEF GrantsAreKept, GrantsAre
    <3> QED
      BY <1>0, <2>1, <3>1, DecisionTypes, StoreFields DEF GrantsAreKept
  <2>2. CASE /\ has = {}
             /\ \E badly \in BOOLEAN :
                  ReadFails(grants, badly) /\ Costs(badly) /\ ShelveGrants
    <3>1. calls' \in Bounds /\ ShelveGrants
      BY <1>0, <2>2, ReadCosts
    <3>2. /\ grants' \in GrantStores /\ shelf' \in Shelves /\ grants'.has = {}
          /\ shelf'.rows = shelf.rows /\ shelf'.rowsMoved = shelf.rowsMoved
          /\ shelf'.grantsMoved > 0 /\ GrantsAre({})'
          /\ \A some : GrantsAre(some) => GrantsAre(some)'
      BY <1>0, <1>1, <3>1, GrantsAreShelved
    <3>3. GrantsAre(grants.has)' /\ GrantsAre(has)'
      BY <2>2, <3>2 DEF GrantsAre
    <3> QED
      BY <2>2, <3>1, <3>2, <3>3
  <2> QED
    BY <1>2, <2>1, <2>2
<1>4. PICK r \in CallRecords :
        /\ judge' = [judge EXCEPT ![j] = r]
        /\ r.does = judge[j].does /\ r.work = judge[j].work /\ r.says = judge[j].says
        /\ \/ r.holds = has /\ r.at = "granting" /\ judge[j].at = "grant"
           \/ r.holds = has /\ r.at = "revoking"
           \/ r.at = "over"
  <2>1. CASE judge' = [judge EXCEPT ![j].at = "granting", ![j].holds = has] /\ judge[j].at = "grant"
    <3> DEFINE r == [judge[j] EXCEPT !.at = "granting", !.holds = has]
    <3>1. /\ r \in CallRecords /\ r.at = "granting" /\ r.does = judge[j].does
          /\ r.work = judge[j].work /\ r.says = judge[j].says /\ r.holds = has
      BY <1>0, <1>3 DEF CallRecords, Spots
    <3>2. judge' = [judge EXCEPT ![j] = r]
      BY <2>1
    <3> HIDE DEF r
    <3> QED
      BY <2>1, <3>1, <3>2
  <2>2. CASE judge' = [judge EXCEPT ![j].at = "revoking", ![j].holds = has]
    <3> DEFINE r == [judge[j] EXCEPT !.at = "revoking", !.holds = has]
    <3>1. /\ r \in CallRecords /\ r.at = "revoking" /\ r.does = judge[j].does
          /\ r.work = judge[j].work /\ r.says = judge[j].says /\ r.holds = has
      BY <1>0, <1>3 DEF CallRecords, Spots
    <3>2. judge' = [judge EXCEPT ![j] = r]
      BY <2>2
    <3> HIDE DEF r
    <3> QED
      BY <2>2, <3>1, <3>2
  <2>3. CASE judge' = [judge EXCEPT ![j].at = "over"]
    <3> DEFINE r == [judge[j] EXCEPT !.at = "over"]
    <3>1. /\ r \in CallRecords /\ r.at = "over" /\ r.does = judge[j].does
          /\ r.work = judge[j].work /\ r.says = judge[j].says
      BY <1>0 DEF CallRecords, Spots
    <3>2. judge' = [judge EXCEPT ![j] = r]
      BY <2>3
    <3> HIDE DEF r
    <3> QED
      BY <2>3, <3>1, <3>2
  <2> QED
    BY <1>0, <1>2, <2>1, <2>2, <2>3
<1>5. /\ judge' \in [Judges -> CallRecords] /\ judge'[j] = r
      /\ \A k \in Judges \ {j} : judge'[k] = judge[k]
  BY <1>0, <1>4, OneJudge
<1>6. CallsAreFine'
  <2>1. Fine(judge'[j], backed')
    BY <1>0, <1>1, <1>4, <1>5 DEF Fine
  <2> QED
    BY <1>0, <1>1, <1>5, <2>1, CallsStayFine
<1>7. DecisionTypeOK'
  BY <1>0, <1>1, <1>3, <1>5, DecisionTypes, DecisionTypesNext
<1>8. RowsAreKept' /\ EngineIsSure'
  BY <1>0, <1>1, <1>3, <1>4, <1>5, RowsStayKept, StoreFields, EngineStaysSure
<1>9. GrantsAreKept'
  <2>1. \A k \in Judges : GrantsLocked(k)' => k = j /\ judge'[k].holds = has
    BY <1>0, <1>4, <1>5 DEF NobodyGrants, GrantsLocked
  <2>2. \A k \in Judges : GrantsLocked(k)' => GrantsAre(judge[k].holds)'
    BY <1>3, <2>1 DEF GrantsAre
  <2> QED
    BY <1>3, <2>1, <2>2 DEF GrantsAreKept
<1> QED
  BY <1>6, <1>7, <1>8, <1>9 DEF DecisionIInv

\* Who has the lock saves what it holds, with one entry more or less.
LEMMA SaveLockedStep ==
  ASSUME DecisionIInv, NEW j \in Judges, SaveLocked(j)
  PROVE  DecisionIInv'
<1> DEFINE w == judge[j].work
           old == judge[j].holds
<1>0. /\ DecisionTypeOK /\ RowsAreKept /\ GrantsAreKept /\ EngineIsSure /\ CallsAreFine
      /\ judge \in [Judges -> CallRecords] /\ GrantsLocked(j)
      /\ judge[j] \in CallRecords /\ Fine(judge[j], backed) /\ w \in Works
      /\ owed \in Debts
  BY DecisionTypes DEF DecisionIInv, SaveLocked, CallsAreFine, GrantsLocked, Fine
<1>1. UNCHANGED <<rows, shelf, asking, backed, calls>>
  BY DEF SaveLocked
<1>2. /\ old \subseteq Works /\ GrantsAre(old)
      /\ \A k \in Judges \ {j} : ~GrantsLocked(k)
  BY <1>0, CallIsTyped DEF GrantsAreKept
<1>3. PICK place \in {"push", "over"} :
        /\ MovesTo(j, place)
        /\ place = "push" => judge[j].at = "granting"
  BY DEF SaveLocked, Stands
<1>4. /\ judge' \in [Judges -> CallRecords]
      /\ judge'[j].at = place /\ judge'[j].does = judge[j].does
      /\ judge'[j].work = w /\ judge'[j].says = judge[j].says
      /\ \A k \in Judges \ {j} : judge'[k] = judge[k]
  BY <1>0, <1>3, MovesFacts DEF Spots
<1>5. /\ grants' \in GrantStores /\ owed' \in Debts /\ owed'.approved = owed.approved
      /\ GrantsAre(grants.has)'
  <2>1. CASE /\ judge[j].at = "granting"
             /\ grants' = [is |-> "whole", has |-> old \union {w}]
             /\ owed' = [owed EXCEPT !.granted = @ \union {w}, !.revoked = @ \ {w}]
    <3> DEFINE new == old \union {w}
    <3>1. new \subseteq Works /\ w \in backed
      BY <1>0, <1>2, <2>1 DEF Fine
    <3>2. grants' \in GrantStores /\ grants'.has = new
      BY <2>1, <3>1 DEF GrantStores, Stored
    <3>3. /\ owed' \in Debts /\ owed'.approved = owed.approved
          /\ owed'.granted = owed.granted \union {w} /\ owed'.revoked = owed.revoked \ {w}
      BY <1>0, <2>1 DEF Debts
    <3>4. GrantsAre(grants.has)'
      BY <1>1, <1>2, <3>1, <3>2, <3>3 DEF GrantsAre
    <3> QED
      BY <3>2, <3>3, <3>4
  <2>2. CASE /\ grants' = [is |-> "whole", has |-> old \ {w}]
             /\ owed' = [owed EXCEPT !.granted = @ \ {w}, !.revoked = @ \union {w}]
    <3> DEFINE new == old \ {w}
    <3>1. new \subseteq Works
      BY <1>2
    <3>2. grants' \in GrantStores /\ grants'.has = new
      BY <2>2, <3>1 DEF GrantStores, Stored
    <3>3. /\ owed' \in Debts /\ owed'.approved = owed.approved
          /\ owed'.granted = owed.granted \ {w} /\ owed'.revoked = owed.revoked \union {w}
      BY <1>0, <2>2 DEF Debts
    <3>4. GrantsAre(grants.has)'
      BY <1>1, <1>2, <3>1, <3>2, <3>3 DEF GrantsAre
    <3> QED
      BY <3>2, <3>3, <3>4
  <2> QED
    BY <2>1, <2>2 DEF SaveLocked, Stands
<1>6. CallsAreFine'
  <2>1. Fine(judge'[j], backed')
    BY <1>0, <1>1, <1>3, <1>4 DEF Fine
  <2> QED
    BY <1>0, <1>1, <1>4, <2>1, CallsStayFine
<1>7. DecisionTypeOK'
  BY <1>0, <1>1, <1>4, <1>5, DecisionTypes, DecisionTypesNext
<1>8. RowsAreKept' /\ EngineIsSure'
  BY <1>0, <1>1, <1>3, <1>4, <1>5, RowsStayKept, StoreFields, EngineStaysSure
<1>9. GrantsAreKept'
  <2>1. \A k \in Judges : ~GrantsLocked(k)'
    BY <1>2, <1>4 DEF GrantsLocked
  <2> QED
    BY <1>0, <1>1, <1>5, <2>1 DEF GrantsAreKept
<1> QED
  BY <1>6, <1>7, <1>8, <1>9 DEF DecisionIInv

\* The claimed row is spent, or approved again.
LEMMA PushStep ==
  ASSUME DecisionIInv, NEW j \in Judges, Push(j)
  PROVE  DecisionIInv'
<1> DEFINE w == judge[j].work
<1>0. /\ DecisionTypeOK /\ RowsAreKept /\ GrantsAreKept /\ EngineIsSure /\ CallsAreFine
      /\ judge \in [Judges -> CallRecords] /\ judge[j].at = "push" /\ MovesTo(j, "over")
      /\ Fine(judge[j], backed) /\ w \in Works /\ w \in backed
      /\ owed \in Debts /\ rows \in RowStores
  BY DecisionTypes DEF DecisionIInv, Push, Stands, CallsAreFine, Fine
<1>1. UNCHANGED <<grants, shelf, asking, backed, calls>>
  BY DEF Push
<1>2. /\ judge' \in [Judges -> CallRecords]
      /\ judge'[j].at = "over" /\ judge'[j].does = judge[j].does
      /\ judge'[j].work = w /\ judge'[j].says = judge[j].says
      /\ \A k \in Judges \ {j} : judge'[k] = judge[k]
  BY <1>0, MovesFacts DEF Spots
<1>3. /\ rows' \in RowStores /\ owed' \in Debts /\ RowsAreKept'
      /\ owed'.granted = owed.granted /\ owed'.revoked = owed.revoked
  <2>1. CASE UNCHANGED <<rows, owed>>
    BY <1>0, <1>1, <2>1, RowsStayKept
  <2>2. CASE /\ rows' = [rows EXCEPT !.has[w] = @ \union {"approved"}]
             /\ owed' = [owed EXCEPT !.approved = @ \union {w}]
    <3>1. /\ rows.has[w] \union {"approved"} \in SUBSET OpenStatuses
          /\ rows.has \in [Works -> SUBSET OpenStatuses]
      BY <1>0, StoreFields DEF OpenStatuses
    <3>2. /\ rows' \in RowStores
          /\ rows'.has = [rows.has EXCEPT ![w] = rows.has[w] \union {"approved"}]
      BY <1>0, <2>2, <3>1 DEF RowStores, Stored
    <3>3. /\ owed' \in Debts /\ owed'.approved = owed.approved \union {w}
          /\ owed'.granted = owed.granted /\ owed'.revoked = owed.revoked
      BY <1>0, <2>2 DEF Debts
    <3>4. RowsAreKept'
      BY <1>0, <1>1, <3>1, <3>2, <3>3 DEF RowsAreKept
    <3> QED
      BY <3>2, <3>3, <3>4
  <2> QED
    BY <2>1, <2>2 DEF Push
<1>4. CallsAreFine'
  <2>1. Fine(judge'[j], backed')
    BY <1>0, <1>1, <1>2 DEF Fine
  <2> QED
    BY <1>0, <1>1, <1>2, <2>1, CallsStayFine
<1>5. DecisionTypeOK'
  BY <1>0, <1>1, <1>2, <1>3, DecisionTypes, DecisionTypesNext
<1>6. GrantsAreKept' /\ EngineIsSure'
  BY <1>0, <1>1, <1>2, <1>3, GrantsStayKept, StoreFields, EngineStaysSure
<1> QED
  BY <1>3, <1>4, <1>5, <1>6 DEF DecisionIInv

\* The lock is not had: an error, or the end for what is sensitive.
LEMMA LockTimesOutStep ==
  ASSUME DecisionIInv, NEW j \in Judges, LockTimesOut(j)
  PROVE  DecisionIInv'
<1>0. /\ DecisionTypeOK /\ RowsAreKept /\ GrantsAreKept /\ EngineIsSure /\ CallsAreFine
      /\ judge \in [Judges -> CallRecords] /\ judge[j].at # "free"
      /\ Fine(judge[j], backed)
  BY DecisionTypes DEF DecisionIInv, LockTimesOut, CallsAreFine, QueueLocked
<1>1. UNCHANGED <<rows, grants, shelf, asking, owed, backed, calls>>
  BY DEF LockTimesOut
<1>2. PICK s \in {"hard_stop", "error"} :
        /\ Answers(j, s)
        /\ s = "error" /\ judge[j].does = "decide" => judge[j].work \notin Sensitive
  BY DEF LockTimesOut, FailSafe
<1>3. /\ judge' \in [Judges -> CallRecords] /\ judge'[j].does = judge[j].does
      /\ judge'[j].at = "over" /\ judge'[j].work = judge[j].work /\ judge'[j].says = s
      /\ \A k \in Judges \ {j} : judge'[k] = judge[k]
  BY <1>0, <1>2, AnswersFacts DEF Sayings
<1>4. CallsAreFine'
  <2>1. Fine(judge'[j], backed')
    BY <1>0, <1>1, <1>2, <1>3 DEF Fine
  <2> QED
    BY <1>0, <1>1, <1>3, <2>1, CallsStayFine
<1>5. DecisionTypeOK'
  BY <1>0, <1>1, <1>3, DecisionTypes, DecisionTypesNext
<1>6. GrantsAreKept' /\ EngineIsSure' /\ RowsAreKept'
  BY <1>0, <1>1, <1>3, GrantsStayKept, StoreFields, EngineStaysSure, RowsStayKept
<1> QED
  BY <1>4, <1>5, <1>6 DEF DecisionIInv

\* A call begins or ends whose answer the engine does not wait for.
LEMMA CallTurns ==
  ASSUME DecisionIInv, NEW j \in Judges, judge' \in [Judges -> CallRecords],
         judge[j].at = "free" \/ asking.for # j,
         judge'[j].at # "free" => judge'[j].work \in Works,
         judge'[j].at \notin {"grant", "granting", "revoking", "push"},
         judge'[j].says = "none",
         \A k \in Judges \ {j} : judge'[k] = judge[k],
         calls' \in Bounds, UNCHANGED <<rows, grants, shelf, owed, backed, asking>>
  PROVE  DecisionIInv'
<1>0. /\ DecisionTypeOK /\ RowsAreKept /\ GrantsAreKept /\ EngineIsSure /\ CallsAreFine
      /\ judge \in [Judges -> CallRecords]
  BY DecisionTypes DEF DecisionIInv
<1>1. asking.for # j
  BY <1>0, DecisionAssumption DEF EngineIsSure
<1>2. CallsAreFine'
  <2>1. Fine(judge'[j], backed')
    BY DEF Fine
  <2> QED
    BY <1>0, <2>1, CallsStayFine
<1>3. DecisionTypeOK'
  BY <1>0, DecisionTypes, DecisionTypesNext
<1>4. GrantsAreKept' /\ EngineIsSure' /\ RowsAreKept'
  BY <1>0, <1>1, GrantsStayKept, StoreFields, EngineStaysSure, RowsStayKept
<1> QED
  BY <1>2, <1>3, <1>4 DEF DecisionIInv

\* The human reviews, lists or revokes; she hears; another decider asks.
LEMMA CallerStep ==
  ASSUME DecisionIInv, NEW j \in Judges,
         HumanHears(j) \/ \E w \in Works : HumanCalls(j, w) \/ OtherAsks(j, w)
  PROVE  DecisionIInv'
<1>0. judge \in [Judges -> CallRecords] /\ calls \in Bounds
  BY DecisionTypes DEF DecisionIInv
<1>1. CASE HumanHears(j)
  <2>1. /\ judge' = [judge EXCEPT ![j] = NoCall] /\ asking.for # j /\ calls' = calls
        /\ UNCHANGED <<rows, grants, shelf, owed, backed, asking>>
    BY <1>1 DEF HumanHears
  <2> QED
    BY <1>0, <2>1, ResetFacts, CallTurns
<1>2. ASSUME NEW w \in Works, HumanCalls(j, w) \/ OtherAsks(j, w)
      PROVE  DecisionIInv'
  <2>1. PICK does \in {"none", "decide", "list", "approve", "always", "revoke"},
             place \in {"expire", "review", "standing", "revoke"} :
          BeginCall(j, does, w, place)
    BY <1>2 DEF HumanCalls, OtherAsks
  <2>2. place \in Spots
    BY DEF Spots
  <2>3. /\ judge' \in [Judges -> CallRecords] /\ judge[j].at = "free"
        /\ judge'[j].at = place /\ judge'[j].work = w /\ judge'[j].says = "none"
        /\ \A k \in Judges \ {j} : judge'[k] = judge[k]
    BY <1>0, <2>1, <2>2, BeginFacts
  <2>4. calls' \in Bounds /\ UNCHANGED <<rows, grants, shelf, owed, backed, asking>>
    <3>1. CASE HumanCalls(j, w)
      <4> DEFINE mid == [calls EXCEPT !.made = @ - 1]
      <4>1. /\ calls.made > 0 /\ calls.reviews > 0
            /\ calls' = [mid EXCEPT !.reviews = calls.reviews - 1]
        BY <2>1, <3>1 DEF HumanCalls, BeginCall
      <4>2. mid \in Bounds /\ mid.reviews = calls.reviews
        BY <1>0, <4>1, DecisionAssumption DEF Bounds
      <4> HIDE DEF mid
      <4>3. calls' \in Bounds
        BY <4>1, <4>2, DecisionAssumption DEF Bounds
      <4> QED
        BY <3>1, <4>3 DEF HumanCalls
    <3>2. CASE OtherAsks(j, w)
      <4>1. calls.made > 0 /\ calls' = [calls EXCEPT !.made = @ - 1]
        BY <2>1, <3>2 DEF OtherAsks, BeginCall
      <4>2. calls' \in Bounds
        BY <1>0, <4>1, DecisionAssumption DEF Bounds
      <4> QED
        BY <3>2, <4>2 DEF OtherAsks
    <3> QED
      BY <1>2, <3>1, <3>2
  <2> QED
    BY <2>3, <2>4, CallTurns
<1> QED
  BY <1>1, <1>2

-----------------------------------------------------------------------------
(* The engine                                                                *)

\* The engine's state is rewritten, and what it keeps is allowed.
LEMMA EngineTurns ==
  ASSUME DecisionIInv, asking' \in Askings, calls' \in Bounds,
         judge' \in [Judges -> CallRecords], CallsAreFine',
         \A k \in Judges : judge'[k] = judge[k]
           \/ ~GrantsLocked(k)',
         asking'.for # NoJudge =>
           judge'[asking'.for].at # "free" /\ judge'[asking'.for].does = "decide",
         \A w \in Works : asking'.cache[w] = "auto" => Allowed(w, backed),
         ErrorsStopSensitiveWork', PassesAreBacked',
         UNCHANGED <<rows, grants, shelf, owed, backed>>
  PROVE  DecisionIInv'
<1>0. /\ DecisionTypeOK /\ RowsAreKept /\ GrantsAreKept /\ EngineIsSure /\ CallsAreFine
  BY DEF DecisionIInv
<1>1. DecisionTypeOK'
  BY <1>0, DecisionTypes, DecisionTypesNext
<1>2. RowsAreKept'
  BY <1>0, RowsStayKept
<1>3. GrantsAreKept'
  <2>1. \A k \in Judges : GrantsLocked(k)' => GrantsLocked(k) /\ judge'[k] = judge[k]
    BY DEF GrantsLocked
  <2> QED
    BY <1>0, <2>1 DEF GrantsAreKept, GrantsAre
<1>4. EngineIsSure'
  BY DEF EngineIsSure
<1> QED
  BY <1>1, <1>2, <1>3, <1>4 DEF DecisionIInv

\* What the engine makes of an answer.
LEMMA SettlesFacts ==
  ASSUME asking \in Askings, NEW w \in Works, NEW tier \in Sayings,
         NEW on \in {"auto", "error", "silence"}, EngineSettles(w, tier, on)
  PROVE  /\ asking' \in Askings /\ asking'.for = NoJudge /\ asking'.strict = asking.strict
         /\ \A v \in Works : asking'.cache[v] = "auto" =>
              asking.cache[v] = "auto" \/ (v = w /\ tier = "auto")
         /\ asking'.passed # NoPass =>
              /\ asking'.passed = [work |-> w, on |-> on]
              /\ tier = "auto" \/ (tier = "error" /\ FailOpen(w))
<1> DEFINE one == [asking EXCEPT !.for = NoJudge]
           mark == IF tier \in {"auto", "hard_stop"} THEN tier ELSE asking.cache[w]
           two == [one EXCEPT !.cache = [asking.cache EXCEPT ![w] = mark]]
           let == IF IF tier = "error" THEN FailOpen(w) ELSE tier = "auto"
                  THEN [work |-> w, on |-> on] ELSE NoPass
<1>1. /\ one \in Askings /\ one.for = NoJudge /\ one.strict = asking.strict
      /\ one.cache = asking.cache /\ asking.cache \in [Works -> {"none", "auto", "hard_stop"}]
  BY DEF Askings
<1>2. asking' = [two EXCEPT !.passed = let]
  BY <1>1 DEF EngineSettles
<1>3. mark \in {"none", "auto", "hard_stop"} /\ let \in Passes
  BY <1>1 DEF Passes, NoPass
<1>4. mark = "auto" => tier = "auto" \/ asking.cache[w] = "auto"
  OBVIOUS
<1>5. let # NoPass =>
        /\ let = [work |-> w, on |-> on]
        /\ tier = "auto" \/ (tier = "error" /\ FailOpen(w))
  OBVIOUS
<1> HIDE DEF one, mark, let
<1>6. /\ two \in Askings /\ two.for = NoJudge /\ two.strict = asking.strict
      /\ two.cache = [asking.cache EXCEPT ![w] = mark]
  BY <1>1, <1>3 DEF Askings
<1> HIDE DEF two
<1>7. /\ asking' \in Askings /\ asking'.for = NoJudge /\ asking'.strict = asking.strict
      /\ asking'.cache = [asking.cache EXCEPT ![w] = mark] /\ asking'.passed = let
  BY <1>2, <1>3, <1>6 DEF Askings
<1>8. \A v \in Works : asking'.cache[v] = "auto" =>
        asking.cache[v] = "auto" \/ (v = w /\ tier = "auto")
  BY <1>1, <1>4, <1>7
<1> QED
  BY <1>5, <1>7, <1>8

\* The engine hears, or gives up.
LEMMA EngineHearsStep ==
  ASSUME DecisionIInv, NEW j \in Judges, EngineHears(j) \/ EngineGivesUp(j)
  PROVE  DecisionIInv'
<1>0. /\ EngineIsSure /\ CallsAreFine /\ judge \in [Judges -> CallRecords]
      /\ judge[j] \in CallRecords /\ asking \in Askings /\ calls \in Bounds
      /\ Fine(judge[j], backed)
  BY DecisionTypes DEF DecisionIInv, CallsAreFine
<1>1. /\ asking.for = j /\ judge' = [judge EXCEPT ![j] = NoCall]
      /\ UNCHANGED <<rows, grants, shelf, owed, backed, calls>>
  BY DEF EngineHears, EngineGivesUp
<1>2. judge[j].at # "free" /\ judge[j].does = "decide" /\ judge[j].work \in Works
  BY <1>0, <1>1, DecisionAssumption DEF EngineIsSure, Fine
<1>3. PICK tier \in Sayings, on \in {"auto", "error", "silence"} :
        /\ EngineSettles(judge[j].work, tier, on)
        /\ \/ tier = judge[j].says /\ on = (IF tier = "error" THEN "error" ELSE "auto")
           \/ tier = "error" /\ on = "silence"
  <2>1. CASE EngineHears(j)
    <3>1. judge[j].says \in Sayings
      BY <1>0, CallIsTyped
    <3> QED
      BY <2>1, <3>1 DEF EngineHears
  <2>2. CASE EngineGivesUp(j)
    BY <2>2 DEF EngineGivesUp, Sayings
  <2> QED
    BY <2>1, <2>2
<1> DEFINE w == judge[j].work
<1>4. tier = "auto" => Allowed(w, backed)
  BY <1>0, <1>2, <1>3 DEF Fine
<1>5. on = "error" => w \notin Sensitive
  BY <1>0, <1>2, <1>3 DEF Fine
<1>6. on = "auto" => tier # "error"
  BY <1>3
<1>7. /\ asking' \in Askings /\ asking'.for = NoJudge /\ asking'.strict = asking.strict
      /\ \A v \in Works : asking'.cache[v] = "auto" =>
           asking.cache[v] = "auto" \/ (v = w /\ tier = "auto")
      /\ asking'.passed # NoPass =>
           /\ asking'.passed = [work |-> w, on |-> on]
           /\ tier = "auto" \/ (tier = "error" /\ FailOpen(w))
  BY <1>0, <1>2, <1>3, SettlesFacts
<1>8. \A v \in Works : asking'.cache[v] = "auto" => Allowed(v, backed)
  BY <1>0, <1>4, <1>7 DEF EngineIsSure
<1>9. ErrorsStopSensitiveWork' /\ PassesAreBacked'
  <2>1. CASE asking'.passed = NoPass
    BY <2>1 DEF NoPass, ErrorsStopSensitiveWork, PassesAreBacked
  <2>2. CASE asking'.passed # NoPass
    <3>1. /\ asking'.passed.work = w /\ asking'.passed.on = on
          /\ tier = "auto" \/ (tier = "error" /\ FailOpen(w))
      BY <1>7, <2>2
    <3>2. ErrorsStopSensitiveWork'
      BY <1>5, <3>1 DEF ErrorsStopSensitiveWork
    <3>3. CASE tier = "auto"
      BY <1>1, <1>4, <3>1, <3>2, <3>3 DEF PassesAreBacked, Allowed
    <3>4. CASE tier = "error" /\ FailOpen(w)
      BY <1>6, <1>7, <3>1, <3>2, <3>4 DEF PassesAreBacked, FailOpen
    <3> QED
      BY <3>1, <3>3, <3>4
  <2> QED
    BY <2>1, <2>2
<1>10. /\ judge' \in [Judges -> CallRecords]
       /\ judge'[j].at = "free" /\ judge'[j].does = "none" /\ judge'[j].says = "none"
       /\ \A k \in Judges \ {j} : judge'[k] = judge[k]
  BY <1>0, <1>1, ResetFacts
<1>11. CallsAreFine'
  <2>1. Fine(judge'[j], backed')
    BY <1>10 DEF Fine
  <2> QED
    BY <1>0, <1>1, <1>10, <2>1, CallsStayFine
<1>12. \A k \in Judges : judge'[k] = judge[k] \/ ~GrantsLocked(k)'
  BY <1>10 DEF GrantsLocked
<1> QED
  BY <1>0, <1>1, <1>7, <1>8, <1>9, <1>10, <1>11, <1>12, EngineTurns

\* The engine asks, or a cached answer ends.
LEMMA EngineAsksStep ==
  ASSUME DecisionIInv, NEW w \in Works,
         CacheEnds(w) \/ \E j \in Judges : EngineAsks(j, w)
  PROVE  DecisionIInv'
<1>0. /\ EngineIsSure /\ CallsAreFine /\ judge \in [Judges -> CallRecords]
      /\ asking \in Askings /\ calls \in Bounds
      /\ asking.cache \in [Works -> {"none", "auto", "hard_stop"}]
  BY DecisionTypes, StoreFields DEF DecisionIInv
<1>1. CASE CacheEnds(w)
  <2> DEFINE mid == [asking EXCEPT !.cache = [asking.cache EXCEPT ![w] = "none"]]
  <2>1. /\ mid \in Askings /\ mid.for = asking.for
        /\ mid.cache = [asking.cache EXCEPT ![w] = "none"]
    BY <1>0 DEF Askings
  <2>2. asking' = [mid EXCEPT !.passed = NoPass]
    BY <1>1 DEF CacheEnds
  <2>3. NoPass \in Passes
    BY DEF NoPass, Passes
  <2> HIDE DEF mid
  <2>4. /\ asking' \in Askings /\ asking'.for = asking.for /\ asking'.passed = NoPass
        /\ asking'.cache = [asking.cache EXCEPT ![w] = "none"]
    BY <2>1, <2>2, <2>3 DEF Askings
  <2>5. UNCHANGED <<rows, grants, shelf, judge, owed, backed, calls>>
    BY <1>1 DEF CacheEnds
  <2>6. ErrorsStopSensitiveWork' /\ PassesAreBacked'
    BY <2>4 DEF NoPass, ErrorsStopSensitiveWork, PassesAreBacked
  <2>7. \A v \in Works : asking'.cache[v] = "auto" => Allowed(v, backed)
    BY <1>0, <2>4 DEF EngineIsSure
  <2>8. CallsAreFine'
    BY <1>0, <2>5 DEF CallsAreFine
  <2>9. asking'.for # NoJudge =>
          judge'[asking'.for].at # "free" /\ judge'[asking'.for].does = "decide"
    BY <1>0, <2>4, <2>5 DEF EngineIsSure
  <2> QED
    BY <1>0, <2>4, <2>5, <2>6, <2>7, <2>8, <2>9, EngineTurns
<1>2. ASSUME NEW j \in Judges, EngineAsks(j, w)
      PROVE  DecisionIInv'
  <2>0. asking.for = NoJudge /\ UNCHANGED <<rows, grants, shelf, owed, backed>>
    BY <1>2 DEF EngineAsks
  <2>1. CASE asking.cache[w] # "none"
    <3> DEFINE let == IF asking.cache[w] = "auto" THEN [work |-> w, on |-> "cache"] ELSE NoPass
    <3>1. asking' = [asking EXCEPT !.passed = let] /\ UNCHANGED <<judge, calls>>
      BY <1>2, <2>1 DEF EngineAsks
    <3>2. let \in Passes
      BY DEF Passes, NoPass
    <3>3. let.on # "error" /\ (let.work # NoAsk => let.work = w /\ asking.cache[w] = "auto")
      BY DEF NoPass
    <3> HIDE DEF let
    <3>4. /\ asking' \in Askings /\ asking'.for = NoJudge /\ asking'.passed = let
          /\ asking'.cache = asking.cache
      BY <1>0, <2>0, <3>1, <3>2 DEF Askings
    <3>5. ErrorsStopSensitiveWork' /\ PassesAreBacked'
      BY <1>0, <2>0, <3>3, <3>4
         DEF ErrorsStopSensitiveWork, PassesAreBacked, EngineIsSure, Allowed
    <3>6. \A v \in Works : asking'.cache[v] = "auto" => Allowed(v, backed)
      BY <1>0, <3>4 DEF EngineIsSure
    <3>7. CallsAreFine'
      BY <1>0, <2>0, <3>1 DEF CallsAreFine
    <3> QED
      BY <1>0, <2>0, <3>1, <3>4, <3>5, <3>6, <3>7, EngineTurns
  <2>2. CASE asking.cache[w] = "none"
    <3> DEFINE mid == [asking EXCEPT !.for = j]
    <3>1. /\ BeginCall(j, "decide", w, "expire") /\ calls.made > 0
          /\ asking' = [mid EXCEPT !.passed = NoPass]
          /\ calls' = [calls EXCEPT !.made = @ - 1]
      BY <1>2, <2>2 DEF EngineAsks, BeginCall
    <3>2. mid \in Askings /\ mid.for = j /\ mid.cache = asking.cache /\ NoPass \in Passes
      BY <1>0 DEF Askings, NoPass, Passes
    <3> HIDE DEF mid
    <3>3. /\ asking' \in Askings /\ asking'.for = j /\ asking'.passed = NoPass
          /\ asking'.cache = asking.cache
      BY <3>1, <3>2 DEF Askings
    <3>4. calls' \in Bounds
      BY <1>0, <3>1, DecisionAssumption DEF Bounds
    <3>5. /\ judge' \in [Judges -> CallRecords]
          /\ judge'[j].at = "expire" /\ judge'[j].does = "decide"
          /\ judge'[j].work = w /\ judge'[j].says = "none"
          /\ \A k \in Judges \ {j} : judge'[k] = judge[k]
      BY <1>0, <3>1, BeginFacts DEF Spots
    <3>6. ErrorsStopSensitiveWork' /\ PassesAreBacked'
      BY <3>3 DEF NoPass, ErrorsStopSensitiveWork, PassesAreBacked
    <3>7. \A v \in Works : asking'.cache[v] = "auto" => Allowed(v, backed)
      BY <1>0, <3>3 DEF EngineIsSure
    <3>8. CallsAreFine'
      <4>1. Fine(judge'[j], backed')
        BY <3>5 DEF Fine
      <4> QED
        BY <1>0, <2>0, <3>5, <4>1, CallsStayFine
    <3>9. \A k \in Judges : judge'[k] = judge[k] \/ ~GrantsLocked(k)'
      BY <3>5 DEF GrantsLocked
    <3> QED
      BY <2>0, <3>3, <3>4, <3>5, <3>6, <3>7, <3>8, <3>9, EngineTurns
  <2> QED
    BY <2>1, <2>2
<1> QED
  BY <1>1, <1>2

-----------------------------------------------------------------------------
(* Together                                                                  *)

\* Every step keeps what is known of the calls and the two stores.
LEMMA DecisionStays ==
  ASSUME DecisionIInv, [DecisionNext]_decisionVars
  PROVE  DecisionIInv'
<1>1. CASE DecisionNext
  <2>1. ASSUME NEW j \in Judges,
               \/ Reconcile(j) \/ Consume(j) \/ LoadGrants(j) \/ MoveGrants(j) \/ EnqueueRow(j)
               \/ ReviewRow(j) \/ LoadLocked(j) \/ SaveLocked(j) \/ Push(j)
               \/ LockTimesOut(j)
        PROVE  DecisionIInv'
    BY <2>1, ReconcileStep, ConsumeStep, LoadGrantsStep, MoveGrantsStep, EnqueueRowStep,
       ReviewRowStep, LoadLockedStep, SaveLockedStep, PushStep, LockTimesOutStep
  <2>2. ASSUME NEW j \in Judges,
               \/ HumanHears(j) \/ EngineHears(j) \/ EngineGivesUp(j)
               \/ \E w \in Works : HumanCalls(j, w) \/ EngineAsks(j, w) \/ OtherAsks(j, w)
        PROVE  DecisionIInv'
    BY <2>2, CallerStep, EngineHearsStep, EngineAsksStep
  <2> QED
    BY <1>1, <2>1, <2>2, GarbleStep, EngineAsksStep DEF DecisionNext
<1>2. CASE UNCHANGED decisionVars
  BY <1>2 DEF decisionVars, DecisionIInv, DecisionTypeOK, CallsAreFine, RowsAreKept,
              GrantsAreKept, GrantsAre, GrantsLocked, EngineIsSure,
              ErrorsStopSensitiveWork, PassesAreBacked
<1> QED
  BY <1>1, <1>2

\* Whatever is decided, reviewed, misread and moved beside each other, by any number
\* of processes: no answer of the human's is lost with the first bad file, no grant
\* she revoked comes back, an error of the engine frees nothing sensitive, and
\* what is left to her passes after her answer only (bushido_engine.py,
\* bushido_check.py, reflex-engine.ts).
THEOREM DecisionsAreKept == DecisionSpec => []DecisionInv
<1>1. DecisionIInv => DecisionInv
  BY DEF DecisionIInv, DecisionInv, RowsAreKept, GrantsAreKept, GrantsAre, EngineIsSure,
         OneMisreadLosesNothing, RevokedStaysRevoked
<1> QED
  BY <1>1, DecisionStarts, DecisionStays, PTL DEF DecisionSpec

-----------------------------------------------------------------------------
(* StrictCall                                                              *)

USE StrictLimitAssumption

\* main joins the threads only after the child has gone, and is over exactly
\* when the call has an ending.
MainIsOrdered ==
  /\ main \in {"joinReader", "joinWriter"} => child /= "running"
  /\ main = "over" <=> ending /= "none"

\* A reader that ended without a complaint saw the end of a closed pipe.
QuietReaderSawTheEnd ==
  reader = "ended" /\ failures = << >> => pipe = 0 /\ child /= "running"

StrictIInv == StrictInv /\ MainIsOrdered /\ QuietReaderSawTheEnd

\* A call that begins has nothing to answer for.
LEMMA StrictStart == StrictInit => StrictIInv
<1> SUFFICES ASSUME StrictInit PROVE StrictIInv
  OBVIOUS
<1>1. StrictTypeOK
  <2>1. failures \in Seq(Kinds)
    BY DEF StrictInit
  <2>2. output \in 0 .. StrictLimit /\ pipe \in 0 .. 2
    BY DEF StrictInit
  <2> QED  BY <2>1, <2>2 DEF StrictInit, StrictTypeOK
<1>2. ReplyIsWhole /\ ChildIsGone
  BY DEF StrictInit, ReplyIsWhole, ChildIsGone
<1>3. MainIsOrdered /\ QuietReaderSawTheEnd
  BY DEF StrictInit, MainIsOrdered, QuietReaderSawTheEnd
<1> QED  BY <1>1, <1>2, <1>3 DEF StrictIInv, StrictInv

\* The child writes, and ends.
LEMMA ChildKeeps ==
  ASSUME StrictIInv, ChildWrites \/ ChildExits
  PROVE  StrictIInv'
<1> USE DEF StrictIInv, StrictInv, StrictTypeOK, ReplyIsWhole, ChildIsGone,
            MainIsOrdered, QuietReaderSawTheEnd
<1>1. CASE ChildWrites
  BY <1>1 DEF ChildWrites
<1>2. CASE ChildExits
  BY <1>2 DEF ChildExits, threads
<1> QED  BY <1>1, <1>2

\* The two threads read, complain and end.
LEMMA ThreadsKeep ==
  ASSUME StrictIInv, StrictThreads
  PROVE  StrictIInv'
<1> USE DEF StrictIInv, StrictInv, StrictTypeOK, ReplyIsWhole, ChildIsGone,
            MainIsOrdered, QuietReaderSawTheEnd
<1>1. ASSUME NEW kind \in Kinds, failures' = Append(failures, kind)
      PROVE  failures' \in Seq(Kinds) /\ failures' /= << >>
  BY <1>1
<1>2. CASE ReaderReads
  <2>1. Killed \in {"done", "failed"} /\ (child /= "running" => Killed = child)
    BY DEF Killed
  <2>2. CASE output + 1 > StrictLimit
    BY <1>1, <1>2, <2>1, <2>2 DEF ReaderReads, Kinds
  <2>3. CASE ~(output + 1 > StrictLimit)
    BY <1>2, <2>3 DEF ReaderReads
  <2> QED  BY <2>2, <2>3
<1>3. CASE ReaderEnds
  BY <1>3 DEF ReaderEnds, PipesClosed
<1>4. CASE WriterEnds
  <2>1. CASE UNCHANGED failures
    BY <1>4, <2>1 DEF WriterEnds
  <2>2. CASE failures' = Append(failures, "unavailable")
    BY <1>1, <1>4, <2>2 DEF WriterEnds, Kinds
  <2> QED  BY <1>4, <2>1, <2>2 DEF WriterEnds
<1> QED  BY <1>2, <1>3, <1>4 DEF StrictThreads

\* main waits, joins the threads and settles the call.
LEMMA MainKeeps ==
  ASSUME StrictIInv, StrictMain
  PROVE  StrictIInv'
<1> USE DEF StrictIInv, StrictInv, StrictTypeOK, ReplyIsWhole, ChildIsGone,
            MainIsOrdered, QuietReaderSawTheEnd
<1>1. CASE Waits
  BY <1>1 DEF Waits, MoveTo, threads
<1>2. CASE JoinsReader
  BY <1>2 DEF JoinsReader, MoveTo, threads
<1>3. CASE JoinsWriter
  <2>1. CASE reader = "alive" \/ writer = "alive"
    BY <1>3, <2>1 DEF JoinsWriter, MoveTo, threads
  <2>2. CASE reader = "ended" /\ writer = "ended"
    <3>1. PICK kind \in Endings : End(kind) /\ UNCHANGED child
      BY <1>3, <2>2 DEF JoinsWriter
    <3>2. /\ kind \in {"reply"} \union Kinds
          /\ kind = "reply" => failures = << >> /\ child = "done"
      <4>1. CASE failures /= << >>
        BY <4>1 DEF Endings, Kinds
      <4>2. CASE failures = << >>
        BY <1>3, <4>2 DEF Endings, Kinds, JoinsWriter
      <4> QED  BY <4>1, <4>2
    <3>3. main = "joinWriter"
      BY <1>3 DEF JoinsWriter
    <3> QED  BY <2>2, <3>1, <3>2, <3>3 DEF End, threads, Kinds
  <2> QED  BY <2>1, <2>2
<1>4. CASE Stops
  <2>1. Killed \in {"done", "failed"}
    BY DEF Killed
  <2> QED  BY <1>4, <2>1 DEF Stops, End, threads, Kinds
<1> QED  BY <1>1, <1>2, <1>3, <1>4 DEF StrictMain

\* Every step keeps the invariant.
LEMMA StrictStep == StrictIInv /\ [StrictNext]_strictVars => StrictIInv'
<1> SUFFICES ASSUME StrictIInv, [StrictNext]_strictVars PROVE StrictIInv'
  OBVIOUS
<1>1. CASE Deadline
  BY <1>1 DEF Deadline, threads, StrictIInv, StrictInv, StrictTypeOK, ReplyIsWhole,
     ChildIsGone, MainIsOrdered, QuietReaderSawTheEnd
<1>2. CASE UNCHANGED strictVars
  BY <1>2 DEF strictVars, StrictIInv, StrictInv, StrictTypeOK, ReplyIsWhole,
     ChildIsGone, MainIsOrdered, QuietReaderSawTheEnd
<1> QED  BY <1>1, <1>2, ChildKeeps, ThreadsKeep, MainKeeps DEF StrictNext

\* Whichever of the deadline, the output limit, a thread's complaint and the
\* child's own end comes first: a reply is everything the child wrote, read by
\* a reader that saw the end, and the child is gone unless the kernel kept it
\* (agentica_core/llm/gateway.py, generate_strict).
THEOREM StrictCallIsWhole == StrictSpec => []StrictInv
<1>1. StrictIInv => StrictInv
  BY DEF StrictIInv
<1> QED  BY <1>1, StrictStart, StrictStep, PTL DEF StrictSpec

-----------------------------------------------------------------------------
(* ChainLedger                                                             *)

USE BoundsAssumption, NoneAssumption

\* In the lock of its caller a writer is the only one at work.
OneAtWork ==
  serialised => \A w \in Writers : appender[w].pc \notin {"idle", "dead"} => outer = w

\* While the disk takes everything every line is a row, and each is the next
\* one of its chain.
Unbroken ==
  /\ torn = 0 => \A n \in DOMAIN log : log[n].kind = "row"
  /\ serialised /\ torn = 0 => Verify

\* What a writer is about to append follows the last row.
Follows(w) ==
  /\ appender[w].seq = Len(log) + 1
  /\ appender[w].prev = PrevHash(Len(log) + 1)

NextRowIsKnown ==
  serialised /\ torn = 0 =>
    \A w \in Writers : appender[w].pc = "write" => Follows(w)

\* Every line ever written is there, in order, or a line is spoilt for good.
CompleteOrSpoilt ==
  \/ \E n \in DOMAIN log : ~Parses(log[n])
  \/ Len(log) = written /\ \A n \in DOMAIN log : log[n].hash = n

ChainIInv == TypeOK /\ OneAtWork /\ Unbroken /\ NextRowIsKnown /\ CompleteOrSpoilt

\* What the run checks follows.
LEMMA ChainFollows == ChainIInv => ChainInv
<1> SUFFICES ASSUME ChainIInv PROVE ChainInv
  OBVIOUS
<1>1. ChainVerifies
  BY DEF ChainIInv, Unbroken, ChainVerifies
<1>2. VerifiedIsComplete
  BY DEF ChainIInv, CompleteOrSpoilt, VerifiedIsComplete, Verify
<1> QED  BY <1>1, <1>2 DEF ChainIInv, ChainInv

\* An empty log is whole.
LEMMA ChainStart == ChainInit => ChainIInv
<1> SUFFICES ASSUME ChainInit PROVE ChainIInv
  OBVIOUS
<1>1. At("idle") \in WriterState /\ At("idle").pc = "idle"
  BY DEF At, WriterState
<1>2. NoLock \in Lock
  BY DEF NoLock, Lock
<1>3. log \in Seq(Line) /\ Len(log) = 0 /\ DOMAIN log = {}
  BY DEF ChainInit
<1>4. TypeOK
  BY <1>1, <1>2, <1>3 DEF ChainInit, TypeOK
<1>5. \A w \in Writers : appender[w].pc = "idle"
  BY <1>1 DEF ChainInit
<1>6. OneAtWork /\ NextRowIsKnown
  BY <1>5 DEF OneAtWork, NextRowIsKnown
<1>7. Unbroken
  BY <1>3 DEF Unbroken, Verify
<1>8. CompleteOrSpoilt
  BY <1>3 DEF ChainInit, CompleteOrSpoilt
<1> QED  BY <1>4, <1>6, <1>7, <1>8 DEF ChainIInv

\* What a step leaves alone when it neither reads nor writes the log: a writer
\* moves, and gives its caller's lock back if it ends.
Walks(w, to) ==
  /\ UNCHANGED <<serialised, log, written>>
  /\ torn' \in {torn, torn + 1} /\ torn' \in 0 .. MaxTorn
  /\ to \in WriterState /\ to.pc /= "write"
  /\ appender' = [appender EXCEPT ![w] = to]
  /\ \/ /\ outer' = outer
        /\ to.pc \in {"idle", "dead"} \/ appender[w].pc \notin {"idle", "dead"}
     \/ outer' = Freed(w) /\ to.pc \in {"idle", "dead"}

\* Such a step keeps the invariant.
LEMMA WalkKeeps ==
  ASSUME ChainIInv, NEW w \in Writers, NEW to, Walks(w, to),
         lock' \in Lock, deaths' \in 0 .. MaxDeaths
  PROVE  ChainIInv'
<1> USE DEF ChainIInv
<1>1. \A v \in Writers : appender'[v] = IF v = w THEN to ELSE appender[v]
  BY DEF TypeOK, Walks
<1>2. TypeOK'
  BY DEF TypeOK, Walks, Freed
<1>3. OneAtWork'
  BY <1>1 DEF OneAtWork, Walks, Freed
<1>4. torn' = 0 => torn = 0
  BY DEF Walks, TypeOK
<1>5. Unbroken'
  BY <1>4 DEF Unbroken, Verify, PrevHash, Parses, Walks
<1>6. NextRowIsKnown'
  BY <1>1, <1>4 DEF NextRowIsKnown, Follows, PrevHash, Walks
<1>7. CompleteOrSpoilt'
  BY DEF CompleteOrSpoilt, Parses, Walks
<1> QED  BY <1>2, <1>3, <1>5, <1>6, <1>7

\* At(pc) is a place.
LEMMA AtType ==
  \A pc \in {"idle", "open", "stat", "judge", "reclaim", "stamp", "read", "write",
             "unlock", "dead"} :
    At(pc) \in WriterState /\ At(pc).pc = pc
  BY DEF At, WriterState

\* The steps on the lock file.
LEMMA LockKeeps ==
  ASSUME ChainIInv, NEW w \in Writers,
         \/ OpenLock(w) \/ StatLock(w) \/ JudgeLock(w) \/ ReclaimLock(w)
         \/ StampPid(w) \/ StampFails(w) \/ ReleaseLock(w) \/ Dies(w) \/ BeginAppend(w)
  PROVE  ChainIInv'
<1>1. /\ TypeOK /\ appender[w] \in WriterState
      /\ lock \in Lock /\ torn \in 0 .. MaxTorn /\ deaths \in 0 .. MaxDeaths
  BY DEF ChainIInv, TypeOK
<1>2. NoLock \in Lock
  BY DEF NoLock, Lock
<1>3. ASSUME NEW from,
             NEW to \in {"idle", "open", "stat", "judge", "reclaim", "stamp", "read",
                         "unlock", "dead"},
             Moves(w, from, to)
      PROVE  /\ appender' = [appender EXCEPT ![w] = At(to)] /\ appender[w].pc = from
             /\ At(to) \in WriterState /\ At(to).pc = to
  BY <1>3, AtType DEF Moves
<1>4. CASE OpenLock(w)
  <2>1. lock' \in Lock
    <3>1. [by |-> w, pid |-> FALSE, old |-> FALSE] \in Lock
      BY DEF Lock
    <3> QED  BY <1>1, <1>4, <3>1 DEF OpenLock
  <2>2. PICK to \in {"stamp", "stat"} : Moves(w, "open", to)
    BY <1>4 DEF OpenLock
  <2>3. Walks(w, At(to))
    BY <1>1, <1>3, <1>4, <2>2 DEF OpenLock, Walks
  <2> QED  BY <1>1, <1>4, <2>1, <2>3, WalkKeeps DEF OpenLock
<1>5. ASSUME Refused(w), appender[w].pc \in {"stat", "judge"},
             UNCHANGED <<serialised, lock, log, written, deaths, torn>>
      PROVE  ChainIInv'
  <2>1. PICK pc \in {"open", "idle"} :
          /\ appender' = [appender EXCEPT ![w].pc = pc]
          /\ pc = "open" => UNCHANGED outer
          /\ pc = "idle" => outer' = Freed(w)
    BY <1>5 DEF Refused
  <2> DEFINE to == [appender[w] EXCEPT !.pc = pc]
  <2>2. to \in WriterState /\ to.pc = pc /\ appender' = [appender EXCEPT ![w] = to]
    BY <1>1, <2>1 DEF WriterState
  <2> HIDE DEF to
  <2>3. Walks(w, to)
    BY <1>1, <1>5, <2>1, <2>2 DEF Walks
  <2> QED  BY <1>1, <1>5, <2>3, WalkKeeps
<1>6. CASE StatLock(w)
  <2>1. CASE Refused(w)
    BY <1>5, <1>6, <2>1 DEF StatLock
  <2>2. CASE (Moves(w, "stat", "open") \/ Moves(w, "stat", "judge")) /\ UNCHANGED outer
    <3>1. PICK to \in {"open", "judge"} : Moves(w, "stat", to)
      BY <2>2
    <3>2. Walks(w, At(to))
      BY <1>1, <1>3, <1>6, <2>2, <3>1 DEF StatLock, Walks
    <3> QED  BY <1>1, <1>6, <3>2, WalkKeeps DEF StatLock
  <2> QED  BY <1>6, <2>1, <2>2 DEF StatLock
<1>7. CASE JudgeLock(w)
  <2>1. CASE Refused(w)
    BY <1>5, <1>7, <2>1 DEF JudgeLock
  <2>2. CASE Moves(w, "judge", "reclaim") /\ UNCHANGED outer
    <3>1. Walks(w, At("reclaim"))
      BY <1>1, <1>3, <1>7, <2>2 DEF JudgeLock, Walks
    <3> QED  BY <1>1, <1>7, <3>1, WalkKeeps DEF JudgeLock
  <2> QED  BY <1>7, <2>1, <2>2 DEF JudgeLock
<1>8. CASE ReclaimLock(w)
  <2>1. Walks(w, At("open"))
    BY <1>1, <1>3, <1>8 DEF ReclaimLock, Walks
  <2> QED  BY <1>1, <1>2, <1>8, <2>1, WalkKeeps DEF ReclaimLock
<1>9. CASE StampPid(w)
  <2>1. lock' \in Lock
    BY <1>1, <1>9 DEF StampPid, Lock
  <2>2. Walks(w, At("read"))
    BY <1>1, <1>3, <1>9 DEF StampPid, Walks
  <2> QED  BY <1>1, <1>9, <2>1, <2>2, WalkKeeps DEF StampPid
<1>10. CASE StampFails(w)
  <2>1. Walks(w, At("idle"))
    BY <1>1, <1>3, <1>10 DEF StampFails, Walks
  <2> QED  BY <1>1, <1>10, <2>1, WalkKeeps DEF StampFails
<1>11. CASE ReleaseLock(w)
  <2>1. Walks(w, At("idle"))
    BY <1>1, <1>3, <1>11 DEF ReleaseLock, Walks
  <2> QED  BY <1>1, <1>2, <1>11, <2>1, WalkKeeps DEF ReleaseLock
<1>12. CASE Dies(w)
  <2>1. Walks(w, At("dead"))
    BY <1>1, <1>12, AtType DEF Dies, Walks
  <2>2. deaths' \in 0 .. MaxDeaths
    BY <1>1, <1>12 DEF Dies
  <2> QED  BY <1>1, <1>12, <2>1, <2>2, WalkKeeps DEF Dies
<1>13. CASE BeginAppend(w)
  <2>1. /\ appender' = [appender EXCEPT ![w] = At("open")]
        /\ At("open") \in WriterState /\ At("open").pc = "open"
    BY <1>3, <1>13 DEF BeginAppend
  <2>2. \A v \in Writers : appender'[v] = IF v = w THEN At("open") ELSE appender[v]
    BY <1>1, <2>1 DEF TypeOK
  <2>3. UNCHANGED <<serialised, lock, log, written, deaths, torn>>
    BY <1>13 DEF BeginAppend
  <2>4. TypeOK'
    BY <1>1, <1>13, <2>1, <2>3 DEF BeginAppend, TypeOK
  <2>5. OneAtWork'
    <3>1. serialised => outer = None /\ outer' = w
      BY <1>13 DEF BeginAppend
    <3>2. serialised => \A v \in Writers : appender[v].pc \in {"idle", "dead"}
      BY <3>1 DEF ChainIInv, OneAtWork
    <3> QED  BY <2>1, <2>2, <2>3, <3>1, <3>2 DEF OneAtWork
  <2>6. Unbroken' /\ CompleteOrSpoilt'
    BY <2>3 DEF ChainIInv, Unbroken, Verify, PrevHash, Parses, CompleteOrSpoilt
  <2>7. NextRowIsKnown'
    BY <2>1, <2>2, <2>3 DEF ChainIInv, NextRowIsKnown, Follows, PrevHash
  <2> QED  BY <2>4, <2>5, <2>6, <2>7 DEF ChainIInv
<1> QED
  BY <1>4, <1>6, <1>7, <1>8, <1>9, <1>10, <1>11, <1>12, <1>13

\* The line _read_last_row finds, when every line is a row of the chain.
LEMMA LastRowIsLast ==
  ASSUME log \in Seq(Line), Parseable = DOMAIN log, log /= << >>
  PROVE  LastRow = Len(log)
<1>1. Len(log) \in DOMAIN log /\ \A m \in DOMAIN log : m <= Len(log)
  OBVIOUS
<1>2. \A n \in DOMAIN log : (\A m \in DOMAIN log : m <= n) => n = Len(log)
  BY <1>1
<1> QED  BY <1>1, <1>2 DEF LastRow

\* _read_last_row finds what the next row follows.
LEMMA ReadKeeps ==
  ASSUME ChainIInv, NEW w \in Writers, ReadLastRow(w) \/ AppendRaises(w)
  PROVE  ChainIInv'
<1>1. TypeOK /\ appender[w].pc \in {"read", "write"} /\ appender[w] \in WriterState
  BY DEF ChainIInv, TypeOK, ReadLastRow, AppendRaises
<1>2. UNCHANGED <<serialised, lock, log, outer, written, deaths, torn>>
  BY DEF ReadLastRow, AppendRaises
<1>3. CASE AppendRaises(w)
  <2>1. Walks(w, At("unlock"))
    BY <1>1, <1>2, <1>3, AtType DEF AppendRaises, Walks, TypeOK
  <2> QED  BY <1>1, <1>2, <2>1, WalkKeeps DEF TypeOK
<1>4. CASE ReadLastRow(w)
  <2>1. PICK me : /\ appender' = [appender EXCEPT ![w] = me]
                  /\ me = IF Parseable = {} THEN [pc |-> "write", seq |-> 1, prev |-> 0]
                          ELSE [pc |-> "write", seq |-> log[LastRow].seq + 1,
                                prev |-> log[LastRow].hash]
    BY <1>4 DEF ReadLastRow
  <2>2. ASSUME Parseable /= {} PROVE log[LastRow] \in Line
    <3>1. Parseable \subseteq 0 .. Len(log) /\ Len(log) \in Nat
      BY <1>1 DEF Parseable, TypeOK
    <3>2. \E n \in Parseable : \A m \in Parseable : m <= n
      BY <2>2, <3>1, GreatestExists
    <3>3. LastRow \in Parseable
      BY <3>2 DEF LastRow
    <3> QED  BY <1>1, <3>3 DEF Parseable, TypeOK
  <2>3. me \in WriterState /\ me.pc = "write"
    <3>1. CASE Parseable = {}
      BY <2>1, <3>1 DEF WriterState
    <3>2. CASE Parseable /= {}
      <4>1. log[LastRow].seq + 1 \in Nat /\ log[LastRow].hash \in Nat
        BY <2>2, <3>2 DEF Line
      <4> QED  BY <2>1, <3>2, <4>1 DEF WriterState
    <3> QED  BY <3>1, <3>2
  <2>4. \A v \in Writers : appender'[v] = IF v = w THEN me ELSE appender[v]
    BY <1>1, <2>1 DEF TypeOK
  <2>5. TypeOK'
    BY <1>1, <1>2, <2>1, <2>3 DEF TypeOK
  <2>6. OneAtWork'
    BY <1>1, <1>2, <2>3, <2>4 DEF ChainIInv, OneAtWork
  <2>7. Unbroken' /\ CompleteOrSpoilt'
    BY <1>2 DEF ChainIInv, Unbroken, Verify, PrevHash, Parses, CompleteOrSpoilt
  <2>8. ASSUME serialised, torn = 0
        PROVE  me.seq = Len(log) + 1 /\ me.prev = PrevHash(Len(log) + 1)
    <3>1. Verify /\ Parseable = DOMAIN log /\ log \in Seq(Line)
      BY <1>1, <2>8 DEF ChainIInv, Unbroken, Verify, Parseable, TypeOK
    <3>2. CASE log = << >>
      <4>1. Parseable = {} /\ Len(log) = 0
        BY <3>1, <3>2
      <4> QED  BY <2>1, <4>1 DEF PrevHash
    <3>3. CASE log /= << >>
      <4>1. LastRow = Len(log) /\ Len(log) \in DOMAIN log /\ Len(log) \in Nat
        BY <3>1, <3>3, LastRowIsLast
      <4>2. log[LastRow].seq = Len(log)
        BY <3>1, <4>1 DEF Verify
      <4>3. me.seq = Len(log) + 1 /\ me.prev = log[Len(log)].hash
        BY <2>1, <3>1, <4>1, <4>2
      <4> QED  BY <4>1, <4>3 DEF PrevHash
    <3> QED  BY <3>2, <3>3
  <2>9. NextRowIsKnown'
    <3> SUFFICES ASSUME serialised, torn = 0, NEW v \in Writers,
                        appender'[v].pc = "write"
                 PROVE  Follows(v)'
      BY <1>2 DEF NextRowIsKnown
    <3>1. Follows(v)' <=> /\ appender'[v].seq = Len(log) + 1
                          /\ appender'[v].prev = PrevHash(Len(log) + 1)
      BY <1>2 DEF Follows, PrevHash
    <3>2. CASE v = w
      BY <2>4, <2>8, <3>1, <3>2
    <3>3. CASE v /= w
      BY <2>4, <3>1, <3>3 DEF ChainIInv, NextRowIsKnown, Follows
    <3> QED  BY <3>2, <3>3
  <2> QED  BY <2>5, <2>6, <2>7, <2>9 DEF ChainIInv
<1> QED  BY <1>3, <1>4

\* One more line leaves those before it alone: what changes is the end of the log.
LEMMA LineJoins ==
  ASSUME log \in Seq(Line), NEW line \in Line, line.kind \in {"row", "unended", "torn"},
         log' = WithLine(line)
  PROVE  \/ /\ log' = Append(log, line)
            /\ log' \in Seq(Line) /\ Len(log') = Len(log) + 1
            /\ \A n \in DOMAIN log : log'[n] = log[n]
            /\ log'[Len(log) + 1] = line
         \/ /\ log' \in Seq(Line) /\ log /= << >>
            /\ log[Len(log)].kind \notin {"row", "garbage"}
            /\ \E n \in DOMAIN log' : ~Parses(log'[n])
<1>1. CASE log = << >> \/ Last(log).kind \in {"row", "garbage"}
  <2>1. log' = Append(log, line)
    BY <1>1 DEF WithLine
  <2> QED  BY <2>1
<1>2. CASE ~(log = << >> \/ Last(log).kind \in {"row", "garbage"})
  <2> DEFINE joined ==
        [line EXCEPT !.kind = IF line.kind = "row" THEN "garbage" ELSE "torn"]
  <2>1. log' = [log EXCEPT ![Len(log)] = joined]
    BY <1>2 DEF WithLine
  <2>2. joined \in Line /\ ~Parses(joined)
    BY DEF Line, Parses
  <2> HIDE DEF joined
  <2>3. Len(log) \in DOMAIN log
    BY <1>2
  <2>4. log' \in Seq(Line) /\ log'[Len(log)] = joined /\ Len(log) \in DOMAIN log'
    BY <2>1, <2>2, <2>3
  <2>5. log[Len(log)].kind \notin {"row", "garbage"}
    BY <1>2 DEF Last
  <2> QED  BY <1>2, <2>2, <2>4, <2>5
<1> QED  BY <1>1, <1>2

\* An append keeps the chain, or spoils a line for good.
LEMMA AppendKeeps ==
  ASSUME ChainIInv, NEW w \in Writers, AppendLine(w)
  PROVE  ChainIInv'
<1>1. /\ TypeOK /\ appender[w].pc = "write" /\ appender[w] \in WriterState
      /\ log \in Seq(Line) /\ Len(log) \in Nat /\ written \in Nat /\ torn \in Nat
      /\ UNCHANGED <<serialised, lock, outer, deaths>>
      /\ appender' = [appender EXCEPT ![w] = At("unlock")]
      /\ At("unlock") \in WriterState /\ At("unlock").pc = "unlock"
  BY AtType DEF ChainIInv, TypeOK, AppendLine, Moves
<1>2. \A v \in Writers : appender'[v] = IF v = w THEN At("unlock") ELSE appender[v]
  BY <1>1 DEF TypeOK
<1>3. written' = written + 1 /\ torn' <= MaxTorn
  BY DEF AppendLine
<1>4. PICK kind \in {"row", "unended", "torn"} :
        /\ log' = WithLine([kind |-> kind, seq |-> appender[w].seq,
                            prev |-> appender[w].prev, hash |-> written'])
        /\ torn' = IF kind = "row" THEN torn ELSE torn + 1
  BY DEF AppendLine
<1> DEFINE line == [kind |-> kind, seq |-> appender[w].seq,
                    prev |-> appender[w].prev, hash |-> written']
<1>5. /\ line \in Line /\ line.kind = kind /\ line.seq = appender[w].seq
      /\ line.prev = appender[w].prev /\ line.hash = written + 1
      /\ log' = WithLine(line)
  BY <1>1, <1>3, <1>4 DEF Line, WriterState
<1> HIDE DEF line
<1>6. \/ /\ log' = Append(log, line)
         /\ log' \in Seq(Line) /\ Len(log') = Len(log) + 1
         /\ \A n \in DOMAIN log : log'[n] = log[n]
         /\ log'[Len(log) + 1] = line
      \/ /\ log' \in Seq(Line) /\ log /= << >>
         /\ log[Len(log)].kind \notin {"row", "garbage"}
         /\ \E n \in DOMAIN log' : ~Parses(log'[n])
  BY <1>1, <1>5, LineJoins
<1>7. torn' \in 0 .. MaxTorn
  BY <1>1, <1>3, <1>4
<1>8. TypeOK'
  BY <1>1, <1>3, <1>6, <1>7 DEF TypeOK
<1>9. OneAtWork'
  BY <1>1, <1>2 DEF ChainIInv, OneAtWork
<1>10. ASSUME torn' = 0
       PROVE  /\ kind = "row" /\ torn = 0 /\ log' = Append(log, line)
              /\ \A n \in DOMAIN log : log[n].kind = "row"
  <2>1. kind = "row" /\ torn = 0
    BY <1>1, <1>4, <1>10
  <2>2. \A n \in DOMAIN log : log[n].kind = "row"
    BY <2>1 DEF ChainIInv, Unbroken
  <2>3. log /= << >> => Len(log) \in DOMAIN log
    BY <1>1
  <2> QED  BY <1>6, <2>1, <2>2, <2>3
<1>11. log' = Append(log, line) => DOMAIN log' = DOMAIN log \union {Len(log) + 1}
  BY <1>1, <1>5
<1>12. Unbroken'
  <2>1. ASSUME torn' = 0, NEW n \in DOMAIN log' PROVE log'[n].kind = "row"
    BY <1>5, <1>6, <1>10, <1>11, <2>1
  <2>2. ASSUME serialised, torn' = 0, NEW n \in DOMAIN log'
        PROVE  /\ Parses(log'[n]) /\ log'[n].seq = n
               /\ log'[n].prev = IF n = 1 THEN 0 ELSE log'[n - 1].hash
    <3>1. log' = Append(log, line) /\ torn = 0 /\ Verify
      BY <1>10, <2>2 DEF ChainIInv, Unbroken
    <3>2. Follows(w)
      BY <1>1, <2>2, <3>1 DEF ChainIInv, NextRowIsKnown
    <3>3. Parses(log'[n])
      BY <2>1, <2>2 DEF Parses
    <3>4. /\ \A m \in DOMAIN log : log'[m] = log[m]
          /\ log'[Len(log) + 1] = line
      BY <1>1, <1>5, <3>1
    <3>5. CASE n \in DOMAIN log
      <4>1. n \in 1 .. Len(log) /\ (n /= 1 => n - 1 \in DOMAIN log)
        BY <1>1, <3>5
      <4> QED  BY <3>1, <3>3, <3>4, <3>5, <4>1 DEF Verify, PrevHash
    <3>6. CASE n = Len(log) + 1
      <4>1. n /= 1 => n - 1 = Len(log) /\ Len(log) \in DOMAIN log
        BY <1>1, <3>6
      <4> QED  BY <1>5, <3>2, <3>3, <3>4, <3>6, <4>1 DEF Follows, PrevHash
    <3> QED  BY <1>11, <2>2, <3>1, <3>5, <3>6
  <2>3. serialised /\ torn' = 0 => Verify'
    BY <2>2 DEF Verify, PrevHash
  <2> QED  BY <1>1, <2>1, <2>3 DEF Unbroken
<1>13. NextRowIsKnown'
  <2> SUFFICES ASSUME serialised, torn' = 0, NEW v \in Writers, appender'[v].pc = "write"
               PROVE  FALSE
    BY <1>1 DEF NextRowIsKnown
  <2>1. v /= w /\ appender[v].pc = "write"
    BY <1>1, <1>2
  <2>2. outer = v /\ outer = w
    BY <1>1, <2>1 DEF ChainIInv, OneAtWork
  <2> QED  BY <2>1, <2>2
<1>14. CompleteOrSpoilt'
  <2>1. CASE \E n \in DOMAIN log' : ~Parses(log'[n])
    BY <2>1 DEF CompleteOrSpoilt
  <2>2. CASE log' = Append(log, line)
    <3>1. /\ \A m \in DOMAIN log : log'[m] = log[m]
          /\ log'[Len(log) + 1] = line /\ Len(log') = Len(log) + 1
      BY <1>1, <1>5, <2>2
    <3>2. CASE \E n \in DOMAIN log : ~Parses(log[n])
      BY <1>11, <2>2, <3>1, <3>2 DEF CompleteOrSpoilt
    <3>3. CASE Len(log) = written /\ \A n \in DOMAIN log : log[n].hash = n
      BY <1>3, <1>5, <1>11, <2>2, <3>1, <3>3 DEF CompleteOrSpoilt
    <3> QED  BY <3>2, <3>3 DEF ChainIInv, CompleteOrSpoilt
  <2> QED  BY <1>6, <2>1, <2>2
<1> QED  BY <1>8, <1>9, <1>12, <1>13, <1>14 DEF ChainIInv

\* Every step keeps the invariant.
LEMMA ChainStep == ChainIInv /\ [ChainNext]_chainVars => ChainIInv'
<1> SUFFICES ASSUME ChainIInv, [ChainNext]_chainVars PROVE ChainIInv'
  OBVIOUS
<1>1. ASSUME NEW w \in Writers, BeginAppend(w) \/ WriterStep(w) \/ Dies(w)
      PROVE  ChainIInv'
  BY <1>1, LockKeeps, ReadKeeps, AppendKeeps DEF WriterStep
<1>2. ASSUME UNCHANGED <<serialised, log, appender, outer, written, deaths, torn>>,
             lock' \in Lock
      PROVE  ChainIInv'
  <2>1. TypeOK'
    BY <1>2 DEF ChainIInv, TypeOK
  <2>2. OneAtWork' /\ Unbroken'
    BY <1>2 DEF ChainIInv, OneAtWork, Unbroken, Verify, PrevHash
  <2>3. NextRowIsKnown' /\ CompleteOrSpoilt'
    BY <1>2 DEF ChainIInv, NextRowIsKnown, Follows, PrevHash, CompleteOrSpoilt
  <2> QED  BY <2>1, <2>2, <2>3 DEF ChainIInv
<1>3. CASE LockAges
  <2>1. lock' \in Lock
    BY <1>3 DEF ChainIInv, TypeOK, LockAges, Lock
  <2> QED  BY <1>2, <1>3, <2>1 DEF LockAges
<1>4. CASE UNCHANGED chainVars
  <2>1. lock' \in Lock
    BY <1>4 DEF ChainIInv, TypeOK, chainVars
  <2> QED  BY <1>2, <1>4, <2>1 DEF chainVars
<1> QED  BY <1>1, <1>3, <1>4 DEF ChainNext

\* Of any number of writers, with or without a lock of their callers, dying at any
\* system call: the chain of the serialised ones verifies while the disk takes what
\* is written, and a log that verifies has lost no line
\* (agentica_core/chain_ledger.py:163-240).
THEOREM ChainIsKept == ChainSpec => []ChainInv
<1>1. ChainSpec => []ChainIInv
  BY ChainStart, ChainStep, PTL DEF ChainSpec
<1> QED  BY <1>1, ChainFollows, PTL

-----------------------------------------------------------------------------
(* Gateway                                                                 *)

\* What local_only keeps of a chain is local, and it is a chain.
LEMMA KeptIsLocal ==
  ASSUME NEW s \in Seq(Models)
  PROVE  Kept(s) \in Seq(Models) /\ \A i \in DOMAIN Kept(s) : IsLocal(Kept(s)[i])
<1> DEFINE Def(k, g) ==
      [n \in 0 .. k |-> IF n = 0 THEN << >>
                        ELSE IF IsLocal(s[n]) THEN Append(g[n - 1], s[n]) ELSE g[n - 1]]
           kept == CHOOSE g : g = Def(Len(s), g)
<1>1. Kept(s) = kept[Len(s)] /\ Len(s) \in Nat
  BY DEF Kept
<1>2. \A k \in Nat : \E g : g = Def(k, g)
  <2> DEFINE Bad == {k \in Nat : ~\E g : g = Def(k, g)}
  <2> SUFFICES ASSUME Bad /= {} PROVE FALSE
    OBVIOUS
  <2>1. PICK k \in Bad : \A m \in Bad : k <= m
    <3>1. Bad \subseteq Nat
      OBVIOUS
    <3> HIDE DEF Bad
    <3> QED  BY <3>1, LeastExists
  <2>2. k \in Nat /\ k /= 0
    <3>1. [n \in 0 .. 0 |-> << >>] = Def(0, [n \in 0 .. 0 |-> << >>])
      OBVIOUS
    <3>2. 0 \notin Bad
      BY <3>1
    <3> QED  BY <2>1, <3>2
  <2>3. PICK g : g = Def(k - 1, g)
    <3>1. k - 1 \in Nat /\ ~(k <= k - 1)
      BY <2>2
    <3>2. k - 1 \notin Bad
      BY <2>1, <3>1
    <3> QED  BY <3>1, <3>2
  <2> DEFINE last == IF IsLocal(s[k]) THEN Append(g[k - 1], s[k]) ELSE g[k - 1]
             h == [n \in 0 .. k |-> IF n = k THEN last ELSE g[n]]
  <2>4. ASSUME NEW n \in 0 .. k PROVE h[n] = Def(k, h)[n]
    <3>1. CASE n = k
      <4>1. k - 1 \in 0 .. k /\ k - 1 /= k
        BY <2>2
      <4>2. h[k - 1] = g[k - 1]
        BY <4>1
      <4> QED  BY <2>2, <3>1, <4>2
    <3>2. CASE n = 0
      <4>1. n \in 0 .. k - 1 /\ n /= k
        BY <2>2, <3>2
      <4>2. h[n] = << >>
        BY <2>3, <3>2, <4>1
      <4> QED  BY <3>2, <4>2
    <3>3. CASE n /= k /\ n /= 0
      <4>1. n \in 0 .. k - 1 /\ n - 1 \in 0 .. k /\ n - 1 /= k
        BY <2>2, <3>3
      <4>2. h[n] = g[n] /\ h[n - 1] = g[n - 1]
        BY <3>3, <4>1
      <4>3. g[n] = IF IsLocal(s[n]) THEN Append(g[n - 1], s[n]) ELSE g[n - 1]
        BY <2>3, <3>3, <4>1
      <4> QED  BY <3>3, <4>2, <4>3
    <3> QED  BY <3>1, <3>2, <3>3
  <2>5. h = Def(k, h)
    <3>1. h = [n \in 0 .. k |-> h[n]] /\ Def(k, h) = [n \in 0 .. k |-> Def(k, h)[n]]
      OBVIOUS
    <3> HIDE DEF h, Def
    <3> QED  BY <2>4, <3>1
  <2>6. k \notin Bad
    <3> HIDE DEF h, Def
    <3> QED  BY <2>5
  <2> QED  BY <2>1, <2>6
<1>3. kept = Def(Len(s), kept)
  <2>1. \E g : g = Def(Len(s), g)
    BY <1>1, <1>2
  <2> HIDE DEF Def
  <2> QED  BY <2>1
<1>4. /\ kept[0] = << >>
      /\ \A n \in 1 .. Len(s) :
           kept[n] = IF IsLocal(s[n]) THEN Append(kept[n - 1], s[n]) ELSE kept[n - 1]
  <2> DEFINE d == Def(Len(s), kept)
  <2>1. d[0] = << >> /\ \A n \in 1 .. Len(s) :
           d[n] = IF IsLocal(s[n]) THEN Append(kept[n - 1], s[n]) ELSE kept[n - 1]
    <3> HIDE DEF kept
    <3> QED  BY <1>1
  <2> HIDE DEF d
  <2>2. d = kept
    BY <1>3 DEF d
  <2> HIDE DEF kept
  <2> QED  BY <2>1, <2>2
<1> HIDE DEF kept
<1> DEFINE Local(t) == t \in Seq(Models) /\ \A i \in DOMAIN t : IsLocal(t[i])
           Wrong == {n \in 0 .. Len(s) : ~Local(kept[n])}
<1>5. ASSUME Wrong /= {} PROVE FALSE
  <2>1. PICK n \in Wrong : \A m \in Wrong : n <= m
    <3>1. Wrong \subseteq Nat
      BY <1>1
    <3> HIDE DEF Wrong
    <3> QED  BY <1>5, <3>1, LeastExists
  <2>2. n \in 1 .. Len(s)
    <3>1. Local(<< >>)
      OBVIOUS
    <3>2. n \in 0 .. Len(s) /\ n /= 0
      BY <1>4, <2>1, <3>1
    <3> QED  BY <1>1, <3>2
  <2>3. Local(kept[n - 1])
    <3>1. n - 1 \in 0 .. Len(s) /\ ~(n <= n - 1)
      BY <1>1, <2>2
    <3> QED  BY <2>1, <3>1
  <2>4. s[n] \in Models
    BY <1>1, <2>2
  <2>5. ASSUME NEW t, Local(t), NEW m \in Models, IsLocal(m)
        PROVE  Local(Append(t, m))
    BY <2>5
  <2>6. Local(kept[n])
    <3> HIDE DEF Local
    <3> QED  BY <1>4, <2>2, <2>3, <2>4, <2>5
  <2> QED  BY <2>1, <2>6
<1>6. Local(kept[Len(s)])
  BY <1>1, <1>5
<1> QED  BY <1>1, <1>6

USE ShapeAssumption, LocalAssumption, RosterAssumption, RoutedAssumption,
    RetriesAssumption

\* One chain behind another names what either names.
LEMMA NamesJoin ==
  ASSUME NEW s \in Seq(Models), NEW t \in Seq(Models)
  PROVE  s \o t \in Seq(Models) /\ ToSet(s \o t) = ToSet(s) \union ToSet(t)
<1>1. \A n \in DOMAIN s : n \in DOMAIN (s \o t) /\ (s \o t)[n] = s[n]
  OBVIOUS
<1>2. \A n \in DOMAIN t : Len(s) + n \in DOMAIN (s \o t) /\ (s \o t)[Len(s) + n] = t[n]
  OBVIOUS
<1>3. ASSUME NEW n \in DOMAIN (s \o t)
      PROVE  \/ n \in DOMAIN s /\ (s \o t)[n] = s[n]
             \/ n - Len(s) \in DOMAIN t /\ (s \o t)[n] = t[n - Len(s)]
  OBVIOUS
<1>4. ToSet(s) \subseteq ToSet(s \o t)
  BY <1>1 DEF ToSet
<1>5. ToSet(t) \subseteq ToSet(s \o t)
  <2> DEFINE u == s \o t
  <2>1. \A n \in DOMAIN t : \E k \in DOMAIN u : u[k] = t[n]
    BY <1>2
  <2> HIDE DEF u
  <2>2. ToSet(t) \subseteq ToSet(u)
    BY <2>1 DEF ToSet
  <2> QED  BY <2>2 DEF u
<1>6. ToSet(s \o t) \subseteq ToSet(s) \union ToSet(t)
  BY <1>3 DEF ToSet
<1> QED  BY <1>4, <1>5, <1>6

\* A chain of one model.
LEMMA NamesOfOne ==
  \A m \in Models : <<m>> \in Seq(Models) /\ ToSet(<<m>>) = {m} /\ <<m>> /= << >>
<1> SUFFICES ASSUME NEW m \in Models
             PROVE  <<m>> \in Seq(Models) /\ ToSet(<<m>>) = {m} /\ <<m>> /= << >>
  OBVIOUS
<1>1. <<m>> \in Seq(Models) /\ DOMAIN <<m>> = {1} /\ <<m>>[1] = m
  OBVIOUS
<1> QED  BY <1>1 DEF ToSet

\* A chain with one model more.
LEMMA Appended ==
  ASSUME NEW s \in Seq(Models), NEW m \in Models
  PROVE  /\ Append(s, m) \in Seq(Models) /\ Append(s, m) /= << >>
         /\ ToSet(Append(s, m)) = ToSet(s) \union {m}
<1>1. /\ Append(s, m) \in Seq(Models) /\ Len(Append(s, m)) = Len(s) + 1 /\ Len(s) \in Nat
      /\ \A n \in 1 .. Len(s) : Append(s, m)[n] = s[n]
      /\ Append(s, m)[Len(s) + 1] = m
  OBVIOUS
<1>2. DOMAIN s = 1 .. Len(s) /\ DOMAIN Append(s, m) = 1 .. Len(s) + 1
  BY <1>1
<1>3. \A n \in 1 .. Len(s) + 1 : n \in 1 .. Len(s) \/ n = Len(s) + 1
  BY <1>1
<1>4. 1 .. Len(s) \subseteq 1 .. Len(s) + 1 /\ Len(s) + 1 \in 1 .. Len(s) + 1
  BY <1>1
<1>5. ToSet(Append(s, m)) = ToSet(s) \union {m}
  <2>1. ToSet(Append(s, m)) \subseteq ToSet(s) \union {m}
    BY <1>1, <1>2, <1>3 DEF ToSet
  <2>2. ToSet(s) \subseteq ToSet(Append(s, m))
    BY <1>1, <1>2, <1>4 DEF ToSet
  <2>3. m \in ToSet(Append(s, m))
    <3> DEFINE u == Append(s, m)
    <3>1. Len(s) + 1 \in DOMAIN u /\ u[Len(s) + 1] = m
      BY <1>1, <1>2, <1>4
    <3> HIDE DEF u
    <3>2. m \in ToSet(u)
      BY <3>1 DEF ToSet
    <3> QED  BY <3>2 DEF u
  <2> QED  BY <2>1, <2>2, <2>3
<1>6. Append(s, m) /= << >>
  <2>1. Len(<< >>) = 0 /\ Len(s) + 1 /= 0
    BY <1>1
  <2> QED  BY <1>1, <2>1
<1> QED  BY <1>1, <1>5, <1>6

\* Local names are dispatched to Ollama, LOCAL_MODEL if it is a bare one.
LEMMA LocalGoesHere ==
  \A s \in Settings, m \in Models :
    (IsLocal(m) \/ (m = LocalModel /\ LocalIsBare)) => Dispatch(s, m) = "ollama"
BY DEF IsLocal, IsTag, Dispatch, Shapes, LocalIsBare

\* generate_text up to its loop makes a chain: local_only makes it local.
LEMMA LocalIsChain ==
  ASSUME NEW s \in Settings, NEW asked \in Seq(Models), NEW model \in Models \union {NoModel}
  PROVE  LET d == DirectChain(s, asked, model, TRUE)
         IN  /\ d \in Seq(Models) /\ d /= << >>
             /\ LocalIsBare => \A m \in ToSet(d) : Dispatch(s, m) = "ollama"
<1> DEFINE d == DirectChain(s, asked, model, TRUE)
           t == OrElse(asked, One(model))
<1>1. d = IF Kept(t) = << >> THEN <<LocalModel>> ELSE Kept(t)
  BY DEF DirectChain, OrElse
<1>2. t \in Seq(Models)
  BY NamesOfOne DEF One, OrElse
<1> HIDE DEF t, d
<1>3. Kept(t) \in Seq(Models) /\ \A n \in DOMAIN Kept(t) : IsLocal(Kept(t)[n])
  BY <1>2, KeptIsLocal
<1>4. d \in Seq(Models) /\ d /= << >>
  BY <1>1, <1>3, NamesOfOne
<1>5. \A m \in ToSet(d) : m \in Models /\ (m = LocalModel \/ IsLocal(m))
  <2>1. CASE Kept(t) = << >>
    BY <1>1, <2>1, NamesOfOne
  <2>2. CASE Kept(t) /= << >>
    BY <1>1, <1>3, <2>2 DEF ToSet
  <2> QED  BY <2>1, <2>2
<1>6. LocalIsBare => \A m \in ToSet(d) : Dispatch(s, m) = "ollama"
  BY <1>5, LocalGoesHere
<1> QED  BY <1>4, <1>6 DEF d

\* Otherwise a chain that was asked for is only joined by the safety net.
LEMMA AskedIsChain ==
  ASSUME NEW s \in Settings, NEW asked \in Seq(Models), NEW model \in Models \union {NoModel}
  PROVE  LET d == DirectChain(s, asked, model, FALSE)
         IN  /\ d \in Seq(Models) /\ d /= << >>
             /\ asked /= << >> => ToSet(d) \subseteq ToSet(asked) \union {LocalModel}
<1> DEFINE d == DirectChain(s, asked, model, FALSE)
           base == IF asked /= << >> THEN asked
                   ELSE IF model = NoModel
                        THEN IF s.premium THEN PremiumChain ELSE FastChain
                   ELSE IF Shape[model].free THEN <<model>> ELSE <<model>> \o FreeChain
<1>1. d = IF s.safetyNet /\ LocalModel \notin ToSet(base)
          THEN Append(base, LocalModel) ELSE base
  BY DEF DirectChain
<1>2. ASSUME NEW t \in Seq(Models)
      PROVE  t \o FreeChain \in Seq(Models) /\ t \o FreeChain /= << >>
  BY RosterAssumption
<1>3. base \in Seq(Models) /\ base /= << >>
  BY <1>2, NamesOfOne DEF PremiumChain, FastChain
<1>4. asked /= << >> => base = asked
  OBVIOUS
<1> HIDE DEF base, d
<1>5. /\ d \in Seq(Models) /\ d /= << >>
      /\ ToSet(d) \subseteq ToSet(base) \union {LocalModel}
  BY <1>1, <1>3, Appended
<1> QED  BY <1>4, <1>5 DEF d

\* _build_legacy_chain always has a model.
LEMMA LegacyIsChain ==
  ASSUME NEW model \in Models \union {NoModel}, NEW tier \in CallTiers
  PROVE  LegacyChain(model, tier) \in Seq(Models) /\ LegacyChain(model, tier) /= << >>
<1> DEFINE m == IF model = NoModel THEN NoModel ELSE Normal[tier][model]
           isFree == m /= NoModel /\ Shape[m].free
<1>1. m \in Models \union {NoModel}
  OBVIOUS
<1>2. LegacyChain(model, tier) =
        CASE tier = "LOCAL" -> <<LocalModel>>
          [] tier = "LOCAL_FIRST" -> LocalFirstChain \o One(m)
          [] tier = "FREE" ->
               <<IF isFree THEN m ELSE AutoModel>> \o <<AutoModel>> \o FreeChain
          [] tier = "PREMIUM" -> One(m) \o PremiumChain
          [] tier = "FAST" -> One(m) \o FastChain
  BY DEF LegacyChain
<1>3. One(m) \in Seq(Models)
  BY <1>1, NamesOfOne DEF One
<1>4. (IF isFree THEN m ELSE AutoModel) \in Models
  BY <1>1
<1> HIDE DEF m, isFree
<1>5. /\ LocalFirstChain \in Seq(Models) /\ LocalFirstChain /= << >>
      /\ PremiumChain \in Seq(Models) /\ PremiumChain /= << >>
      /\ FastChain \in Seq(Models) /\ FastChain /= << >>
  BY DEF LocalFirstChain, PremiumChain, FastChain
<1>6. CASE tier = "LOCAL"
  BY <1>2, <1>6, NamesOfOne
<1>7. CASE tier = "LOCAL_FIRST"
  BY <1>2, <1>3, <1>5, <1>7
<1>8. CASE tier = "FREE"
  <2> DEFINE first == IF isFree THEN m ELSE AutoModel
  <2>1. LegacyChain(model, tier) = <<first>> \o <<AutoModel>> \o FreeChain
    BY <1>2, <1>8
  <2>2. first \in Models
    BY <1>4
  <2> HIDE DEF first
  <2>3. <<first>> \o <<AutoModel>> \in Seq(Models)
    BY <2>2
  <2> QED  BY <2>1, <2>3
<1>9. CASE tier = "PREMIUM"
  BY <1>2, <1>3, <1>5, <1>9
<1>10. CASE tier = "FAST"
  BY <1>2, <1>3, <1>5, <1>10
<1> QED  BY <1>6, <1>7, <1>8, <1>9, <1>10 DEF CallTiers

\* call_routed_llm names only providers it has a key for.
LEMMA RoutedIsKeyed ==
  ASSUME NEW s \in Settings, NEW task \in Tasks
  PROVE  /\ RoutedChain(s, task) \in Seq(Models) /\ RoutedChain(s, task) /= << >>
         /\ \A m \in ToSet(RoutedChain(s, task)) : Dispatch(s, m) \in Keyed(s)
<1> DEFINE a == With("anthropic" \in s.keys, Routed["claude"][task])
           b == With(s.geminiKeys > 0, Routed["gemini"][task])
           c == <<Routed["ollama"][task]>>
           e == With("openrouter" \in s.keys, Routed["openrouter"][task])
<1>1. \A p \in {"claude", "gemini", "ollama", "openrouter"} : Routed[p][task] \in Models
  OBVIOUS
<1>2. \A m \in Models : With(TRUE, m) = <<m>> /\ With(FALSE, m) = << >>
  BY DEF With
<1>3. ToSet(<< >>) = {}
  BY DEF ToSet
<1>4. /\ a \in Seq(Models)
      /\ \A m \in ToSet(a) : m = Routed["claude"][task] /\ "anthropic" \in s.keys
  BY <1>1, <1>3, NamesOfOne DEF With
<1>5. /\ b \in Seq(Models)
      /\ \A m \in ToSet(b) : m = Routed["gemini"][task] /\ s.geminiKeys > 0
  BY <1>1, <1>3, NamesOfOne DEF With
<1>6. c \in Seq(Models) /\ c /= << >> /\ ToSet(c) = {Routed["ollama"][task]}
  BY <1>1, NamesOfOne
<1>7. /\ e \in Seq(Models)
      /\ \A m \in ToSet(e) : m = Routed["openrouter"][task] /\ "openrouter" \in s.keys
  BY <1>1, <1>3, NamesOfOne DEF With
<1>8. RoutedChain(s, task) = ((a \o b) \o c) \o e
  BY DEF RoutedChain
<1>9. /\ Dispatch(s, Routed["ollama"][task]) = "ollama"
      /\ Dispatch(s, Routed["openrouter"][task]) = "openrouter"
      /\ "anthropic" \in s.keys => Dispatch(s, Routed["claude"][task]) = "anthropic"
      /\ Dispatch(s, Routed["gemini"][task]) \in {"gemini", "ollama"}
  BY <1>1 DEF Dispatch, Shapes
<1> HIDE DEF a, b, c, e
<1>10. a \o b \in Seq(Models) /\ ToSet(a \o b) = ToSet(a) \union ToSet(b)
  BY <1>4, <1>5, NamesJoin
<1>11. /\ (a \o b) \o c \in Seq(Models) /\ (a \o b) \o c /= << >>
       /\ ToSet((a \o b) \o c) = ToSet(a) \union ToSet(b) \union ToSet(c)
  <2>1. (a \o b) \o c /= << >>
    BY <1>6, <1>10
  <2> QED  BY <1>6, <1>10, <2>1, NamesJoin
<1>12. /\ RoutedChain(s, task) \in Seq(Models) /\ RoutedChain(s, task) /= << >>
       /\ ToSet(RoutedChain(s, task)) =
            ToSet(a) \union ToSet(b) \union ToSet(c) \union ToSet(e)
  <2> DEFINE abc == (a \o b) \o c
  <2>1. abc \in Seq(Models) /\ abc /= << >>
        /\ ToSet(abc) = ToSet(a) \union ToSet(b) \union ToSet(c)
    BY <1>11
  <2>2. RoutedChain(s, task) = abc \o e
    BY <1>8
  <2> HIDE DEF abc
  <2>3. abc \o e /= << >>
    BY <1>7, <2>1
  <2>4. abc \o e \in Seq(Models) /\ ToSet(abc \o e) = ToSet(abc) \union ToSet(e)
    BY <1>7, <2>1, NamesJoin
  <2> QED  BY <2>1, <2>2, <2>3, <2>4
<1>13. \A m \in ToSet(RoutedChain(s, task)) : Dispatch(s, m) \in Keyed(s)
  BY <1>4, <1>5, <1>6, <1>7, <1>9, <1>12 DEF Keyed
<1> QED  BY <1>12, <1>13

\* The chain of every call is one, and it is not empty; one of a call that asked
\* for it is local, and one of a routed call is keyed, if LOCAL_MODEL has a bare name.
LEMMA ChainsAreRight ==
  ASSUME NEW s \in Settings, NEW c \in Calls
  PROVE  /\ ChainOf(s, c) \in Seq(Models) /\ ChainOf(s, c) /= << >>
         /\ LocalIsBare /\ AskedForLocal(c) =>
              \A m \in ToSet(ChainOf(s, c)) : Dispatch(s, m) = "ollama"
         /\ LocalIsBare /\ c.way = "routed" =>
              \A m \in ToSet(ChainOf(s, c)) : Dispatch(s, m) \in Keyed(s)
<1>1. /\ LocalIsBare => Dispatch(s, LocalModel) = "ollama"
      /\ "ollama" \in Keyed(s)
  BY LocalGoesHere DEF Keyed
<1>2. CASE c \in Direct
  <2>1. /\ c.way = "direct" /\ c.chain \in Seq(Models)
        /\ c.model \in Models \union {NoModel} /\ c.localOnly \in BOOLEAN
    <3>1. << >> \in Seq(Models)
      OBVIOUS
    <3> QED  BY <1>2, <3>1 DEF Direct
  <2> DEFINE d == DirectChain(s, c.chain, c.model, c.localOnly)
  <2>2. ChainOf(s, c) = d
    BY <2>1 DEF ChainOf
  <2>3. AskedForLocal(c) <=>
          \/ c.localOnly
          \/ c.chain /= << >> /\ \A n \in DOMAIN c.chain : IsLocal(c.chain[n])
    BY <2>1 DEF AskedForLocal
  <2>4. /\ d \in Seq(Models) /\ d /= << >>
        /\ LocalIsBare /\ c.localOnly => \A m \in ToSet(d) : Dispatch(s, m) = "ollama"
        /\ ~c.localOnly /\ c.chain /= << >> =>
             ToSet(d) \subseteq ToSet(c.chain) \union {LocalModel}
    <3> HIDE DEF d
    <3>0. c.chain \in Seq(Models) /\ c.model \in Models \union {NoModel}
      BY <2>1
    <3>1. CASE c.localOnly = TRUE
      <4>1. d = DirectChain(s, c.chain, c.model, TRUE)
        BY <3>1 DEF d
      <4>2. LET e == DirectChain(s, c.chain, c.model, TRUE)
            IN  /\ e \in Seq(Models) /\ e /= << >>
                /\ LocalIsBare => \A m \in ToSet(e) : Dispatch(s, m) = "ollama"
        BY <3>0, LocalIsChain
      <4> QED  BY <3>1, <4>1, <4>2
    <3>2. CASE c.localOnly = FALSE
      <4>1. d = DirectChain(s, c.chain, c.model, FALSE)
        BY <3>2 DEF d
      <4>2. LET e == DirectChain(s, c.chain, c.model, FALSE)
            IN  /\ e \in Seq(Models) /\ e /= << >>
                /\ c.chain /= << >> => ToSet(e) \subseteq ToSet(c.chain) \union {LocalModel}
        BY <3>0, AskedIsChain
      <4> QED  BY <3>2, <4>1, <4>2
    <3> QED  BY <2>1, <3>1, <3>2
  <2> HIDE DEF d
  <2>5. ASSUME c.chain /= << >>, \A n \in DOMAIN c.chain : IsLocal(c.chain[n]),
               ~c.localOnly, LocalIsBare, NEW m \in ToSet(d)
        PROVE  Dispatch(s, m) = "ollama"
    <3>1. m = LocalModel \/ m \in ToSet(c.chain)
      BY <2>4, <2>5
    <3>2. m \in ToSet(c.chain) => m \in Models /\ IsLocal(m)
      BY <2>1, <2>5 DEF ToSet
    <3> QED  BY <1>1, <2>5, <3>1, <3>2, LocalGoesHere
  <2> QED  BY <2>1, <2>2, <2>3, <2>4, <2>5
<1>3. CASE c \in Legacy
  <2>1. /\ c.way = "legacy" /\ c.model \in Models \union {NoModel} /\ c.tier \in CallTiers
    BY <1>3 DEF Legacy
  <2> DEFINE asked == LegacyChain(c.model, c.tier)
             d == DirectChain(s, asked, NoModel, FALSE)
  <2>2. ChainOf(s, c) = d
    BY <2>1 DEF ChainOf
  <2>3. asked \in Seq(Models) /\ asked /= << >>
    BY <2>1, LegacyIsChain
  <2>4. AskedForLocal(c) => asked = <<LocalModel>>
    BY <2>1 DEF AskedForLocal, LegacyChain
  <2> HIDE DEF asked
  <2>5. /\ d \in Seq(Models) /\ d /= << >>
        /\ ToSet(d) \subseteq ToSet(asked) \union {LocalModel}
    BY <2>3, AskedIsChain
  <2> HIDE DEF d
  <2>6. AskedForLocal(c) => \A m \in ToSet(d) : m = LocalModel
    BY <2>4, <2>5, NamesOfOne
  <2> QED  BY <1>1, <2>1, <2>2, <2>5, <2>6
<1>4. CASE c \in RoutedCalls
  <2>1. c.way = "routed" /\ c.task \in Tasks /\ c.localOnly \in BOOLEAN
    BY <1>4 DEF RoutedCalls
  <2>2. CASE c.localOnly
    <3> DEFINE asked == <<Routed["ollama"][c.task]>>
               d == DirectChain(s, asked, NoModel, TRUE)
    <3>1. ChainOf(s, c) = d
      BY <2>1, <2>2 DEF ChainOf
    <3>2. asked \in Seq(Models)
      BY <2>1
    <3> HIDE DEF asked
    <3>3. /\ d \in Seq(Models) /\ d /= << >>
          /\ LocalIsBare => \A m \in ToSet(d) : Dispatch(s, m) = "ollama"
      BY <3>2, LocalIsChain
    <3> HIDE DEF d
    <3> QED  BY <1>1, <3>1, <3>3
  <2>3. CASE ~c.localOnly
    <3> DEFINE asked == RoutedChain(s, c.task)
               d == DirectChain(s, asked, NoModel, FALSE)
    <3>1. ChainOf(s, c) = d
      BY <2>1, <2>3 DEF ChainOf
    <3>2. /\ asked \in Seq(Models) /\ asked /= << >>
          /\ \A m \in ToSet(asked) : Dispatch(s, m) \in Keyed(s)
      BY <2>1, RoutedIsKeyed
    <3> HIDE DEF asked
    <3>3. /\ d \in Seq(Models) /\ d /= << >>
          /\ ToSet(d) \subseteq ToSet(asked) \union {LocalModel}
      BY <3>2, AskedIsChain
    <3>4. ~AskedForLocal(c)
      BY <2>1, <2>3 DEF AskedForLocal
    <3> HIDE DEF d
    <3> QED  BY <1>1, <3>1, <3>2, <3>3, <3>4
  <2> QED  BY <2>2, <2>3
<1> QED  BY <1>2, <1>3, <1>4 DEF Calls

\* While the call is under way its chain stands, and those before its place in
\* the chain have had their turn.
UnderWay ==
  at > 0 => /\ chain = ChainOf(settings, call) /\ out = "none"
            /\ tried = {chain[j] : j \in 1 .. at - 1}

GatewayIInv == GatewayInv /\ UnderWay

\* A name that comes up again comes up a first time.
LEMMA FirstOfIt ==
  ASSUME chain \in Seq(Models), NEW j \in 1 .. Len(chain)
  PROVE  \E i \in 1 .. j : chain[i] = chain[j] /\ Fresh(i)
<1> DEFINE T == {i \in 1 .. j : chain[i] = chain[j]}
<1>1. T \subseteq Nat /\ j \in T
  OBVIOUS
<1>2. PICK i \in T : \A k \in T : i <= k
  <2> HIDE DEF T
  <2> QED  BY <1>1, LeastExists
<1>3. ASSUME NEW k \in 1 .. i - 1 PROVE chain[k] /= chain[i]
  <2>1. i \in 1 .. j /\ k \in 1 .. j /\ ~(i <= k)
    BY <1>2
  <2>2. k \notin T
    BY <1>2, <2>1
  <2> QED  BY <1>2, <2>1, <2>2
<1> QED  BY <1>2, <1>3 DEF Fresh

\* A call that begins is under way, and has asked nobody.
LEMMA GatewayStart == GatewayInit => GatewayIInv
<1> SUFFICES ASSUME GatewayInit PROVE GatewayIInv
  OBVIOUS
<1>1. settings \in Settings /\ call \in Calls /\ chain = ChainOf(settings, call)
  BY DEF GatewayInit
<1>2. chain \in Seq(Models) /\ chain /= << >>
  BY <1>1, ChainsAreRight
<1>3. Len(chain) \in Nat /\ Len(chain) /= 0
  BY <1>2
<1>4. GatewayTypeOK
  BY <1>1, <1>2, <1>3 DEF GatewayInit, GatewayTypeOK, Outcomes
<1>5. LocalStaysLocal /\ NobodyIsSkipped /\ NoDoomedRequest
  BY DEF GatewayInit, LocalStaysLocal, PrivateStaysHere, NobodyIsSkipped, NoDoomedRequest
<1>6. UnderWay
  BY <1>1 DEF GatewayInit, UnderWay
<1> QED  BY <1>4, <1>5, <1>6 DEF GatewayIInv, GatewayInv

\* The end of the call with an exception or its kind, or without.
LEMMA LeaveKeeps ==
  ASSUME GatewayIInv, NEW result \in {"answer", "raised", "nothing"}, Leave(result),
         UNCHANGED <<settings, call>>, sent' \subseteq Providers, tried' \subseteq Models,
         LocalStaysLocal', NoDoomedRequest',
         result = Failure /\ result \notin ResultsOf(call) /\ tried' /= {}
           => tried' = ChainNames(call)
  PROVE  GatewayIInv'
<1>1. << >> \in Seq(Models) /\ Len(<< >>) = 0
  OBVIOUS
<1>2. GatewayTypeOK'
  BY <1>1 DEF Leave, GatewayIInv, GatewayInv, GatewayTypeOK, Outcomes
<1>3. NobodyIsSkipped'
  BY DEF Leave, NobodyIsSkipped, Failure, ChainNames
<1>4. UnderWay'
  BY DEF Leave, UnderWay
<1> QED  BY <1>2, <1>3, <1>4 DEF GatewayIInv, GatewayInv

\* What the prompt has been sent to, after one request more.
LEMMA SendKeeps ==
  ASSUME GatewayIInv, at > 0, Ready, UNCHANGED <<settings, call>>,
         sent' = sent \union {Here}
  PROVE  sent' \subseteq Providers /\ LocalStaysLocal' /\ NoDoomedRequest'
<1>1. /\ settings \in Settings /\ call \in Calls /\ chain \in Seq(Models)
      /\ at \in 1 .. Len(chain) /\ chain = ChainOf(settings, call)
      /\ sent \subseteq Providers
  BY DEF GatewayIInv, GatewayInv, GatewayTypeOK, UnderWay
<1>2. chain[at] \in ToSet(ChainOf(settings, call)) /\ chain[at] \in Models
  BY <1>1 DEF ToSet
<1>3. Here \in Providers
  BY <1>2 DEF Here, Dispatch, Providers
<1>4. LocalIsBare /\ AskedForLocal(call) => Here = "ollama"
  BY <1>1, <1>2, ChainsAreRight DEF Here
<1>5. LocalIsBare /\ call.way = "routed" => Here \in Keyed(settings)
  BY <1>1, <1>2, ChainsAreRight DEF Here
<1>6. LocalStaysLocal /\ NoDoomedRequest
  BY DEF GatewayIInv, GatewayInv
<1>7. AskedForLocal(call)' = AskedForLocal(call) /\ Keyed(settings)' = Keyed(settings)
  BY DEF AskedForLocal, Keyed
<1> QED  BY <1>1, <1>3, <1>4, <1>5, <1>6, <1>7
   DEF LocalStaysLocal, PrivateStaysHere, NoDoomedRequest, LocalIsBare

\* Whose turn is next, when this one's is over.
LEMMA NextKeeps ==
  ASSUME GatewayIInv, at > 0, NextModel, UNCHANGED <<settings, call>>,
         sent' \subseteq Providers, LocalStaysLocal', NoDoomedRequest'
  PROVE  GatewayIInv'
<1>1. /\ chain \in Seq(Models) /\ at \in 1 .. Len(chain) /\ Len(chain) \in Nat
      /\ chain = ChainOf(settings, call) /\ out = "none"
      /\ tried = {chain[j] : j \in 1 .. at - 1} /\ tried \subseteq Models
      /\ settings \in Settings /\ call \in Calls
  BY DEF GatewayIInv, GatewayInv, GatewayTypeOK, UnderWay
<1>2. tried' = {chain[j] : j \in 1 .. at}
  <2>1. tried' = tried \union {chain[at]}
    BY DEF NextModel
  <2>2. \A j \in 1 .. at : j \in 1 .. at - 1 \/ j = at
    BY <1>1
  <2>3. \A j \in 1 .. at - 1 : j \in 1 .. at
    BY <1>1
  <2>4. at \in 1 .. at
    BY <1>1
  <2> QED  BY <1>1, <2>1, <2>2, <2>3, <2>4
<1>3. tried' \subseteq Models
  BY <1>1, <1>2
<1>4. ASSUME NEW j \in 1 .. Len(chain), \A i \in Ahead : ~(i <= j)
      PROVE  chain[j] \in tried'
  <2>1. PICK i \in 1 .. j : chain[i] = chain[j] /\ Fresh(i)
    BY <1>1, FirstOfIt
  <2>2. i <= at
    BY <1>1, <1>4, <2>1 DEF Ahead
  <2> QED  BY <1>1, <1>2, <2>1, <2>2
<1>5. CASE Ahead = {}
  <2>1. Leave(Failure) /\ Failure \in {"answer", "raised", "nothing"}
    BY <1>5 DEF NextModel, Failure
  <2>2. ToSet(chain) \subseteq tried'
    BY <1>1, <1>4, <1>5 DEF ToSet
  <2>3. tried' \subseteq ToSet(chain)
    BY <1>1, <1>2 DEF ToSet
  <2>4. tried' = ChainNames(call)
    BY <1>1, <2>2, <2>3 DEF ChainNames
  <2> QED  BY <1>3, <2>1, <2>4, LeaveKeeps
<1>6. CASE Ahead /= {}
  <2>1. /\ at' \in Ahead /\ \A j \in Ahead : at' <= j
        /\ key' = 1 /\ attempt' = 0 /\ UNCHANGED <<chain, out>>
    BY <1>6 DEF NextModel
  <2>2. at' \in 1 .. Len(chain) /\ at < at'
    BY <1>1, <2>1 DEF Ahead
  <2>3. {chain[j] : j \in 1 .. at' - 1} \subseteq tried'
    <3> SUFFICES ASSUME NEW j \in 1 .. at' - 1 PROVE chain[j] \in tried'
      OBVIOUS
    <3>1. j \in 1 .. Len(chain) /\ ~(at' <= j)
      BY <1>1, <2>2
    <3>2. \A i \in Ahead : ~(i <= j)
      BY <1>1, <2>1, <2>2, <3>1 DEF Ahead
    <3> QED  BY <1>4, <3>1, <3>2
  <2>4. tried' \subseteq {chain[j] : j \in 1 .. at' - 1}
    <3>1. at \in Nat /\ at' \in Nat
      BY <1>1, <2>2
    <3>2. at <= at' - 1
      BY <2>2, <3>1
    <3>3. \A a, b \in Nat : a <= b - 1 => \A j \in 1 .. a : j \in 1 .. b - 1
      OBVIOUS
    <3>4. \A j \in 1 .. at : j \in 1 .. at' - 1
      BY <3>1, <3>2, <3>3
    <3> QED  BY <1>2, <3>4
  <2>5. GatewayTypeOK'
    BY <1>1, <1>3, <2>1, <2>2 DEF GatewayIInv, GatewayInv, GatewayTypeOK
  <2>6. NobodyIsSkipped'
    BY <1>1, <2>2 DEF NobodyIsSkipped
  <2>7. UnderWay'
    BY <1>1, <2>1, <2>3, <2>4 DEF UnderWay
  <2> QED  BY <2>5, <2>6, <2>7 DEF GatewayIInv, GatewayInv
<1> QED  BY <1>5, <1>6

\* Every step keeps the invariant.
LEMMA GatewayStepKeeps == GatewayIInv /\ [GatewayNext]_gatewayVars => GatewayIInv'
<1> SUFFICES ASSUME GatewayIInv, [GatewayNext]_gatewayVars PROVE GatewayIInv'
  OBVIOUS
<1>1. GatewayTypeOK /\ LocalStaysLocal /\ NoDoomedRequest /\ UnderWay /\ NobodyIsSkipped
  BY DEF GatewayIInv, GatewayInv
<1>2. ASSUME UNCHANGED <<settings, call, sent>>
      PROVE  sent' \subseteq Providers /\ LocalStaysLocal' /\ NoDoomedRequest'
  BY <1>1, <1>2 
  DEF GatewayTypeOK, LocalStaysLocal, PrivateStaysHere, NoDoomedRequest,
      LocalIsBare, AskedForLocal, Keyed
<1>3. CASE Refuse
  <2>1. Leave(Failure) /\ UNCHANGED <<settings, call, sent, tried>> /\ tried = {}
    BY <1>3 DEF Refuse
  <2>2. Failure \in {"answer", "raised", "nothing"}
    BY DEF Failure
  <2> QED  BY <1>1, <1>2, <2>1, <2>2, LeaveKeeps DEF GatewayTypeOK
<1>4. CASE Unready
  BY <1>2, <1>4, NextKeeps DEF Unready
<1>5. ASSUME Send
      PROVE  /\ at > 0 /\ UNCHANGED <<settings, call>>
             /\ sent' \subseteq Providers /\ LocalStaysLocal' /\ NoDoomedRequest'
             /\ chain[at] \in Models /\ at \in 1 .. Len(chain)
  BY <1>1, <1>5, SendKeeps DEF Send, GatewayTypeOK
<1>6. CASE Answer
  <2>1. PICK result \in ResultsOf(call) : Leave(result)
    BY <1>6 DEF Answer
  <2>2. result \in {"answer", "raised", "nothing"}
    BY <2>1 DEF ResultsOf
  <2>3. tried' \subseteq Models
    BY <1>1, <1>5, <1>6 DEF Answer, GatewayTypeOK
  <2> QED  BY <1>5, <1>6, <2>1, <2>2, <2>3, LeaveKeeps DEF Answer
<1>7. ASSUME NEW error \in DOMAIN Transient, Fail(error)
      PROVE  GatewayIInv'
  <2>1. Send
    BY <1>7 DEF Fail
  <2>2. ASSUME UNCHANGED <<chain, at, tried, out>>, key' \in 1 .. 2,
               attempt' \in 0 .. MaxRetries - 1
        PROVE  GatewayIInv'
    <3>1. GatewayTypeOK'
      BY <1>1, <1>5, <2>1, <2>2 DEF GatewayTypeOK
    <3>2. NobodyIsSkipped' /\ UnderWay'
      <4>1. UNCHANGED <<chain, at, tried, out, settings, call>>
        BY <1>5, <2>1, <2>2
      <4>2. NobodyIsSkipped'
        BY <1>1, <4>1 DEF NobodyIsSkipped, Failure, ResultsOf, ChainNames
      <4>3. UnderWay'
        BY <1>1, <4>1 DEF UnderWay
      <4> QED  BY <4>2, <4>3
    <3> QED  BY <1>5, <2>1, <3>1, <3>2 DEF GatewayIInv, GatewayInv
  <2>3. CASE Retry(error) /\ UNCHANGED <<chain, at, key, tried, out>>
    <3>1. attempt' \in 0 .. MaxRetries - 1 /\ key' \in 1 .. 2
      BY <1>1, <2>3 DEF Retry, GatewayTypeOK
    <3> QED  BY <2>2, <2>3, <3>1
  <2>4. CASE /\ MoreKeys /\ key' = key + 1 /\ attempt' = 0
             /\ UNCHANGED <<chain, at, tried, out>>
    <3>1. attempt' \in 0 .. MaxRetries - 1 /\ key' \in 1 .. 2
      BY <1>1, <2>4 DEF MoreKeys, GatewayTypeOK, Settings
    <3> QED  BY <2>2, <2>4, <3>1
  <2>5. CASE NextModel
    BY <1>5, <2>1, <2>5, NextKeeps
  <2> QED  BY <1>7, <2>3, <2>4, <2>5 DEF Fail
<1>8. CASE UNCHANGED gatewayVars
  <2>1. GatewayTypeOK'
    BY <1>1, <1>8 DEF gatewayVars, GatewayTypeOK
  <2>2. LocalStaysLocal' /\ NoDoomedRequest'
    BY <1>2, <1>8 DEF gatewayVars
  <2>3. NobodyIsSkipped'
    BY <1>1, <1>8 DEF gatewayVars, NobodyIsSkipped, Failure, ResultsOf, ChainNames
  <2>4. UnderWay'
    <3>1. /\ settings' = settings /\ call' = call /\ chain' = chain
          /\ at' = at /\ tried' = tried /\ out' = out
      BY <1>8 DEF gatewayVars
    <3>2. UnderWay
      BY <1>1
    <3> QED  BY <3>1, <3>2 DEF UnderWay
  <2> QED  BY <2>1, <2>2, <2>3, <2>4 DEF GatewayIInv, GatewayInv
<1> QED  BY <1>3, <1>4, <1>6, <1>7, <1>8 DEF GatewayNext, GatewayStep

\* For any names, rosters and retries: whatever fails, nobody in the chain is
\* passed over; and if the local model's name is a bare one, a prompt that was to
\* stay here stays and a routed call asks nobody without a key (agentica_core/llm/gateway.py).
THEOREM CallsStayInBounds == GatewaySpec => []GatewayInv
<1>1. GatewayIInv => GatewayInv
  BY DEF GatewayIInv
<1> QED  BY <1>1, GatewayStart, GatewayStepKeeps, PTL DEF GatewaySpec
=============================================================================
