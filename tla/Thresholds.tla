------------------------------ MODULE Thresholds ------------------------------
(***************************************************************************)
(* The contour thresholds that the campaign tries (campaign.py,            *)
(* propose_threshold): each one is computed from the candidates so far,    *)
(* their thresholds and the imbalance that was measured, which is None if  *)
(* a split ratio is None or 0.                                             *)
(*                                                                         *)
(* Thresholds are integers, Scale of them for 0.005, and quotients are     *)
(* rounded down: with Scale a multiple of 6^3 they are exact for six       *)
(* candidates and imbalances from -2 to 2.  Imbalances that differ do so   *)
(* by more than 1e-8.  The campaign (see Campaign) ends the search early   *)
(* when a candidate is accepted and balanced; a prefix of a behaviour here.*)
(***************************************************************************)
EXTENDS Integers, Sequences

CONSTANTS Scale, Imbalances

ASSUME ScaleAssumption == Scale \in Nat \ {0}

BINARY_CANDIDATES == 6
LOW == 88 * Scale
HIGH == 106 * Scale
MAX_STEP == 4 * Scale
None == 1000

\* The imbalances that may be measured; None stands for one that cannot be computed.
ASSUME ImbalancesAssumption == Imbalances \subseteq Int \ {None}

VARIABLES
  candidates, \* the candidates, with what was measured
  given       \* whether the search was given up

thresholdVars == <<candidates, given>>

ThresholdInit == candidates = <<>> /\ given = FALSE

-----------------------------------------------------------------------------
Distance(m, n) == IF m < n THEN n - m ELSE m - n
Higher(m, n) == IF m < n THEN n ELSE m
Lesser(m, n) == IF m < n THEN m ELSE n

\* Farther from each other than REPEAT_TOLERANCE, 0.000001.
Apart(m, n) == 5000 * Distance(m, n) > Scale

Previous(rows) == {rows[i].threshold : i \in DOMAIN rows}
Measured(rows) == {r \in {rows[i] : i \in DOMAIN rows} : r.f # None}

\* The best row so far, or the first one if nothing was measured.
Anchor(rows) ==
  IF Measured(rows) = {} THEN rows[1]
  ELSE CHOOSE a \in Measured(rows) : \A b \in Measured(rows) :
         \/ Distance(a.f, 0) < Distance(b.f, 0)
         \/ Distance(a.f, 0) = Distance(b.f, 0) /\ a.threshold <= b.threshold

Lower(rows) == Higher(LOW, Anchor(rows).threshold - MAX_STEP)
Upper(rows) == Lesser(HIGH, Anchor(rows).threshold + MAX_STEP)

Usable(rows, value) ==
  /\ value \in Lower(rows) .. Upper(rows)
  /\ \A old \in Previous(rows) : Apart(value, old)

\* secant: no value, or one.
Secant(a, b) ==
  LET rise == b.f - a.f
      sign == IF rise < 0 THEN -1 ELSE 1
  IN IF rise = 0 THEN {}
     ELSE {b.threshold - (sign * b.f * (b.threshold - a.threshold)) \div (sign * rise)}

Opposed(a, b) == (a.f < 0 /\ 0 < b.f) \/ (b.f < 0 /\ 0 < a.f)

Brackets(rows) ==
  {pair \in Measured(rows) \X Measured(rows) :
     pair[1].threshold < pair[2].threshold /\ Opposed(pair[1], pair[2])}

Width(pair) == pair[2].threshold - pair[1].threshold

\* Mutant: the first bracket in the order of thresholds.
FirstBracket(rows) ==
  CHOOSE p \in Brackets(rows) : \A q \in Brackets(rows) :
    \/ p[1].threshold < q[1].threshold
    \/ p[1].threshold = q[1].threshold /\ p[2].threshold >= q[2].threshold

Narrowest(rows) ==
  CHOOSE p \in Brackets(rows) : \A q \in Brackets(rows) :
    \/ Width(p) < Width(q)
    \/ Width(p) = Width(q) /\ p[1].threshold <= q[1].threshold

Within(value, pair) == pair[1].threshold < value /\ value < pair[2].threshold

\* The secant of the bracket, or the middle of the part within the anchor's step.
ProposedInside(rows) ==
  LET pair == Narrowest(rows)
      lower == Higher(Lower(rows), pair[1].threshold)
      upper == Lesser(Upper(rows), pair[2].threshold)
      fresh(values) == {v \in values : Within(v, pair) /\ Usable(rows, v)}
      interpolated == fresh(Secant(pair[1], pair[2]))
  IN IF interpolated # {} THEN interpolated
     ELSE IF lower < upper THEN fresh({lower + (upper - lower) \div 2}) ELSE {}

Neighbours(rows) ==
  LET a == Anchor(rows)
  IN {r \in Measured(rows) : r # a /\ r.f # a.f}

Neighbour(rows) ==
  LET a == Anchor(rows)
      far(r) == Distance(r.threshold, a.threshold)
  IN CHOOSE r \in Neighbours(rows) : \A s \in Neighbours(rows) :
       far(r) < far(s) \/ (far(r) = far(s) /\ r.threshold <= s.threshold)

\* Without a bracket: the secant with the nearest row of another imbalance, cut
\* off at the step, or the nearest of a fixed list around the anchor.
ProposedOutside(rows) ==
  LET at == Anchor(rows).threshold
      low == Lower(rows)
      high == Upper(rows)
      secant == IF Neighbours(rows) = {} THEN {} ELSE Secant(Neighbour(rows), Anchor(rows))
      clamped == {Lesser(high, Higher(low, v)) : v \in secant}
      offsets == <<-1, 1, -2, 2, -3, 3, -4, 4>>
      listed == [i \in 1 .. 8 |-> at + offsets[i] * Scale]
                \o [i \in 1 .. BINARY_CANDIDATES |->
                      low + ((high - low) * i) \div (BINARY_CANDIDATES + 1)]
      fresh == {i \in DOMAIN listed : Usable(rows, listed[i])}
  IN IF \E v \in clamped : Usable(rows, v) THEN clamped
     ELSE {listed[i] : i \in {j \in fresh : \A k \in fresh : j <= k}}

Probe == <<100 * Scale, 99 * Scale, 101 * Scale>>

\* propose_threshold: one value, or none ("No fresh threshold").
ProposeThreshold(rows) ==
  IF rows = <<>> THEN {Probe[1]}
  ELSE IF Len(rows) < 3 /\ Usable(rows, Probe[Len(rows) + 1]) THEN {Probe[Len(rows) + 1]}
  ELSE IF Brackets(rows) # {} THEN ProposedInside(rows)
  ELSE ProposedOutside(rows)

-----------------------------------------------------------------------------
\* A candidate is extracted, solved and measured.
TryThreshold ==
  /\ ~given /\ Len(candidates) < BINARY_CANDIDATES
  /\ \E value \in ProposeThreshold(candidates), f \in Imbalances \cup {None} :
       candidates' = Append(candidates, [threshold |-> value, f |-> f])
  /\ UNCHANGED given

\* The ValueError ends the campaign as an execution failure.
GiveUp ==
  /\ ~given /\ Len(candidates) < BINARY_CANDIDATES
  /\ ProposeThreshold(candidates) = {}
  /\ given' = TRUE
  /\ UNCHANGED candidates

ThresholdNext == TryThreshold \/ GiveUp
ThresholdSpec == ThresholdInit /\ [][ThresholdNext]_thresholdVars

-----------------------------------------------------------------------------
\* Once the three probes are measured, "a sign bracket takes priority and confines
\* interpolation to that bracket": the brackets of later candidates are nested,
\* and each candidate that is measured and not balanced makes them narrower.
BracketsNest ==
  \A i \in 3 .. Len(candidates) - 1 :
    LET before == SubSeq(candidates, 1, i)
        after  == SubSeq(candidates, 1, i + 1)
    IN Brackets(before) # {} =>
         LET p == Narrowest(before)
             q == Narrowest(after)
         IN /\ p[1].threshold <= q[1].threshold /\ q[2].threshold <= p[2].threshold
            /\ candidates[i + 1].f \notin {0, None} => Width(q) < Width(p)

\* The brackets close, and the search is given up before its six candidates are
\* spent only if one between two of opposite imbalance was balanced already or gave
\* no ratio, or if those two are so close that the middle would repeat one of them.
BracketsClose ==
  /\ BracketsNest
  /\ given =>
       /\ Brackets(candidates) # {}
       /\ LET pair == Narrowest(candidates)
          IN \/ \E i \in DOMAIN candidates :
                  Within(candidates[i].threshold, pair) /\ candidates[i].f \in {0, None}
             \/ ~Apart(Width(pair) \div 2, 0)
=============================================================================
