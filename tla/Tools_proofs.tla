----------------------------- MODULE Tools_proofs -----------------------------
(***************************************************************************)
(* Proofs about the functions of the tools that keep no state, for every   *)
(* input: the complexity ratchet and the tables of Stringprep              *)
(* (QualityGates), and the percentages of the README (Compatibility).      *)
(***************************************************************************)
EXTENDS QualityGates, Compatibility, SequenceTheorems, WellFoundedInduction, TLAPS

-----------------------------------------------------------------------------
(* The ratchet, for every baseline and every measurement. *)

\* What a scan and a baseline give: functions from identities to naturals.
IsMeasurement(scores) ==
    /\ scores = [f \in DOMAIN scores |-> scores[f]]
    /\ \A f \in DOMAIN scores : scores[f] \in Nat

\* An empty list of issues says that the hotspots are exactly the functions above
\* the limit, with exactly their scores.
LEMMA NoIssues ==
    ASSUME NEW limit \in Nat, NEW hotspots, NEW measured,
           IsMeasurement(hotspots), IsMeasurement(measured),
           \A f \in DOMAIN hotspots : hotspots[f] > limit
    PROVE  ComplexityIssues([limit |-> limit, hotspots |-> hotspots], measured) = {}
              <=> /\ DOMAIN hotspots = {f \in DOMAIN measured : measured[f] > limit}
                  /\ \A f \in DOMAIN hotspots : measured[f] = hotspots[f]
<1> DEFINE new == {f \in DOMAIN measured \ DOMAIN hotspots : measured[f] > limit}
           gone == DOMAIN hotspots \ DOMAIN measured
           moved == {f \in DOMAIN hotspots \cap DOMAIN measured : measured[f] # hotspots[f]}
<1>1. ComplexityIssues([limit |-> limit, hotspots |-> hotspots], measured)
         = new \cup gone \cup moved
  BY DEF ComplexityIssues
<1>2. new \cup gone \cup moved = {} <=> new = {} /\ gone = {} /\ moved = {}
  OBVIOUS
<1>3. ASSUME new = {}, gone = {}, moved = {}
      PROVE  /\ DOMAIN hotspots = {f \in DOMAIN measured : measured[f] > limit}
             /\ \A f \in DOMAIN hotspots : measured[f] = hotspots[f]
  <2>1. \A f \in DOMAIN hotspots : f \in DOMAIN measured /\ measured[f] = hotspots[f]
    BY <1>3
  <2>2. \A f \in DOMAIN measured : measured[f] > limit => f \in DOMAIN hotspots
    BY <1>3
  <2> QED
    BY <2>1, <2>2
<1>4. ASSUME DOMAIN hotspots = {f \in DOMAIN measured : measured[f] > limit},
             \A f \in DOMAIN hotspots : measured[f] = hotspots[f]
      PROVE  new = {} /\ gone = {} /\ moved = {}
  BY <1>4
<1> QED
  BY <1>1, <1>2, <1>3, <1>4

\* The gate passes with exactly one list of hotspots, the one that --update would
\* write: a function that became worse fails it, and so does one that became
\* better and was not recorded (compare and generated_baseline of
\* check_lua_complexity.py).
THEOREM BaselineIsExact ==
    ASSUME NEW limit \in Nat, limit > 1, NEW hotspots, NEW measured,
           IsMeasurement(hotspots), IsMeasurement(measured)
    PROVE  ComplexityGate([limit |-> limit, hotspots |-> hotspots], measured)
              <=> hotspots = GeneratedBaseline(measured, limit).hotspots
<1> DEFINE baseline == [limit |-> limit, hotspots |-> hotspots]
           hot == {f \in DOMAIN measured : measured[f] > limit}
           generated == [f \in hot |-> measured[f]]
<1>1. GeneratedBaseline(measured, limit).hotspots = generated
  BY DEF GeneratedBaseline
<1>2. ASSUME ComplexityGate(baseline, measured) PROVE hotspots = generated
  <2>1. \A f \in DOMAIN hotspots : hotspots[f] > limit
    BY <1>2 DEF ComplexityGate, ValidBaseline
  <2>2. DOMAIN hotspots = hot /\ \A f \in DOMAIN hotspots : measured[f] = hotspots[f]
    BY <1>2, <2>1, NoIssues DEF ComplexityGate
  <2> QED
    BY <2>2 DEF IsMeasurement
<1>3. ASSUME hotspots = generated PROVE ComplexityGate(baseline, measured)
  <2>1. DOMAIN hotspots = hot /\ \A f \in DOMAIN hotspots : measured[f] = hotspots[f]
    BY <1>3
  <2>2. \A f \in DOMAIN hotspots : hotspots[f] > limit
    BY <2>1
  <2>3. ComplexityIssues(baseline, measured) = {}
    BY <2>1, <2>2, NoIssues
  <2>4. ValidBaseline(baseline)
    BY <2>2 DEF ValidBaseline
  <2> QED
    BY <2>3, <2>4 DEF ComplexityGate
<1> QED
  BY <1>1, <1>2, <1>3

-----------------------------------------------------------------------------
(* The ranges, for every set of code points. *)

LEMMA SmallestNumber ==
    ASSUME NEW T, T \subseteq Nat, T # {}
    PROVE  \E n \in T : \A m \in T : n <= m
<1>1. PICK n \in T : \A m \in T : ~ (<<m, n>> \in OpToRel(<, Nat))
  BY WFMin, NatLessThanWellFounded, Zenon
<1>2. ASSUME NEW m \in T PROVE n <= m
  <2>1. n \in Nat /\ m \in Nat
    OBVIOUS
  <2>2. ~ (m < n)
    BY <1>1, <2>1 DEF OpToRel
  <2> QED
    BY <2>1, <2>2
<1> QED
  BY <1>2

\* One turn of the loop, from what the turns before it have made.
Turn(members, none, before, here) ==
    IF here \notin members THEN before
    ELSE IF before.start = none
    THEN [before EXCEPT !.start = here, !.previous = here]
    ELSE IF here = before.previous + 1
    THEN [before EXCEPT !.previous = here]
    ELSE [ranges |-> Append(before.ranges, <<before.start, before.previous>>),
          start |-> here, previous |-> here]

Begin(none) == [ranges |-> <<>>, start |-> none, previous |-> none]

\* The turns up to n.
IsPass(f, members, bound, n) ==
    /\ f[0] = Begin(bound)
    /\ \A p \in 1 .. n : f[p] = Turn(members, bound, f[p - 1], p - 1)

LEMMA SomePass ==
    ASSUME NEW bound \in Nat, NEW members
    PROVE  \E f : IsPass(f, members, bound, bound)
<1> DEFINE T == {n \in Nat : ~ \E f : IsPass(f, members, bound, n)}
<1> SUFFICES ASSUME T # {} PROVE FALSE
  OBVIOUS
<1>1. PICK n \in T : \A m \in T : n <= m
  BY SmallestNumber
<1>2. n # 0
  <2>1. IsPass([p \in {0} |-> Begin(bound)], members, bound, 0)
    BY DEF IsPass
  <2> QED
    BY <2>1
<1>3. n \in Nat /\ n - 1 \in Nat /\ n - 1 \notin T
  BY <1>1, <1>2
<1>4. PICK f : IsPass(f, members, bound, n - 1)
  BY <1>3
<1> DEFINE g == [p \in 0 .. n |-> IF p = n THEN Turn(members, bound, f[n - 1], n - 1) ELSE f[p]]
<1>5. IsPass(g, members, bound, n)
  <2>1. g[0] = Begin(bound)
    BY <1>2, <1>3, <1>4 DEF IsPass
  <2>2. ASSUME NEW p \in 1 .. n PROVE g[p] = Turn(members, bound, g[p - 1], p - 1)
    <3>1. g[p - 1] = f[p - 1]
      BY <1>3
    <3>2. CASE p = n
      BY <3>1, <3>2
    <3>3. CASE p # n
      <4>1. p \in 1 .. n - 1
        BY <1>3, <3>3
      <4> QED
        BY <1>4, <3>1, <3>3, <4>1 DEF IsPass
    <3> QED
      BY <3>2, <3>3
  <2> QED
    BY <2>1, <2>2 DEF IsPass
<1> QED
  BY <1>1, <1>5

\* What the code returns, from the last turn.
Returned(last, none) ==
    IF last.start = none THEN last.ranges
    ELSE Append(last.ranges, <<last.start, last.previous>>)

LEMMA RangesAre ==
    ASSUME NEW bound \in Nat, NEW members
    PROVE  \E f : /\ IsPass(f, members, bound, bound)
                  /\ Ranges(members, bound) = Returned(f[bound], bound)
<1> DEFINE Result(f) == [point \in 0 .. bound |->
                IF point = 0 THEN Begin(bound)
                ELSE Turn(members, bound, f[point - 1], point - 1)]
           pass == CHOOSE f : f = Result(f)
<1>1. Ranges(members, bound) = Returned(pass[bound], bound)
  BY DEF Ranges, Returned, Turn, Begin
<1>2. PICK f : IsPass(f, members, bound, bound)
  BY SomePass
<1> DEFINE g == [p \in 0 .. bound |-> f[p]]
<1>3. g = Result(g)
  <2>1. ASSUME NEW p \in 0 .. bound PROVE g[p] = Result(g)[p]
    <3>1. CASE p = 0
      BY <1>2, <3>1 DEF IsPass
    <3>2. CASE p # 0
      <4>1. p \in 1 .. bound /\ p - 1 \in 0 .. bound
        BY <3>2
      <4> QED
        BY <1>2, <3>2, <4>1 DEF IsPass
    <3> QED
      BY <3>1, <3>2
  <2> QED
    BY <2>1
<1>4. pass = Result(pass)
  <2> HIDE DEF g, Result
  <2> QED
    BY <1>3
<1>5. IsPass(pass, members, bound, bound)
  <2> HIDE DEF pass
  <2>1. \A p \in 0 .. bound : pass[p] = IF p = 0 THEN Begin(bound)
                                        ELSE Turn(members, bound, pass[p - 1], p - 1)
    BY <1>4
  <2> QED
    BY <2>1 DEF IsPass
<1> QED
  BY <1>1, <1>5

\* In order and apart, the ranges hold exactly the members below `limit'.
Exact(list, members, limit) ==
    /\ list \in Seq(Nat \X Nat)
    /\ \A i \in 1 .. Len(list) : list[i][1] <= list[i][2] /\ list[i][2] < limit
    /\ \A i \in 1 .. Len(list) - 1 : list[i][2] + 1 < list[i + 1][1]
    /\ \A n \in 0 .. limit - 1 :
          n \in members <=> \E i \in 1 .. Len(list) : list[i][1] <= n /\ n <= list[i][2]

\* What the last range leaves open, below `start'.
Apart(list, start) == list # <<>> => list[Len(list)][2] + 1 < start

LEMMA OneMoreRange ==
    ASSUME NEW members, NEW list, NEW start \in Nat, NEW previous \in Nat, NEW limit \in Nat,
           Exact(list, members, start), Apart(list, start),
           start <= previous, previous < limit,
           \A n \in start .. previous : n \in members,
           \A n \in previous + 1 .. limit - 1 : n \notin members
    PROVE  /\ Exact(Append(list, <<start, previous>>), members, limit)
           /\ previous + 1 < limit => Apart(Append(list, <<start, previous>>), limit)
<1> DEFINE new == Append(list, <<start, previous>>)
           len == Len(list)
<1>1. list \in Seq(Nat \X Nat) /\ len \in Nat
  BY LenProperties DEF Exact
<1>2. /\ new \in Seq(Nat \X Nat) /\ Len(new) = len + 1
      /\ \A i \in 1 .. len : new[i] = list[i]
      /\ new[len + 1] = <<start, previous>>
  BY <1>1, AppendProperties
<1>3. \A i \in 1 .. len : list[i] \in Nat \X Nat /\ list[i][1] \in Nat /\ list[i][2] \in Nat
  BY <1>1
<1> HIDE DEF new, len
<1>4. new[len + 1][1] = start /\ new[len + 1][2] = previous
  BY <1>2
<1>5. ASSUME NEW i \in 1 .. len + 1
      PROVE  new[i][1] <= new[i][2] /\ new[i][2] < limit
  <2>1. CASE i = len + 1
    BY <1>4, <2>1
  <2>2. CASE i # len + 1
    <3>1. i \in 1 .. len
      BY <1>1, <2>2
    <3>2. list[i][1] <= list[i][2] /\ list[i][2] < start
      BY <3>1 DEF Exact, len
    <3> QED
      BY <1>2, <1>3, <3>1, <3>2
  <2> QED
    BY <2>1, <2>2
<1>6. ASSUME NEW i \in 1 .. len PROVE new[i][2] + 1 < new[i + 1][1]
  <2>1. CASE i = len
    <3>1. list # <<>>
      BY <1>1, <2>1 DEF len
    <3>2. list[len][2] + 1 < start
      BY <3>1 DEF Apart, len
    <3> QED
      BY <1>2, <1>4, <2>1, <3>2
  <2>2. CASE i # len
    <3>1. i \in 1 .. len - 1 /\ i + 1 \in 1 .. len
      BY <1>1, <2>2
    <3> QED
      BY <1>2, <3>1 DEF Exact, len
  <2> QED
    BY <2>1, <2>2
<1>7. ASSUME NEW n \in 0 .. limit - 1
      PROVE  n \in members <=> \E i \in 1 .. len + 1 : new[i][1] <= n /\ n <= new[i][2]
  <2>1. CASE n < start
    <3>1. n \in 0 .. start - 1
      BY <2>1
    <3>2. n \in members <=> \E i \in 1 .. len : list[i][1] <= n /\ n <= list[i][2]
      BY <3>1 DEF Exact, len
    <3>3. ~ (new[len + 1][1] <= n)
      BY <1>4, <2>1
    <3>4. \A i \in 1 .. len + 1 : i \in 1 .. len \/ i = len + 1
      BY <1>1
    <3>5. \A i \in 1 .. len : i \in 1 .. len + 1
      BY <1>1
    <3> QED
      BY <1>2, <3>2, <3>3, <3>4, <3>5
  <2>2. CASE start <= n /\ n <= previous
    <3>1. n \in members
      BY <2>2
    <3>2. len + 1 \in 1 .. len + 1
      BY <1>1
    <3> QED
      BY <1>4, <2>2, <3>1, <3>2
  <2>3. CASE previous < n
    <3>1. n \notin members
      <4>1. n \in previous + 1 .. limit - 1
        BY <2>3
      <4> QED
        BY <4>1
    <3>2. ASSUME NEW i \in 1 .. len + 1 PROVE ~ (n <= new[i][2])
      <4>1. CASE i = len + 1
        BY <1>4, <2>3, <4>1
      <4>2. CASE i # len + 1
        <5>1. i \in 1 .. len
          BY <1>1, <4>2
        <5>2. list[i][2] < start
          BY <5>1 DEF Exact, len
        <5> QED
          BY <1>2, <1>3, <2>3, <5>1, <5>2
      <4> QED
        BY <4>1, <4>2
    <3> QED
      BY <3>1, <3>2
  <2> QED
    BY <2>1, <2>2, <2>3
<1>8. Exact(new, members, limit)
  <2>1. \A i \in 1 .. Len(new) - 1 : i \in 1 .. len
    BY <1>1, <1>2
  <2> QED
    BY <1>2, <1>5, <1>6, <1>7, <2>1 DEF Exact
<1>9. previous + 1 < limit => Apart(new, limit)
  BY <1>2, <1>4 DEF Apart
<1> QED
  BY <1>8, <1>9 DEF new

\* What a turn leaves: no range is open before the first member, and afterwards
\* the open one holds what the code points since `start' have of the members.
Found(members, none, turn, limit) ==
    /\ turn \in [ranges : Seq(Nat \X Nat), start : Nat, previous : Nat]
    /\ turn.start = none => turn.ranges = <<>> /\ \A n \in 0 .. limit - 1 : n \notin members
    /\ turn.start # none =>
          /\ turn.start <= turn.previous /\ turn.previous < limit
          /\ \A n \in turn.start .. turn.previous : n \in members
          /\ \A n \in turn.previous + 1 .. limit - 1 : n \notin members
          /\ Exact(turn.ranges, members, turn.start) /\ Apart(turn.ranges, turn.start)

LEMMA TurnFinds ==
    ASSUME NEW members, NEW none \in Nat, NEW here \in Nat, here < none, NEW before,
           Found(members, none, before, here)
    PROVE  Found(members, none, Turn(members, none, before, here), here + 1)
<1> DEFINE turn == Turn(members, none, before, here)
           Turns == [ranges : Seq(Nat \X Nat), start : Nat, previous : Nat]
<1>1. /\ before \in Turns /\ before.ranges \in Seq(Nat \X Nat)
      /\ before.start \in Nat /\ before.previous \in Nat
  BY DEF Found
<1>2. \A n \in 0 .. (here + 1) - 1 : n \in 0 .. here - 1 \/ n = here
  OBVIOUS
<1>3. CASE here \notin members
  <2>1. turn = before
    BY <1>3 DEF Turn
  <2>2. CASE before.start = none
    BY <1>1, <1>2, <1>3, <2>1, <2>2 DEF Found
  <2>3. CASE before.start # none
    <3>1. \A n \in before.previous + 1 .. (here + 1) - 1 :
             n \in before.previous + 1 .. here - 1 \/ n = here
      BY <1>1
    <3>2. before.previous < here + 1
      BY <1>1, <2>3 DEF Found
    <3> QED
      BY <1>1, <1>3, <2>1, <2>3, <3>1, <3>2 DEF Found
  <2> QED
    BY <2>2, <2>3
<1>4. CASE here \in members /\ before.start = none
  <2>1. turn = [before EXCEPT !.start = here, !.previous = here]
    BY <1>4 DEF Turn
  <2>2. /\ turn \in Turns /\ turn.ranges = before.ranges /\ turn.start = here
        /\ turn.previous = here
    BY <1>1, <2>1
  <2>3. before.ranges = <<>> /\ \A n \in 0 .. here - 1 : n \notin members
    BY <1>4 DEF Found
  <2> HIDE DEF turn
  <2>4. turn.start # none /\ turn.start <= turn.previous /\ turn.previous < here + 1
    BY <2>2
  <2>5. \A n \in turn.start .. turn.previous : n \in members
    <3>1. \A n \in here .. here : n = here
      OBVIOUS
    <3> QED
      BY <1>4, <2>2, <3>1
  <2>6. \A n \in turn.previous + 1 .. (here + 1) - 1 : n \notin members
    BY <2>2
  <2>7. Exact(turn.ranges, members, turn.start)
    <3>1. Len(turn.ranges) = 0 /\ turn.ranges \in Seq(Nat \X Nat)
      BY <1>1, <2>2, <2>3
    <3> QED
      BY <2>2, <2>3, <3>1 DEF Exact
  <2>8. Apart(turn.ranges, turn.start)
    BY <2>2, <2>3 DEF Apart
  <2> QED
    BY <2>2, <2>4, <2>5, <2>6, <2>7, <2>8 DEF Found, turn
<1>5. CASE here \in members /\ before.start # none /\ here = before.previous + 1
  <2>1. turn = [before EXCEPT !.previous = here]
    BY <1>5 DEF Turn
  <2>2. /\ turn \in Turns /\ turn.ranges = before.ranges /\ turn.start = before.start
        /\ turn.previous = here
    BY <1>1, <2>1
  <2> HIDE DEF turn
  <2>3. /\ before.start <= before.previous
        /\ \A n \in before.start .. before.previous : n \in members
        /\ Exact(before.ranges, members, before.start) /\ Apart(before.ranges, before.start)
    BY <1>5 DEF Found
  <2>4. turn.start <= turn.previous /\ turn.previous < here + 1
    BY <1>1, <1>5, <2>2, <2>3
  <2>5. \A n \in turn.start .. turn.previous : n \in members
    <3>1. \A n \in before.start .. here : n \in before.start .. before.previous \/ n = here
      BY <1>1, <1>5
    <3> QED
      BY <1>5, <2>2, <2>3, <3>1
  <2>6. \A n \in turn.previous + 1 .. (here + 1) - 1 : n \notin members
    BY <2>2
  <2> QED
    BY <1>5, <2>2, <2>3, <2>4, <2>5, <2>6 DEF Found, turn
<1>6. CASE here \in members /\ before.start # none /\ here # before.previous + 1
  <2> DEFINE list == Append(before.ranges, <<before.start, before.previous>>)
  <2>1. turn = [ranges |-> list, start |-> here, previous |-> here]
    BY <1>6 DEF Turn
  <2>2. /\ before.start <= before.previous /\ before.previous < here
        /\ \A n \in before.start .. before.previous : n \in members
        /\ \A n \in before.previous + 1 .. here - 1 : n \notin members
        /\ Exact(before.ranges, members, before.start) /\ Apart(before.ranges, before.start)
    BY <1>6 DEF Found
  <2>3. before.previous + 1 < here
    BY <1>1, <1>6, <2>2
  <2>4. Exact(list, members, here) /\ Apart(list, here)
    BY <1>1, <2>2, <2>3, OneMoreRange
  <2>5. list \in Seq(Nat \X Nat)
    BY <2>4 DEF Exact
  <2> HIDE DEF list
  <2>6. turn \in Turns /\ turn.ranges = list /\ turn.start = here /\ turn.previous = here
    BY <2>1, <2>5
  <2> HIDE DEF turn
  <2>7. turn.start # none /\ turn.start <= turn.previous /\ turn.previous < here + 1
    BY <2>6
  <2>8. \A n \in turn.start .. turn.previous : n \in members
    <3>1. \A n \in here .. here : n = here
      OBVIOUS
    <3> QED
      BY <1>6, <2>6, <3>1
  <2>9. \A n \in turn.previous + 1 .. (here + 1) - 1 : n \notin members
    BY <2>6
  <2> QED
    BY <2>4, <2>6, <2>7, <2>8, <2>9 DEF Found, turn
<1> QED
  BY <1>3, <1>4, <1>5, <1>6

\* The ranges of a table are in order, apart from each other (so they could not be
\* fewer) and hold exactly the code points of the set, whatever it is (ranges of
\* generate_stringprep_tables.py).
THEOREM RangesAreExact ==
    ASSUME NEW bound \in Nat, NEW members
    PROVE  Exact(Ranges(members, bound), members, bound)
<1>1. PICK f : /\ IsPass(f, members, bound, bound)
               /\ Ranges(members, bound) = Returned(f[bound], bound)
  BY RangesAre
<1> DEFINE T == {n \in 0 .. bound : ~ Found(members, bound, f[n], n)}
<1>2. T = {}
  <2> SUFFICES ASSUME T # {} PROVE FALSE
    OBVIOUS
  <2>1. PICK n \in T : \A m \in T : n <= m
    <3>1. T \subseteq Nat
      OBVIOUS
    <3> QED
      BY <3>1, SmallestNumber
  <2>2. n \in Nat /\ n <= bound
    OBVIOUS
  <2>3. CASE n = 0
    <3>1. f[0] = Begin(bound)
      BY <1>1 DEF IsPass
    <3>2. Found(members, bound, Begin(bound), 0)
      <4>1. \A m \in 0 .. 0 - 1 : m \notin members
        OBVIOUS
      <4> QED
        BY <4>1 DEF Found, Begin
    <3> QED
      BY <2>1, <2>3, <3>1, <3>2
  <2>4. CASE n # 0
    <3>1. /\ n - 1 \in 0 .. bound /\ n - 1 \in Nat /\ n - 1 < bound /\ n \in 1 .. bound
          /\ (n - 1) + 1 = n /\ ~ (n <= n - 1)
      BY <2>2, <2>4
    <3>2. Found(members, bound, f[n - 1], n - 1)
      BY <2>1, <3>1
    <3>3. Found(members, bound, Turn(members, bound, f[n - 1], n - 1), (n - 1) + 1)
      BY <3>1, <3>2, TurnFinds
    <3>4. f[n] = Turn(members, bound, f[n - 1], n - 1)
      BY <1>1, <3>1 DEF IsPass
    <3> QED
      BY <2>1, <3>1, <3>3, <3>4
  <2> QED
    BY <2>3, <2>4
<1> DEFINE last == f[bound]
<1>3. Found(members, bound, last, bound)
  <2>1. bound \in 0 .. bound
    OBVIOUS
  <2> QED
    BY <1>2, <2>1
<1> HIDE DEF last
<1>4. CASE last.start = bound
  <2>1. Ranges(members, bound) = <<>>
    BY <1>1, <1>3, <1>4 DEF Returned, Found, last
  <2>2. \A n \in 0 .. bound - 1 : n \notin members
    BY <1>3, <1>4 DEF Found
  <2>3. <<>> \in Seq(Nat \X Nat) /\ Len(<<>>) = 0
    OBVIOUS
  <2> DEFINE list == Ranges(members, bound)
  <2>4. list \in Seq(Nat \X Nat) /\ Len(list) = 0
    BY <2>1, <2>3
  <2> HIDE DEF list
  <2>5. Exact(list, members, bound)
    BY <2>2, <2>4 DEF Exact
  <2> QED
    BY <2>5 DEF list
<1>5. CASE last.start # bound
  <2>1. Ranges(members, bound) = Append(last.ranges, <<last.start, last.previous>>)
    BY <1>1, <1>5 DEF Returned, last
  <2> DEFINE list == last.ranges
             start == last.start
             previous == last.previous
  <2>2. start \in Nat /\ previous \in Nat
    BY <1>3 DEF Found
  <2>3. /\ start <= previous /\ previous < bound
        /\ \A n \in start .. previous : n \in members
        /\ \A n \in previous + 1 .. bound - 1 : n \notin members
        /\ Exact(list, members, start) /\ Apart(list, start)
    BY <1>3, <1>5 DEF Found
  <2> HIDE DEF list, start, previous
  <2>4. Exact(Append(list, <<start, previous>>), members, bound)
    BY <2>2, <2>3, OneMoreRange
  <2> QED
    BY <2>1, <2>4 DEF list, start, previous
<1> QED
  BY <1>4, <1>5

\* Two pairs of code points never have one key (composition_entry of
\* generate_stringprep_tables.py, which keeps the compositions by it).
THEOREM KeysAreApart ==
    ASSUME NEW bound \in Nat, NEW a \in 0 .. bound - 1, NEW b \in 0 .. bound - 1,
           NEW c \in 0 .. bound - 1, NEW d \in 0 .. bound - 1,
           CompositionKey(a, b, bound) = CompositionKey(c, d, bound)
    PROVE  a = c /\ b = d
<1>1. ASSUME NEW x \in 0 .. bound - 1, NEW y \in 0 .. bound - 1,
             NEW z \in 0 .. bound - 1, NEW w \in 0 .. bound - 1, x < z
      PROVE  x * bound + y < z * bound + w
  <2>1. (z - x - 1) * bound >= 0
    <3> DEFINE k == z - x - 1
    <3>1. k \in Nat
      BY <1>1
    <3> HIDE DEF k
    <3>2. k * bound \in Nat
      BY <3>1
    <3> QED
      BY <3>2 DEF k
  <2>2. (z - x - 1) * bound = z * bound - x * bound - bound
    OBVIOUS
  <2>3. x * bound \in Int /\ z * bound \in Int
    OBVIOUS
  <2> QED
    BY <2>1, <2>2, <2>3
<1>2. ~ (a < c) /\ ~ (c < a)
  BY <1>1 DEF CompositionKey
<1>3. a = c
  BY <1>2
<1>4. b = d
  <2>1. a * bound \in Int
    OBVIOUS
  <2> QED
    BY <1>3, <2>1 DEF CompositionKey
<1> QED
  BY <1>3, <1>4

-----------------------------------------------------------------------------
(* The rows of the README's table, for all counts. *)

IsCounts(counts) == counts \in [OutcomeStatus -> Nat]

LEMMA CountsAre ==
    ASSUME NEW counts, IsCounts(counts)
    PROVE  /\ counts["passed"] \in Nat /\ Incomplete(counts) \in Nat
           /\ counts["unsupported"] \in Nat /\ counts["old_server_only"] \in Nat
           /\ counts["unscored_exclusion"] \in Nat
           /\ Scored(counts) = counts["passed"] + Incomplete(counts) /\ Scored(counts) \in Nat
  BY DEF IsCounts, OutcomeStatus, CatalogStatus, NonExecution, Scored, Incomplete

\* Products are kept apart from the linear arithmetic around them.
Times(m, c) == m * c

LEMMA TimesAre ==
    /\ \A m, c \in Nat : Times(m, c) \in Nat
    /\ \A m, c \in Nat : Times(m - 1, c) = Times(m, c) - c
    /\ \A m, n, c \in Nat : m <= n => Times(m, c) <= Times(n, c)
<1>1. ASSUME NEW m \in Nat, NEW c \in Nat
      PROVE  m * c \in Nat /\ (m - 1) * c = m * c - c
  OBVIOUS
<1>2. ASSUME NEW m \in Nat, NEW n \in Nat, NEW c \in Nat, m <= n PROVE m * c <= n * c
  <2>1. (n - m) * c >= 0 /\ (n - m) * c = n * c - m * c
    BY <1>2
  <2> QED
    BY <2>1
<1> QED
  BY <1>1, <1>2 DEF Times

\* n tenths of a percent are nearest to passed of scored.
Nearest(n, passed, scored) ==
    /\ 2 * Times(n, scored) <= 2000 * passed + scored
    /\ 2 * Times(n, scored) + scored >= 2000 * passed

LEMMA TenthsAre ==
    ASSUME NEW counts, IsCounts(counts), Scored(counts) > 0
    PROVE  Tenths(counts) = {n \in 0 .. 1000 : Nearest(n, counts["passed"], Scored(counts))}
<1> DEFINE c == Scored(counts)
           p == counts["passed"]
<1>1. c \in Nat /\ p \in Nat
  BY CountsAre
<1>2. Tenths(counts) = {n \in 0 .. 1000 : /\ c > 0
                                         /\ 2 * n * c <= 2000 * p + c
                                         /\ 2 * n * c + c >= 2000 * p}
  BY DEF Tenths
<1>3. c > 0
  OBVIOUS
<1> HIDE DEF c, p
<1>4. \A n \in 0 .. 1000 : 2 * n * c = 2 * Times(n, c)
  BY <1>1 DEF Times
<1>5. \A n \in 0 .. 1000 :
         2 * n * c <= 2000 * p + c /\ 2 * n * c + c >= 2000 * p <=> Nearest(n, p, c)
  BY <1>4 DEF Nearest
<1>6. ASSUME NEW n \in 0 .. 1000
      PROVE  (c > 0 /\ 2 * n * c <= 2000 * p + c /\ 2 * n * c + c >= 2000 * p)
                = Nearest(n, p, c)
  <2>1. Nearest(n, p, c) \in BOOLEAN
    BY DEF Nearest
  <2> QED
    BY <1>3, <1>5, <2>1
<1>7. Tenths(counts) = {n \in 0 .. 1000 : Nearest(n, p, c)}
  <2> DEFINE R(n) == c > 0 /\ 2 * n * c <= 2000 * p + c /\ 2 * n * c + c >= 2000 * p
  <2>1. Tenths(counts) = {n \in 0 .. 1000 : R(n)}
    BY <1>2, Zenon
  <2>2. \A n \in 0 .. 1000 : R(n) = Nearest(n, p, c)
    BY <1>6
  <2> HIDE DEF R
  <2> QED
    BY <2>1, <2>2
<1> QED
  BY <1>7 DEF c, p

\* Every suite that is scored has a percentage.
LEMMA SomeTenths ==
    ASSUME NEW counts, IsCounts(counts), Scored(counts) > 0
    PROVE  Tenths(counts) # {}
<1> DEFINE p == counts["passed"]
           c == Scored(counts)
           T == {n \in 0 .. 1000 : 2 * Times(n, c) + c >= 2000 * p}
<1>0. Tenths(counts) = {n \in 0 .. 1000 : Nearest(n, p, c)}
  BY TenthsAre
<1>1. p \in Nat /\ c \in Nat /\ p <= c /\ c > 0
  BY CountsAre
<1> HIDE DEF p, c
<1>2. 1000 \in T
  BY <1>1 DEF Times
<1>3. PICK m \in T : \A n \in T : m <= n
  <2>1. T \subseteq Nat /\ T # {}
    BY <1>2
  <2> HIDE DEF T
  <2> QED
    BY <2>1, SmallestNumber
<1>4. m \in 0 .. 1000 /\ 2 * Times(m, c) + c >= 2000 * p
  BY <1>3
<1>5. 2 * Times(m, c) <= 2000 * p + c
  <2>1. CASE m = 0
    <3>1. Times(m, c) = 0
      BY <1>1, <2>1 DEF Times
    <3> QED
      BY <1>1, <3>1
  <2>2. CASE m # 0
    <3>1. m - 1 \in 0 .. 1000 /\ ~ (m <= m - 1)
      BY <1>4, <2>2
    <3>2. ~ (2 * Times(m - 1, c) + c >= 2000 * p)
      BY <1>3, <3>1
    <3>3. Times(m - 1, c) = Times(m, c) - c /\ Times(m, c) \in Nat
      <4>1. m \in Nat
        BY <1>4
      <4> QED
        BY <1>1, <4>1, TimesAre
    <3> QED
      BY <1>1, <3>2, <3>3
  <2> QED
    BY <2>1, <2>2
<1>6. m \in {n \in 0 .. 1000 : Nearest(n, p, c)}
  BY <1>4, <1>5 DEF Nearest
<1> QED
  BY <1>6, <1>0

\* A percentage is 100.0 if all that is scored passes and 0.0 if nothing does, and
\* below 2000 scored outcomes only then (supported_percentage of
\* update_readme_compatibility.py).
THEOREM PercentagesAreHonest ==
    ASSUME NEW counts, IsCounts(counts), Scored(counts) > 0
    PROVE  /\ Tenths(counts) # {}
           /\ Incomplete(counts) = 0 => Tenths(counts) = {1000}
           /\ counts["passed"] = 0 => Tenths(counts) = {0}
           /\ counts["passed"] > 0 /\ Incomplete(counts) > 0 /\ Scored(counts) < 2000
                 => Tenths(counts) \cap {0, 1000} = {}
<1> DEFINE p == counts["passed"]
           c == Scored(counts)
           failed == Incomplete(counts)
<1>1. p \in Nat /\ failed \in Nat /\ c \in Nat /\ c = p + failed /\ c > 0
  BY CountsAre
<1>2. Tenths(counts) = {n \in 0 .. 1000 : Nearest(n, p, c)}
  BY TenthsAre
<1>3. Tenths(counts) # {}
  BY SomeTenths
<1> HIDE DEF p, c, failed
<1>4. /\ Times(0, c) = 0 /\ Times(1, c) = c
      /\ Times(999, c) = 999 * c /\ Times(1000, c) = 1000 * c
  BY <1>1 DEF Times
<1>5. ASSUME failed = 0, NEW n \in 0 .. 1000, Nearest(n, p, c) PROVE n = 1000
  <2> SUFFICES ASSUME n <= 999 PROVE FALSE
    OBVIOUS
  <2>1. n \in Nat /\ 999 \in Nat
    OBVIOUS
  <2>2. Times(n, c) <= Times(999, c) /\ Times(n, c) \in Nat
    BY <1>1, <2>1, TimesAre
  <2>3. 2 * Times(n, c) + c >= 2000 * p
    BY <1>5 DEF Nearest
  <2> QED
    BY <1>1, <1>4, <1>5, <2>2, <2>3
<1>6. ASSUME p = 0, NEW n \in 0 .. 1000, Nearest(n, p, c) PROVE n = 0
  <2> SUFFICES ASSUME 1 <= n PROVE FALSE
    OBVIOUS
  <2>1. n \in Nat /\ 1 \in Nat
    OBVIOUS
  <2>2. Times(1, c) <= Times(n, c) /\ Times(n, c) \in Nat
    BY <1>1, <2>1, TimesAre
  <2>3. 2 * Times(n, c) <= 2000 * p + c
    BY <1>6 DEF Nearest
  <2> QED
    BY <1>1, <1>4, <1>6, <2>2, <2>3
<1>7. ASSUME p > 0, failed > 0, c < 2000 PROVE ~ Nearest(0, p, c) /\ ~ Nearest(1000, p, c)
  <2>1. ~ (2 * Times(0, c) + c >= 2000 * p)
    BY <1>1, <1>4, <1>7
  <2>2. ~ (2 * Times(1000, c) <= 2000 * p + c)
    BY <1>1, <1>4, <1>7
  <2> QED
    BY <2>1, <2>2 DEF Nearest
<1> DEFINE T == Tenths(counts)
<1>8. T # {} /\ T = {n \in 0 .. 1000 : Nearest(n, p, c)}
  BY <1>2, <1>3
<1> HIDE DEF T
<1>9. failed = 0 => T = {1000}
  <2>1. failed = 0 => \A n \in T : n = 1000
    BY <1>5, <1>8
  <2> QED
    BY <1>8, <2>1
<1>10. p = 0 => T = {0}
  <2>1. p = 0 => \A n \in T : n = 0
    BY <1>6, <1>8
  <2> QED
    BY <1>8, <2>1
<1>11. p > 0 /\ failed > 0 /\ c < 2000 => T \cap {0, 1000} = {}
  BY <1>7, <1>8
<1> QED
  BY <1>8, <1>9, <1>10, <1>11 DEF p, c, failed, T

\* A row has a dagger exactly if the note below the table counts some of its
\* fixtures (marked_percentage and scoring_note of update_readme_compatibility.py).
THEOREM DaggersAreExplained ==
    ASSUME NEW counts, IsCounts(counts)
    PROVE  Dagger(counts) <=> Noted(counts) > 0
<1>1. CASE Scored(counts) > 0
  BY <1>1, CountsAre DEF Dagger, Noted
<1>2. CASE ~ (Scored(counts) > 0)
  BY <1>2, CountsAre DEF Dagger, Noted
<1> QED
  BY <1>1, <1>2

\* The marker of a row and its percentage tell the same story, below 2000 scored
\* outcomes: everything passes, something passes, nothing does (status_marker and
\* supported_percentage of update_readme_compatibility.py).
THEOREM MarkersAgree ==
    ASSUME NEW counts, IsCounts(counts), Scored(counts) > 0, Scored(counts) < 2000
    PROVE  /\ Marker(counts) = "complete" <=> Tenths(counts) = {1000}
           /\ Marker(counts) = "partial" <=> Tenths(counts) \cap {0, 1000} = {}
           /\ counts["passed"] = 0 <=> Tenths(counts) = {0}
<1> DEFINE p == counts["passed"]
           failed == Incomplete(counts)
           T == Tenths(counts)
<1>1. p \in Nat /\ failed \in Nat
  BY CountsAre
<1>2. /\ failed = 0 => T = {1000}
      /\ p = 0 => T = {0}
      /\ p > 0 /\ failed > 0 => T \cap {0, 1000} = {}
      /\ p > 0 \/ failed > 0
  BY PercentagesAreHonest, CountsAre
<1>3. CASE p > 0 /\ failed = 0
  <2>1. Marker(counts) = "complete"
    BY <1>3 DEF Marker
  <2> HIDE DEF p, failed, T
  <2>2. p # 0 /\ T = {1000}
    BY <1>1, <1>2, <1>3
  <2> QED
    BY <2>1, <2>2 DEF p, T
<1>4. CASE p > 0 /\ failed > 0
  <2>1. Marker(counts) = "partial"
    BY <1>1, <1>4 DEF Marker
  <2> HIDE DEF p, failed, T
  <2>2. p # 0 /\ T \cap {0, 1000} = {}
    BY <1>1, <1>2, <1>4
  <2> QED
    BY <2>1, <2>2 DEF p, T
<1>5. CASE p = 0 /\ failed > 0
  <2>1. Marker(counts) \notin {"complete", "partial"}
    BY <1>1, <1>5, CountsAre DEF Marker
  <2> HIDE DEF p, failed, T
  <2>2. T = {0}
    BY <1>2, <1>5
  <2> QED
    BY <1>5, <2>1, <2>2 DEF p, T
<1> HIDE DEF p, failed, T
<1>6. \/ p > 0 /\ failed = 0
      \/ p > 0 /\ failed > 0
      \/ p = 0 /\ failed > 0
  BY <1>1, <1>2
<1> QED
  BY <1>3, <1>4, <1>5, <1>6
=============================================================================
