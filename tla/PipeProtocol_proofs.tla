------------------------- MODULE PipeProtocol_proofs -------------------------
(***************************************************************************)
(* What is encoded is decoded as it was, or not at all: for lists of any   *)
(* length and whatever is in them.                                         *)
(*                                                                         *)
(* Positions in a frame and flattened lists are recursive functions.  What *)
(* they compute is shown by induction, as the least number without the     *)
(* property (NatLessThanWellFounded and WFMin of the library) does not     *)
(* exist.                                                                  *)
(***************************************************************************)
EXTENDS PipeProtocol, SequenceTheorems, WellFoundedInduction, TLAPS

-----------------------------------------------------------------------------
\* Induction over the naturals, for a set of them.
LEMMA LeastNatural ==
  ASSUME NEW T, T \subseteq Nat, T # {}
  PROVE  \E x \in T : \A y \in T : ~(y < x)
<1>1. IsWellFoundedOn(OpToRel(<, Nat), Nat)
  BY NatLessThanWellFounded
<1>2. \E x \in T : \A y \in T : <<y, x>> \notin OpToRel(<, Nat)
  BY <1>1, WFMin, Zenon
<1>3. \A x, y \in Nat : y < x => <<y, x>> \in OpToRel(<, Nat)
  BY DEF OpToRel
<1>. QED
  BY <1>2, <1>3

\* The usual form of it.
LEMMA Induction ==
  ASSUME NEW T, 0 \in T, \A n \in Nat : n \in T => n + 1 \in T
  PROVE  \A n \in Nat : n \in T
<1>. SUFFICES ASSUME Nat \ T # {} PROVE FALSE
  OBVIOUS
<1>1. PICK x \in Nat \ T : \A y \in Nat \ T : ~(y < x)
  BY LeastNatural
<1>2. x # 0 /\ x - 1 \in Nat /\ x - 1 < x
  OBVIOUS
<1>3. x - 1 \in T
  BY <1>1, <1>2
<1>. QED
  BY <1>2, <1>3

-----------------------------------------------------------------------------
\* Lists in frames.

\* Frame p has a list with these items at a place.
HasList(p, at, items) ==
  /\ at \in DOMAIN p /\ p[at] = Len(items)
  /\ at + Len(items) <= Len(p)
  /\ \A j \in 1..Len(items) : p[at + j] = items[j]

\* A list of a frame is read as it is.
LEMMA ListRead ==
  ASSUME NEW S, NEW p \in Seq(S), NEW items \in Seq(S), NEW at \in Nat \ {0}, NEW limit \in Nat,
         HasList(p, at, items)
  PROVE  /\ Length(p, at, limit) = Len(items)
         /\ Items(p, at) = items
<1>1. Length(p, at, limit) = Len(items)
  BY DEF Length, HasList
<1>2. Items(p, at) = SubSeq(p, at + 1, at + Len(items))
  BY DEF Items, HasList
<1>3. SubSeq(p, at + 1, at + Len(items)) = items
  BY SMTT(30) DEF HasList
<1>. QED
  BY <1>1, <1>2, <1>3

\* A list that is appended to a frame is one of it, and others stay in it.
LEMMA ListAppended ==
  ASSUME NEW S, NEW p \in Seq(S), NEW items \in Seq(S), Nat \subseteq S
  PROVE  /\ p \o EncodeList(items) \in Seq(S)
         /\ Len(p \o EncodeList(items)) = Len(p) + 1 + Len(items)
         /\ HasList(p \o EncodeList(items), Len(p) + 1, items)
         /\ \A k \in 1..Len(p) : (p \o EncodeList(items))[k] = p[k]
<1>1. EncodeList(items) \in Seq(S) /\ Len(EncodeList(items)) = 1 + Len(items)
  BY DEF EncodeList
<1>2. EncodeList(items)[1] = Len(items) /\ \A j \in 1..Len(items) : EncodeList(items)[1 + j] = items[j]
  BY DEF EncodeList
<1>3. p \o EncodeList(items) \in Seq(S) /\ Len(p \o EncodeList(items)) = Len(p) + 1 + Len(items)
  BY <1>1
<1>4. \A k \in 1..Len(p) : (p \o EncodeList(items))[k] = p[k]
  BY <1>1
<1>5. (p \o EncodeList(items))[Len(p) + 1] = Len(items)
  BY <1>1, <1>2
<1>6. ASSUME NEW j \in 1..Len(items)
      PROVE  (p \o EncodeList(items))[Len(p) + 1 + j] = items[j]
  BY <1>1, <1>2
<1>7. Len(p) + 1 \in DOMAIN (p \o EncodeList(items))
  BY <1>3
<1>. QED
  BY <1>3, <1>4, <1>5, <1>6, <1>7 DEF HasList

\* A list that was read is read again from any payload that agrees with the first up to its end.
LEMMA ListKept ==
  ASSUME NEW S, NEW p \in Seq(S), NEW q \in Seq(S), NEW items \in Seq(S), NEW at \in Nat \ {0},
         HasList(p, at, items), Len(q) >= Len(p), \A k \in 1..Len(p) : q[k] = p[k]
  PROVE  HasList(q, at, items)
  BY DEF HasList

\* A list of routes comes back as it was sent, unless it is too long.
THEOREM RoutesRoundTrip ==
  ASSUME NEW S, NEW routes \in Seq(S)
  PROVE  DecodeRoutes(EncodeRoutes(routes)) =
           IF Len(routes) > MaxItems THEN Malformed ELSE routes
<1>. DEFINE A == S \cup Nat
            p == <<>> \o EncodeList(routes)
<1>1. EncodeRoutes(routes) = p
  BY DEF EncodeRoutes, EncodeList
<1>2. routes \in Seq(A) /\ <<>> \in Seq(A) /\ MaxItems \in Nat /\ Nat \subseteq A
  BY LimitsAssumption
<1>. HIDE DEF A
<1>3. p \in Seq(A) /\ Len(p) = 1 + Len(routes) /\ HasList(p, 1, routes)
  <2>1. Len(<<>>) = 0 /\ 0 + 1 = 1
    OBVIOUS
  <2>2. /\ p \in Seq(A) /\ Len(p) = Len(<<>>) + 1 + Len(routes)
        /\ HasList(p, Len(<<>>) + 1, routes)
    BY <1>2, ListAppended, Zenon
  <2>. QED
    BY <1>2, <2>1, <2>2
<1>. HIDE DEF p
<1>4. Length(p, 1, MaxItems) = Len(routes) /\ Items(p, 1) = routes
  BY <1>2, <1>3, ListRead
<1>. QED
  BY <1>1, <1>2, <1>3, <1>4 DEF DecodeRoutes

\* A status comes back as it was sent, unless it has too many metrics.
THEOREM StatusRoundTrip ==
  ASSUME NEW S, NEW metrics \in Seq(S), NEW flags
  PROVE  DecodeStatus(EncodeStatus([flags |-> flags, metrics |-> metrics])) =
           IF Len(metrics) > MaxMetrics THEN Malformed
           ELSE [flags |-> flags, metrics |-> metrics]
<1>. DEFINE A == S \cup Nat \cup {flags}
            p == <<flags>> \o EncodeList(metrics)
<1>1. EncodeStatus([flags |-> flags, metrics |-> metrics]) = p
  BY DEF EncodeStatus
<1>2. /\ metrics \in Seq(A) /\ MaxMetrics \in Nat /\ Nat \subseteq A
      /\ <<flags>> \in Seq(A) /\ Len(<<flags>>) = 1 /\ <<flags>>[1] = flags
  BY LimitsAssumption
<1>. HIDE DEF A
<1>3. p \in Seq(A) /\ Len(p) = 2 + Len(metrics) /\ HasList(p, 2, metrics) /\ p[1] = flags
  <2>1. 1 \in 1..Len(<<flags>>) /\ Len(<<flags>>) + 1 = 2
    BY <1>2
  <2>2. /\ p \in Seq(A) /\ Len(p) = Len(<<flags>>) + 1 + Len(metrics)
        /\ HasList(p, Len(<<flags>>) + 1, metrics)
        /\ \A k \in 1..Len(<<flags>>) : p[k] = <<flags>>[k]
    BY <1>2, ListAppended, Zenon
  <2>. QED
    BY <1>2, <2>1, <2>2
<1>. HIDE DEF p
<1>4. Length(p, 2, MaxMetrics) = Len(metrics) /\ Items(p, 2) = metrics
  BY <1>2, <1>3, ListRead
<1>. QED
  BY <1>1, <1>2, <1>3, <1>4 DEF DecodeStatus

-----------------------------------------------------------------------------
\* The result of a reconcile.

\* The places of lists, each of which begins where the one before it ends.
LEMMA ListPlaces ==
  ASSUME NEW p, NEW m \in Nat, NEW place \in [1..m -> Nat], place[1] = 2,
         \A k \in 1..(m - 1) : place[k + 1] = place[k] + 1 + Length(p, place[k], MaxItems),
         NEW i \in 1..m
  PROVE  ListAt(p, i) = place[i]
<1>. DEFINE Next(at) == [k \in 1..i |-> IF k = 1 THEN 2 ELSE at[k - 1] + 1 + Length(p, at[k - 1], MaxItems)]
            at == CHOOSE f : f = Next(f)
            known == [k \in 1..i |-> place[k]]
<1>1. known = Next(known)
  <2>. HIDE DEF Next
  <2>1. ASSUME NEW k \in 1..i, k # 1
        PROVE  place[k] = place[k - 1] + 1 + Length(p, place[k - 1], MaxItems)
    <3>1. k - 1 \in 1..(m - 1) /\ (k - 1) + 1 = k
      BY <2>1
    <3>. QED
      BY <3>1
  <2>2. ASSUME NEW k \in 1..i, k # 1
        PROVE  known[k - 1] = place[k - 1]
    BY <2>2
  <2>3. ASSUME NEW k \in 1..i
        PROVE  place[k] = IF k = 1 THEN 2 ELSE known[k - 1] + 1 + Length(p, known[k - 1], MaxItems)
    BY <2>1, <2>2
  <2>. QED
    BY <2>3 DEF Next
<1>2. at = Next(at)
  <2>. HIDE DEF Next, known
  <2>. QED
    BY <1>1
<1>. HIDE DEF at
<1>. DEFINE T == {n \in Nat : n + 1 \in 1..i => at[n + 1] = place[n + 1]}
<1>3. 0 \in T
  <2>1. at[1] = 2
    BY <1>2
  <2>. QED
    BY <2>1
<1>4. ASSUME NEW n \in Nat, n \in T
      PROVE  n + 1 \in T
  <2>. SUFFICES ASSUME n + 2 \in 1..i
                PROVE  at[n + 2] = place[n + 2]
    OBVIOUS
  <2>1. at[n + 1] = place[n + 1] /\ n + 1 \in 1..(m - 1)
    BY <1>4
  <2>2. at[n + 2] = at[n + 1] + 1 + Length(p, at[n + 1], MaxItems)
    <3>1. n + 2 # 1 /\ (n + 2) - 1 = n + 1
      OBVIOUS
    <3>. QED
      BY <1>2, <3>1
  <2>3. place[n + 2] = place[n + 1] + 1 + Length(p, place[n + 1], MaxItems)
    BY <2>1
  <2>. QED
    BY <2>1, <2>2, <2>3
<1>5. i - 1 \in T
  <2>1. i - 1 \in Nat
    OBVIOUS
  <2>. HIDE DEF T
  <2>. QED
    BY <1>3, <1>4, <2>1, Induction
<1>6. at[i] = place[i]
  BY <1>5
<1>. QED
  BY <1>6 DEF ListAt, at

\* Frame q is p and one more list.
Grown(A, p, items, q) ==
  /\ q \in Seq(A) /\ Len(q) = Len(p) + 1 + Len(items)
  /\ HasList(q, Len(p) + 1, items)
  /\ \A k \in 1..Len(p) : q[k] = p[k]
  /\ \A at \in Nat \ {0}, other \in Seq(A) : HasList(p, at, other) => HasList(q, at, other)

\* A frame that grows by a list keeps what it has.
LEMMA FrameGrows ==
  ASSUME NEW A, Nat \subseteq A, NEW p \in Seq(A), NEW items \in Seq(A)
  PROVE  Grown(A, p, items, p \o EncodeList(items))
<1>. DEFINE q == p \o EncodeList(items)
<1>1. /\ q \in Seq(A) /\ Len(q) = Len(p) + 1 + Len(items)
      /\ HasList(q, Len(p) + 1, items)
      /\ \A k \in 1..Len(p) : q[k] = p[k]
  BY ListAppended, Zenon
<1>. HIDE DEF q
<1>2. Len(q) >= Len(p)
  BY <1>1
<1>3. ASSUME NEW at \in Nat \ {0}, NEW other \in Seq(A), HasList(p, at, other)
      PROVE  HasList(q, at, other)
  BY <1>1, <1>2, <1>3, ListKept
<1>. QED
  BY <1>1, <1>3 DEF Grown, q

\* Where the second, third and fourth list of a result begin.
Second(result) == 3 + Len(result.errors)
Third(result) == Second(result) + 1 + Len(result.checks)
Fourth(result) == Third(result) + 1 + Len(result.resets)

\* Frame p is that of a result.
HasResult(A, p, result) ==
  /\ p \in Seq(A) /\ Len(p) = Fourth(result) + Len(result.restarted) /\ p[1] = result.ok
  /\ HasList(p, 2, result.errors) /\ HasList(p, Second(result), result.checks)
  /\ HasList(p, Third(result), result.resets) /\ HasList(p, Fourth(result), result.restarted)

\* A result with fields in A.
ResultOf(A, result) ==
  /\ result.ok \in A /\ result.errors \in Seq(A) /\ result.checks \in Seq(A)
  /\ result.resets \in Seq(A) /\ result.restarted \in Seq(A)

\* The four lists of a result are where they should be.
LEMMA FourLists ==
  ASSUME NEW A, Nat \subseteq A, NEW result, ResultOf(A, result)
  PROVE  HasResult(A, EncodeReconcileResult(result), result)
<1>. DEFINE p0 == <<result.ok>>
            p1 == p0 \o EncodeList(result.errors)
            p2 == p1 \o EncodeList(result.checks)
            p3 == p2 \o EncodeList(result.resets)
            p == p3 \o EncodeList(result.restarted)
            a2 == Second(result)
            a3 == Third(result)
            a4 == Fourth(result)
<1>0. /\ result.ok \in A /\ result.errors \in Seq(A) /\ result.checks \in Seq(A)
      /\ result.resets \in Seq(A) /\ result.restarted \in Seq(A)
  BY DEF ResultOf
<1>. DEFINE n1 == Len(result.errors)
            n2 == Len(result.checks)
            n3 == Len(result.resets)
            n4 == Len(result.restarted)
<1>n. n1 \in Nat /\ n2 \in Nat /\ n3 \in Nat /\ n4 \in Nat
  BY <1>0
<1>1. /\ p0 \in Seq(A) /\ Len(p0) = 1 /\ p0[1] = result.ok /\ p1 = p0 \o EncodeList(result.errors)
      /\ p2 = p1 \o EncodeList(result.checks) /\ p3 = p2 \o EncodeList(result.resets)
      /\ p = p3 \o EncodeList(result.restarted) /\ EncodeReconcileResult(result) = p
  BY <1>0 DEF EncodeReconcileResult
<1>2. a2 = 3 + n1 /\ a3 = a2 + 1 + n2 /\ a4 = a3 + 1 + n3
  BY Zenon DEF Second, Third, Fourth
<1>. HIDE DEF a2, a3, a4, n1, n2, n3, n4
<1>p. a2 \in Nat \ {0} /\ a3 \in Nat \ {0} /\ a4 \in Nat \ {0}
  BY <1>n, <1>2
<1>. HIDE DEF p0, p1, p2, p3, p
<1>3. Grown(A, p0, result.errors, p1)
  BY <1>0, <1>1, FrameGrows
<1>4. p1 \in Seq(A) /\ Len(p1) + 1 = a2 /\ 1 \in 1..Len(p1) /\ p1[1] = result.ok /\ HasList(p1, 2, result.errors)
  <2>1. p1 \in Seq(A) /\ Len(p1) = 1 + 1 + n1
    BY <1>1, <1>3 DEF Grown, n1
  <2>2. Len(p1) + 1 = a2 /\ 1 \in 1..Len(p1)
    BY <1>n, <1>2, <2>1
  <2>3. p1[1] = result.ok
    <3>1. p0[1] = result.ok /\ 1 \in 1..Len(p0)
      BY <1>1
    <3>2. \A k \in 1..Len(p0) : p1[k] = p0[k]
      BY <1>3 DEF Grown
    <3>. QED
      BY <3>1, <3>2
  <2>4. HasList(p1, 2, result.errors)
    BY <1>1, <1>3 DEF Grown
  <2>. QED
    BY <2>1, <2>2, <2>3, <2>4
<1>5. Grown(A, p1, result.checks, p2)
  BY <1>0, <1>1, <1>4, FrameGrows
<1>6. /\ p2 \in Seq(A) /\ Len(p2) + 1 = a3 /\ 1 \in 1..Len(p2) /\ p2[1] = result.ok
      /\ HasList(p2, 2, result.errors) /\ HasList(p2, a2, result.checks)
  <2>1. p2 \in Seq(A) /\ Len(p2) = Len(p1) + 1 + n2
    BY <1>5 DEF Grown, n2
  <2>2. Len(p2) + 1 = a3 /\ 1 \in 1..Len(p2)
    <3>1. Len(p1) \in Nat /\ Len(p1) + 1 = a2 /\ 1 <= Len(p1)
      BY <1>4
    <3>2. Len(p2) = Len(p1) + 1 + n2
      BY <2>1
    <3>. QED
      BY <1>n, <1>2, <3>1, <3>2
  <2>3. p2[1] = result.ok
    BY <1>4, <1>5 DEF Grown
  <2>4. HasList(p2, 2, result.errors) /\ HasList(p2, a2, result.checks)
    BY <1>0, <1>4, <1>5 DEF Grown
  <2>. QED
    BY <2>1, <2>2, <2>3, <2>4
<1>7. Grown(A, p2, result.resets, p3)
  BY <1>0, <1>1, <1>6, FrameGrows
<1>8. /\ p3 \in Seq(A) /\ Len(p3) + 1 = a4 /\ 1 \in 1..Len(p3) /\ p3[1] = result.ok
      /\ HasList(p3, 2, result.errors) /\ HasList(p3, a2, result.checks) /\ HasList(p3, a3, result.resets)
  <2>1. p3 \in Seq(A) /\ Len(p3) = Len(p2) + 1 + n3
    BY <1>7 DEF Grown, n3
  <2>2. Len(p3) + 1 = a4 /\ 1 \in 1..Len(p3)
    <3>1. Len(p2) \in Nat /\ Len(p2) + 1 = a3 /\ 1 <= Len(p2)
      BY <1>6
    <3>2. Len(p3) = Len(p2) + 1 + n3
      BY <2>1
    <3>. QED
      BY <1>n, <1>2, <3>1, <3>2
  <2>3. p3[1] = result.ok
    BY <1>6, <1>7 DEF Grown
  <2>4. HasList(p3, 2, result.errors) /\ HasList(p3, a2, result.checks) /\ HasList(p3, a3, result.resets)
    <3>1. HasList(p3, a3, result.resets)
      BY <1>6, <1>7 DEF Grown
    <3>2. \A at \in Nat \ {0}, l \in Seq(A) : HasList(p2, at, l) => HasList(p3, at, l)
      BY <1>7 DEF Grown
    <3>3. HasList(p2, 2, result.errors) /\ HasList(p2, a2, result.checks)
      BY <1>6
    <3>4. 2 \in Nat \ {0} /\ a2 \in Nat \ {0}
      BY <1>p
    <3>. QED
      BY <1>0, <3>1, <3>2, <3>3, <3>4
  <2>. QED
    BY <2>1, <2>2, <2>3, <2>4
<1>9. Grown(A, p3, result.restarted, p)
  BY <1>0, <1>1, <1>8, FrameGrows
<1>10. p \in Seq(A) /\ Len(p) = a4 + n4 /\ p[1] = result.ok
  <2>1. p \in Seq(A) /\ Len(p) = Len(p3) + 1 + n4
    BY <1>9 DEF Grown, n4
  <2>2. Len(p) = a4 + n4
    <3>1. Len(p3) \in Nat /\ Len(p3) + 1 = a4
      BY <1>8
    <3>2. Len(p) = Len(p3) + 1 + n4
      BY <2>1
    <3>. QED
      BY <1>n, <3>1, <3>2
  <2>3. p[1] = result.ok
    BY <1>8, <1>9 DEF Grown
  <2>. QED
    BY <2>1, <2>2, <2>3
<1>11. /\ HasList(p, 2, result.errors) /\ HasList(p, a2, result.checks)
       /\ HasList(p, a3, result.resets) /\ HasList(p, a4, result.restarted)
  <2>1. HasList(p, a4, result.restarted)
    BY <1>8, <1>9 DEF Grown
  <2>2. \A at \in Nat \ {0}, l \in Seq(A) : HasList(p3, at, l) => HasList(p, at, l)
    BY <1>9 DEF Grown
  <2>3. HasList(p3, 2, result.errors) /\ HasList(p3, a2, result.checks) /\ HasList(p3, a3, result.resets)
    BY <1>8
  <2>4. 2 \in Nat \ {0} /\ a2 \in Nat \ {0} /\ a3 \in Nat \ {0}
    BY <1>p
  <2>. QED
    BY <1>0, <2>1, <2>2, <2>3, <2>4
<1>. QED
  BY <1>1, <1>10, <1>11 DEF HasResult, a2, a3, a4, n4

IsResult(result) ==
  result = [ok |-> result.ok, errors |-> result.errors, checks |-> result.checks,
            resets |-> result.resets, restarted |-> result.restarted]

\* A result comes back as it was returned, unless one of its lists is too long.
THEOREM ReconcileResultRoundTrip ==
  ASSUME NEW S, NEW result, ResultOf(S, result), IsResult(result)
  PROVE  DecodeReconcileResult(EncodeReconcileResult(result)) =
           IF \/ Len(result.errors) > MaxItems \/ Len(result.checks) > MaxItems
              \/ Len(result.resets) > MaxItems \/ Len(result.restarted) > MaxItems
           THEN Malformed ELSE result
<1>. DEFINE A == S \cup Nat
            p == EncodeReconcileResult(result)
            ok == result.ok
            errors == result.errors
            checks == result.checks
            resets == result.resets
            restarted == result.restarted
            a2 == Second(result)
            a3 == Third(result)
            a4 == Fourth(result)
<1>1. /\ result = [ok |-> ok, errors |-> errors, checks |-> checks,
                   resets |-> resets, restarted |-> restarted]
      /\ result.ok = ok /\ result.errors = errors /\ result.checks = checks
      /\ result.resets = resets /\ result.restarted = restarted
  BY DEF IsResult
<1>0. /\ errors \in Seq(S) /\ checks \in Seq(S) /\ resets \in Seq(S) /\ restarted \in Seq(S)
      /\ ok \in S
  BY DEF ResultOf
<1>. HIDE DEF ok, errors, checks, resets, restarted
<1>2. /\ errors \in Seq(A) /\ checks \in Seq(A) /\ resets \in Seq(A) /\ restarted \in Seq(A)
      /\ MaxItems \in Nat /\ Nat \subseteq A /\ ok \in A
  BY <1>0, LimitsAssumption
<1>3. /\ a2 = 3 + Len(errors) /\ a3 = a2 + 1 + Len(checks) /\ a4 = a3 + 1 + Len(resets)
      /\ a2 \in Nat \ {0} /\ a3 \in Nat \ {0} /\ a4 \in Nat \ {0}
  BY <1>1, <1>2 DEF Second, Third, Fourth
<1>. HIDE DEF A
<1>4. HasResult(A, p, result)
  BY <1>1, <1>2, FourLists DEF ResultOf
<1>5. /\ p \in Seq(A) /\ Len(p) = a4 + Len(restarted) /\ p[1] = ok
      /\ HasList(p, 2, errors) /\ HasList(p, a2, checks)
      /\ HasList(p, a3, resets) /\ HasList(p, a4, restarted)
  BY <1>1, <1>4 DEF HasResult
<1>. HIDE DEF p, a2, a3, a4
<1>6. /\ Length(p, 2, MaxItems) = Len(errors) /\ Items(p, 2) = errors
      /\ Length(p, a2, MaxItems) = Len(checks) /\ Items(p, a2) = checks
      /\ Length(p, a3, MaxItems) = Len(resets) /\ Items(p, a3) = resets
      /\ Length(p, a4, MaxItems) = Len(restarted) /\ Items(p, a4) = restarted
  <2>1. /\ p \in Seq(A) /\ MaxItems \in Nat /\ errors \in Seq(A) /\ checks \in Seq(A)
        /\ resets \in Seq(A) /\ restarted \in Seq(A)
    BY <1>2, <1>5
  <2>2. Length(p, 2, MaxItems) = Len(errors) /\ Items(p, 2) = errors
    <3>1. 2 \in Nat \ {0} /\ HasList(p, 2, errors)
      BY <1>3, <1>5
    <3>. QED
      BY <2>1, <3>1, ListRead
  <2>3. Length(p, a2, MaxItems) = Len(checks) /\ Items(p, a2) = checks
    <3>1. a2 \in Nat \ {0} /\ HasList(p, a2, checks)
      BY <1>3, <1>5
    <3>. QED
      BY <2>1, <3>1, ListRead
  <2>4. Length(p, a3, MaxItems) = Len(resets) /\ Items(p, a3) = resets
    <3>1. a3 \in Nat \ {0} /\ HasList(p, a3, resets)
      BY <1>3, <1>5
    <3>. QED
      BY <2>1, <3>1, ListRead
  <2>5. Length(p, a4, MaxItems) = Len(restarted) /\ Items(p, a4) = restarted
    <3>1. a4 \in Nat \ {0} /\ HasList(p, a4, restarted)
      BY <1>3, <1>5
    <3>. QED
      BY <2>1, <3>1, ListRead
  <2>. QED
    BY <2>2, <2>3, <2>4, <2>5
<1>7. /\ ListAt(p, 1) = 2 /\ ListAt(p, 2) = a2 /\ ListAt(p, 3) = a3 /\ ListAt(p, 4) = a4
      /\ ListAt(p, 5) = a4 + 1 + Len(restarted)
  <2>. DEFINE place == [k \in 1..5 |-> IF k = 1 THEN 2 ELSE IF k = 2 THEN a2 ELSE IF k = 3 THEN a3
                                       ELSE IF k = 4 THEN a4 ELSE a4 + 1 + Len(restarted)]
  <2>1. /\ place[1] = 2 /\ place[2] = a2 /\ place[3] = a3 /\ place[4] = a4
        /\ place[5] = a4 + 1 + Len(restarted)
    OBVIOUS
  <2>2. place \in [1..5 -> Nat]
    <3>1. Len(restarted) \in Nat
      BY <1>2
    <3>. QED
      BY <1>3, <3>1
  <2>. HIDE DEF place
  <2>3. ASSUME NEW k \in 1..(5 - 1)
        PROVE  place[k + 1] = place[k] + 1 + Length(p, place[k], MaxItems)
    <3>1. /\ place[2] = place[1] + 1 + Length(p, place[1], MaxItems)
          /\ place[3] = place[2] + 1 + Length(p, place[2], MaxItems)
          /\ place[4] = place[3] + 1 + Length(p, place[3], MaxItems)
          /\ place[5] = place[4] + 1 + Length(p, place[4], MaxItems)
      <4>1. 2 + 1 + Len(errors) = 3 + Len(errors)
        BY <1>2
      <4>. QED
        BY <1>3, <1>6, <2>1, <4>1
    <3>2. k = 1 \/ k = 2 \/ k = 3 \/ k = 4
      OBVIOUS
    <3>. QED
      BY <3>1, <3>2
  <2>4. \A i \in 1..5 : ListAt(p, i) = place[i]
    <3>1. place[1] = 2 /\ 5 \in Nat
      BY <2>1
    <3>. QED
      BY <2>2, <2>3, <3>1, ListPlaces
  <2>. QED
    BY <2>1, <2>4
<1>8. (\E i \in 1..4 : Length(p, ListAt(p, i), MaxItems) > MaxItems)
        <=> \/ Len(errors) > MaxItems \/ Len(checks) > MaxItems
            \/ Len(resets) > MaxItems \/ Len(restarted) > MaxItems
  <2>1. \A i \in 1..4 : i = 1 \/ i = 2 \/ i = 3 \/ i = 4
    OBVIOUS
  <2>. QED
    BY <2>1, <1>6, <1>7
<1>9. ListAt(p, 5) = Len(p) + 1
  BY <1>2, <1>3, <1>5, <1>7
<1>. QED
  BY <1>1, <1>5, <1>6, <1>7, <1>8, <1>9 DEF DecodeReconcileResult, p

-----------------------------------------------------------------------------
\* An apply request.

\* The places of rules, each of which begins where the list of the one before it ends.
ArePlaces(p, m, place) ==
  /\ place[1] = 3
  /\ \A k \in 1..(m - 1) : place[k + 1] = place[k] + 2 + Length(p, place[k] + 1, MaxExecutables)

\* The decoder finds them.
LEMMA RulePlaces ==
  ASSUME NEW p, NEW m \in Nat, NEW place \in [1..m -> Nat], ArePlaces(p, m, place), NEW i \in 1..m
  PROVE  RuleAt(p, i) = place[i]
<1>0. /\ place[1] = 3
      /\ \A k \in 1..(m - 1) : place[k + 1] = place[k] + 2 + Length(p, place[k] + 1, MaxExecutables)
  BY DEF ArePlaces
<1>. DEFINE Next(at) == [k \in 1..i |-> IF k = 1 THEN 3 ELSE at[k - 1] + 2 + Length(p, at[k - 1] + 1, MaxExecutables)]
            at == CHOOSE f : f = Next(f)
            known == [k \in 1..i |-> place[k]]
<1>1. known = Next(known)
  <2>. HIDE DEF Next
  <2>1. ASSUME NEW k \in 1..i, k # 1
        PROVE  place[k] = place[k - 1] + 2 + Length(p, place[k - 1] + 1, MaxExecutables)
    <3>1. k - 1 \in 1..(m - 1) /\ (k - 1) + 1 = k
      BY <2>1
    <3>. QED
      BY <1>0, <3>1
  <2>2. ASSUME NEW k \in 1..i, k # 1
        PROVE  known[k - 1] = place[k - 1]
    BY <2>2
  <2>3. ASSUME NEW k \in 1..i
        PROVE  place[k] = IF k = 1 THEN 3 ELSE known[k - 1] + 2 + Length(p, known[k - 1] + 1, MaxExecutables)
    BY <1>0, <2>1, <2>2
  <2>. QED
    BY <2>3 DEF Next
<1>2. at = Next(at)
  <2>. HIDE DEF Next, known
  <2>. QED
    BY <1>1
<1>. HIDE DEF at
<1>. DEFINE T == {n \in Nat : n + 1 \in 1..i => at[n + 1] = place[n + 1]}
<1>3. 0 \in T
  <2>1. at[1] = 3
    BY <1>2
  <2>. QED
    BY <1>0, <2>1
<1>4. ASSUME NEW n \in Nat, n \in T
      PROVE  n + 1 \in T
  <2>. SUFFICES ASSUME n + 2 \in 1..i
                PROVE  at[n + 2] = place[n + 2]
    OBVIOUS
  <2>1. at[n + 1] = place[n + 1] /\ n + 1 \in 1..(m - 1)
    BY <1>4
  <2>2. at[n + 2] = at[n + 1] + 2 + Length(p, at[n + 1] + 1, MaxExecutables)
    <3>1. n + 2 # 1 /\ (n + 2) - 1 = n + 1
      OBVIOUS
    <3>. QED
      BY <1>2, <3>1
  <2>3. place[n + 2] = place[n + 1] + 2 + Length(p, place[n + 1] + 1, MaxExecutables)
    BY <1>0, <2>1
  <2>. QED
    BY <2>1, <2>2, <2>3
<1>5. i - 1 \in T
  <2>1. i - 1 \in Nat
    OBVIOUS
  <2>. HIDE DEF T
  <2>. QED
    BY <1>3, <1>4, <2>1, Induction
<1>6. at[i] = place[i]
  BY <1>5
<1>. QED
  BY <1>6 DEF RuleAt, at

\* A value that is changed n times, by a step of its own each time.
IsChain(g, n, head, step) ==
  g[0] = head /\ \A m \in 0..(n - 1) : g[m + 1] = step[m + 1][g[m]]

\* There is such a value for any steps.
LEMMA Chain ==
  ASSUME NEW V, NEW n \in Nat, NEW head \in V, NEW step \in [1..n -> [V -> V]]
  PROVE  \E g \in [0..n -> V] : IsChain(g, n, head, step)
<1>. DEFINE Good(g, m) == g[0] = head /\ \A k \in 0..(m - 1) : g[k + 1] = step[k + 1][g[k]]
            T == {m \in Nat : m <= n => \E g \in [0..m -> V] : Good(g, m)}
<1>1. 0 \in T
  <2>. DEFINE g == [k \in 0..0 |-> head]
  <2>1. g \in [0..0 -> V] /\ Good(g, 0)
    OBVIOUS
  <2>. QED
    BY <2>1
<1>2. ASSUME NEW m \in Nat, m \in T
      PROVE  m + 1 \in T
  <2>1. ASSUME m + 1 <= n
        PROVE  \E g \in [0..(m + 1) -> V] : Good(g, m + 1)
    <3>1. PICK f \in [0..m -> V] : Good(f, m)
      <4>. HIDE DEF Good
      <4>. QED
        BY <1>2, <2>1
    <3>. DEFINE g == [k \in 0..(m + 1) |-> IF k = m + 1 THEN step[m + 1][f[m]] ELSE f[k]]
    <3>2. m + 1 \in 1..n /\ m \in 0..m /\ step[m + 1] \in [V -> V] /\ f[m] \in V
      BY <2>1
    <3>3. step[m + 1][f[m]] \in V
      BY <3>2
    <3>4. g \in [0..(m + 1) -> V]
      BY <3>3
    <3>5. g[m + 1] = step[m + 1][f[m]] /\ \A k \in 0..m : g[k] = f[k]
      OBVIOUS
    <3>. HIDE DEF g
    <3>6. ASSUME NEW k \in 0..((m + 1) - 1)
          PROVE  g[k + 1] = step[k + 1][g[k]]
      <4>1. CASE k = m
        BY <3>2, <3>5, <4>1
      <4>2. CASE k # m
        <5>1. k \in 0..(m - 1) /\ k \in 0..m /\ k + 1 \in 0..m
          BY <4>2
        <5>. QED
          BY <3>1, <3>5, <5>1
      <4>. QED
        BY <4>1, <4>2
    <3>7. g[0] = head
      BY <3>1, <3>5
    <3>8. Good(g, m + 1)
      BY <3>6, <3>7
    <3>. QED
      BY <3>4, <3>8
  <2>. HIDE DEF Good
  <2>2. m + 1 \in Nat
    OBVIOUS
  <2>. QED
    BY <2>1, <2>2
<1>3. n \in T
  <2>. HIDE DEF T
  <2>. QED
    BY <1>1, <1>2, Induction
<1>. QED
  BY <1>3 DEF IsChain

\* A head followed by the first blocks, for each number of them.
IsConcatenation(f, n, head, blocks) ==
  f[0] = head /\ \A m \in 0..(n - 1) : f[m + 1] = f[m] \o blocks[m + 1]

\* They exist.
LEMMA Concatenations ==
  ASSUME NEW A, NEW n \in Nat, NEW head \in Seq(A), NEW blocks \in [1..n -> Seq(A)]
  PROVE  \E f \in [0..n -> Seq(A)] : IsConcatenation(f, n, head, blocks)
<1>. DEFINE step == [i \in 1..n |-> [x \in Seq(A) |-> x \o blocks[i]]]
<1>1. step \in [1..n -> [Seq(A) -> Seq(A)]]
  <2>1. \A i \in 1..n : \A x \in Seq(A) : x \o blocks[i] \in Seq(A)
    OBVIOUS
  <2>. QED
    BY <2>1
<1>2. \A i \in 1..n, x \in Seq(A) : step[i][x] = x \o blocks[i]
  OBVIOUS
<1>. HIDE DEF step
<1>3. PICK f \in [0..n -> Seq(A)] : IsChain(f, n, head, step)
  BY <1>1, Chain
<1>4. ASSUME NEW m \in 0..(n - 1)
      PROVE  f[m + 1] = f[m] \o blocks[m + 1]
  <2>1. m + 1 \in 1..n /\ m \in 0..n
    OBVIOUS
  <2>2. f[m] \in Seq(A)
    BY <2>1
  <2>. QED
    BY <1>2, <1>3, <2>1, <2>2 DEF IsChain
<1>. QED
  BY <1>3, <1>4 DEF IsChain, IsConcatenation

\* FlattenSeq is the last of them.
LEMMA FlattenIsConcatenation ==
  ASSUME NEW A, NEW n \in Nat, NEW blocks \in [1..n -> Seq(A)], NEW f \in [0..n -> Seq(A)],
         IsConcatenation(f, n, <<>>, blocks)
  PROVE  FlattenSeq(blocks) = f[n]
<1>0. Len(blocks) = n
  OBVIOUS
<1>c. f[0] = <<>> /\ \A m \in 0..(n - 1) : f[m + 1] = f[m] \o blocks[m + 1]
  BY DEF IsConcatenation
<1>. DEFINE Next(g) == [i \in 1..Len(blocks) |-> IF i = 1 THEN blocks[i] ELSE g[i - 1] \o blocks[i]]
            flatten == CHOOSE g : g = Next(g)
            known == [i \in 1..n |-> f[i]]
<1>1. known = Next(known)
  <2>. HIDE DEF Next
  <2>1. ASSUME NEW k \in 1..n
        PROVE  f[k] = IF k = 1 THEN blocks[k] ELSE known[k - 1] \o blocks[k]
    <3>1. k - 1 \in 0..(n - 1) /\ (k - 1) + 1 = k
      OBVIOUS
    <3>2. f[(k - 1) + 1] = f[k - 1] \o blocks[(k - 1) + 1]
      BY <1>c, <3>1
    <3>3. f[k] = f[k - 1] \o blocks[k]
      BY <3>1, <3>2
    <3>4. CASE k = 1
      <4>1. f[k - 1] = <<>>
        BY <1>c, <3>4
      <4>2. <<>> \o blocks[k] = blocks[k]
        OBVIOUS
      <4>. QED
        BY <3>3, <3>4, <4>1, <4>2
    <3>5. CASE k # 1
      <4>1. known[k - 1] = f[k - 1]
        BY <3>5
      <4>. QED
        BY <3>3, <3>5, <4>1
    <3>. QED
      BY <3>4, <3>5
  <2>. QED
    BY <1>0, <2>1 DEF Next
<1>2. flatten = Next(flatten)
  <2>. HIDE DEF Next, known
  <2>. QED
    BY <1>1
<1>3. \A i \in 1..n : flatten[i] = IF i = 1 THEN blocks[i] ELSE flatten[i - 1] \o blocks[i]
  <2>. HIDE DEF flatten
  <2>. QED
    BY <1>0, <1>2
<1>4. known[1] = blocks[1] \/ n = 0
  BY <1>0, <1>1
<1>. HIDE DEF flatten
<1>. DEFINE T == {m \in Nat : m \in 1..n => flatten[m] = f[m]}
<1>5. 0 \in T
  OBVIOUS
<1>6. ASSUME NEW m \in Nat, m \in T
      PROVE  m + 1 \in T
  <2>1. ASSUME m + 1 \in 1..n
        PROVE  flatten[m + 1] = f[m + 1]
    <3>1. CASE m = 0
      <4>1. n # 0 /\ 1 \in 1..n /\ m + 1 = 1
        BY <2>1, <3>1
      <4>2. known[1] = f[1]
        BY <4>1
      <4>3. flatten[1] = blocks[1]
        BY <1>3, <4>1
      <4>. QED
        BY <1>4, <4>1, <4>2, <4>3
    <3>2. CASE m # 0
      <4>1. m \in 1..n /\ m \in 0..(n - 1) /\ m + 1 # 1 /\ (m + 1) - 1 = m
        BY <2>1, <3>2
      <4>2. flatten[m] = f[m]
        BY <1>6, <4>1
      <4>3. flatten[m + 1] = flatten[m] \o blocks[m + 1]
        BY <1>3, <2>1, <4>1
      <4>4. f[m + 1] = f[m] \o blocks[m + 1]
        BY <1>c, <4>1
      <4>. QED
        BY <4>2, <4>3, <4>4
    <3>. QED
      BY <3>1, <3>2
  <2>. QED
    BY <2>1
<1>7. n \in T
  <2>. HIDE DEF T
  <2>. QED
    BY <1>5, <1>6, Induction
<1>8. CASE n = 0
  <2>1. FlattenSeq(blocks) = <<>>
    BY <1>0, <1>8 DEF FlattenSeq
  <2>. QED
    BY <1>c, <1>8, <2>1
<1>9. CASE n # 0
  <2>1. n \in 1..n
    BY <1>9
  <2>2. FlattenSeq(blocks) = flatten[n]
    BY <1>0, <1>9 DEF FlattenSeq, flatten
  <2>. QED
    BY <1>7, <2>1, <2>2
<1>. QED
  BY <1>8, <1>9

\* Frame h is g and one more rule.
GrownByRule(A, g, rule, exes, h) ==
  /\ h \in Seq(A) /\ Len(h) = Len(g) + 2 + Len(exes)
  /\ h[Len(g) + 1] = rule /\ HasList(h, Len(g) + 2, exes)
  /\ \A k \in 1..Len(g) : h[k] = g[k]
  /\ \A at \in Nat \ {0}, other \in Seq(A) : HasList(g, at, other) => HasList(h, at, other)

\* A request grows by the rule's own field and its list of executables.
LEMMA RuleAppended ==
  ASSUME NEW A, Nat \subseteq A, NEW g \in Seq(A), NEW rule \in A, NEW exes \in Seq(A)
  PROVE  GrownByRule(A, g, rule, exes, g \o (<<rule>> \o EncodeList(exes)))
<1>. DEFINE f == g \o <<rule>>
            h == f \o EncodeList(exes)
<1>1. f \in Seq(A) /\ Len(f) = Len(g) + 1 /\ f[Len(g) + 1] = rule /\ \A k \in 1..Len(g) : f[k] = g[k]
  OBVIOUS
<1>2. EncodeList(exes) \in Seq(A) /\ <<rule>> \in Seq(A)
  BY DEF EncodeList
<1>3. h = g \o (<<rule>> \o EncodeList(exes))
  BY <1>2, ConcatAssociative
<1>. HIDE DEF f
<1>4. Grown(A, f, exes, h)
  BY <1>1, FrameGrows
<1>. HIDE DEF h
<1>5. h \in Seq(A) /\ Len(h) = Len(g) + 2 + Len(exes) /\ HasList(h, Len(g) + 2, exes)
  <2>1. /\ h \in Seq(A) /\ Len(h) = Len(f) + 1 + Len(exes) /\ HasList(h, Len(f) + 1, exes)
        /\ Len(f) = Len(g) + 1
    BY <1>1, <1>4 DEF Grown
  <2>2. Len(g) \in Nat /\ Len(exes) \in Nat
    OBVIOUS
  <2>3. Len(f) + 1 = Len(g) + 2 /\ Len(h) = Len(g) + 2 + Len(exes)
    BY <2>1, <2>2
  <2>. QED
    BY <2>1, <2>3
<1>6. h[Len(g) + 1] = rule /\ \A k \in 1..Len(g) : h[k] = g[k]
  <2>1. \A k \in 1..Len(f) : h[k] = f[k]
    BY <1>4 DEF Grown
  <2>2. Len(g) \in Nat /\ Len(g) + 1 \in 1..Len(f) /\ \A k \in 1..Len(g) : k \in 1..Len(f)
    BY <1>1
  <2>. QED
    BY <1>1, <2>1, <2>2
<1>7. ASSUME NEW at \in Nat \ {0}, NEW other \in Seq(A), HasList(g, at, other)
      PROVE  HasList(h, at, other)
  <2>1. HasList(f, at, other)
    <3>1. Len(f) >= Len(g)
      BY <1>1
    <3>. QED
      BY <1>1, <1>7, <3>1, ListKept
  <2>. QED
    BY <1>4, <2>1 DEF Grown
<1>8. GrownByRule(A, g, rule, exes, h)
  BY <1>5, <1>6, <1>7 DEF GrownByRule
<1>. QED
  BY <1>3, <1>8

\* The request after each of its rules, which are appended one after another.
IsRequest(g, n, head, blocks) ==
  IsConcatenation(g, n, head, blocks) /\ g[n] = head \o FlattenSeq(blocks)

\* It exists.
LEMMA RequestGrows ==
  ASSUME NEW A, NEW head \in Seq(A), NEW n \in Nat, NEW blocks \in [1..n -> Seq(A)]
  PROVE  \E g \in [0..n -> Seq(A)] : IsRequest(g, n, head, blocks)
<1>0. <<>> \in Seq(A) /\ head \o <<>> = head
  OBVIOUS
<1>a. \A x, y \in Seq(A) : (head \o x) \o y = head \o (x \o y)
  BY ConcatAssociative
<1>1. PICK f \in [0..n -> Seq(A)] : IsConcatenation(f, n, <<>>, blocks)
  BY <1>0, Concatenations
<1>c. f[0] = <<>> /\ \A m \in 0..(n - 1) : f[m + 1] = f[m] \o blocks[m + 1]
  BY <1>1 DEF IsConcatenation
<1>2. FlattenSeq(blocks) = f[n]
  BY <1>1, FlattenIsConcatenation
<1>. DEFINE g == [m \in 0..n |-> head \o f[m]]
<1>3. \A m \in 0..n : g[m] = head \o f[m] /\ f[m] \in Seq(A) /\ head \o f[m] \in Seq(A)
  OBVIOUS
<1>4. g \in [0..n -> Seq(A)]
  BY <1>3
<1>. HIDE DEF g
<1>5. g[0] = head /\ g[n] = head \o FlattenSeq(blocks)
  <2>1. 0 \in 0..n /\ n \in 0..n
    OBVIOUS
  <2>2. g[0] = head \o f[0] /\ g[n] = head \o f[n]
    BY <1>3, <2>1
  <2>. QED
    BY <1>0, <1>c, <1>2, <2>2
<1>6. ASSUME NEW m \in 0..(n - 1)
      PROVE  g[m + 1] = g[m] \o blocks[m + 1]
  <2>1. m \in 0..n /\ m + 1 \in 0..n /\ m + 1 \in 1..n
    OBVIOUS
  <2>2. f[m + 1] = f[m] \o blocks[m + 1] /\ f[m] \in Seq(A) /\ blocks[m + 1] \in Seq(A)
    BY <1>c, <1>3, <2>1
  <2>3. head \o (f[m] \o blocks[m + 1]) = (head \o f[m]) \o blocks[m + 1]
    BY <1>a, <2>2
  <2>. QED
    BY <1>3, <2>1, <2>2, <2>3
<1>. QED
  BY <1>4, <1>5, <1>6 DEF IsConcatenation, IsRequest

Config(master, n, rule, exes) ==
  [master |-> master, rules |-> [i \in 1..n |-> [rule |-> rule[i], executables |-> exes[i]]]]

\* An apply request comes back as it was sent, unless it has too many rules or one of
\* them too many executables.
THEOREM AppRulesRoundTrip ==
  ASSUME NEW S, NEW n \in Nat, NEW rule \in [1..n -> S], NEW exes \in [1..n -> Seq(S)],
         NEW master
  PROVE  DecodeAppRules(EncodeAppRules(Config(master, n, rule, exes))) =
           IF n > MaxRules \/ \E i \in 1..n : Len(exes[i]) > MaxExecutables
           THEN Malformed ELSE Config(master, n, rule, exes)
<1>. DEFINE config == Config(master, n, rule, exes)
            A == S \cup Nat \cup {master}
            head == <<master, n>>
            blocks == [i \in 1..n |-> <<rule[i]>> \o EncodeList(exes[i])]
            p == head \o FlattenSeq(blocks)
<1>1. EncodeAppRules(config) = p
  <2>1. config.master = master /\ Len(config.rules) = n /\ DOMAIN config.rules = 1..n
    BY DEF Config
  <2>2. \A i \in 1..n : config.rules[i].rule = rule[i] /\ config.rules[i].executables = exes[i]
    BY DEF Config
  <2>3. [i \in DOMAIN config.rules |-> <<config.rules[i].rule>> \o EncodeList(config.rules[i].executables)]
          = blocks
    BY <2>1, <2>2
  <2>. QED
    BY <2>1, <2>3 DEF EncodeAppRules
<1>2. /\ Nat \subseteq A /\ MaxRules \in Nat /\ MaxExecutables \in Nat
      /\ head \in Seq(A) /\ Len(head) = 2 /\ head[1] = master /\ head[2] = n
      /\ \A i \in 1..n : rule[i] \in A /\ exes[i] \in Seq(A)
  BY LimitsAssumption
<1>3. blocks \in [1..n -> Seq(A)]
  <2>1. ASSUME NEW i \in 1..n
        PROVE  <<rule[i]>> \o EncodeList(exes[i]) \in Seq(A)
    BY <1>2 DEF EncodeList
  <2>. QED
    BY <2>1
<1>4. \A i \in 1..n : blocks[i] = <<rule[i]>> \o EncodeList(exes[i])
  OBVIOUS
<1>. HIDE DEF A, head, blocks, config
<1>5. PICK g \in [0..n -> Seq(A)] : IsConcatenation(g, n, head, blocks) /\ g[n] = p
  <2>1. PICK g \in [0..n -> Seq(A)] : IsRequest(g, n, head, blocks)
    <3>1. head \in Seq(A)
      BY <1>2
    <3>. QED
      BY <1>3, <3>1, RequestGrows
  <2>. QED
    BY <2>1 DEF p, IsRequest
<1>. HIDE DEF p
<1>. DEFINE size == [m \in 0..n |-> Len(g[m])]
            e == [k \in 1..n |-> Len(exes[k])]
            place == [k \in 1..(n + 1) |-> size[k - 1] + 1]
<1>6. /\ size \in [0..n -> Nat] /\ \A m \in 0..n : size[m] = Len(g[m]) /\ g[m] \in Seq(A)
      /\ e \in [1..n -> Nat] /\ \A k \in 1..n : e[k] = Len(exes[k])
  <2>1. \A m \in 0..n : g[m] \in Seq(A)
    OBVIOUS
  <2>2. \A m \in 0..n : Len(g[m]) \in Nat
    BY <2>1
  <2>3. \A k \in 1..n : Len(exes[k]) \in Nat
    BY <1>2
  <2>. QED
    BY <2>1, <2>2, <2>3
<1>. HIDE DEF size, e
<1>7. /\ place \in [1..(n + 1) -> Nat]
      /\ \A k \in 1..(n + 1) : place[k] \in Nat \ {0} /\ place[k] = size[k - 1] + 1
  <2>1. \A k \in 1..(n + 1) : k - 1 \in 0..n /\ size[k - 1] \in Nat
    BY <1>6
  <2>. QED
    BY <2>1
<1>. HIDE DEF place
<1>8. size[0] = 2 /\ place[1] = 3 /\ g[0] = head
  <2>1. g[0] = head
    BY <1>5 DEF IsConcatenation
  <2>2. size[0] = 2
    <3>1. 0 \in 0..n /\ Len(head) = 2
      BY <1>2
    <3>. QED
      BY <1>6, <2>1, <3>1
  <2>3. 1 \in 1..(n + 1) /\ 1 - 1 = 0
    OBVIOUS
  <2>. QED
    BY <1>7, <2>1, <2>2, <2>3
<1>9. ASSUME NEW m \in 0..(n - 1)
      PROVE  /\ m \in 0..n /\ m + 1 \in 1..n /\ m + 1 \in 1..(n + 1) /\ m + 1 \in 0..n
             /\ size[m] \in Nat /\ size[m + 1] \in Nat /\ e[m + 1] \in Nat
             /\ size[m + 1] = size[m] + 2 + e[m + 1]
             /\ place[m + 1] = size[m] + 1
             /\ g[m + 1][place[m + 1]] = rule[m + 1]
             /\ HasList(g[m + 1], place[m + 1] + 1, exes[m + 1])
             /\ \A k \in 1..size[m] : g[m + 1][k] = g[m][k]
             /\ \A at \in Nat \ {0}, l \in Seq(A) : HasList(g[m], at, l) => HasList(g[m + 1], at, l)
  <2>1. /\ m + 1 \in 1..n /\ m + 1 \in 1..(n + 1) /\ (m + 1) - 1 = m /\ m \in 0..n /\ m + 1 \in 0..n
        /\ size[m] \in Nat /\ size[m + 1] \in Nat /\ e[m + 1] \in Nat
    BY <1>6
  <2>2. g[m + 1] = g[m] \o (<<rule[m + 1]>> \o EncodeList(exes[m + 1]))
    <3>1. g[m + 1] = g[m] \o blocks[m + 1]
      BY <1>5 DEF IsConcatenation
    <3>. QED
      BY <1>4, <2>1, <3>1
  <2>3. g[m] \in Seq(A) /\ rule[m + 1] \in A /\ exes[m + 1] \in Seq(A) /\ Nat \subseteq A
    BY <1>2, <1>6, <2>1
  <2>4. GrownByRule(A, g[m], rule[m + 1], exes[m + 1], g[m + 1])
    BY <2>2, <2>3, RuleAppended
  <2>5. place[m + 1] = size[m] + 1 /\ place[m + 1] + 1 = size[m] + 2
    BY <1>7, <2>1, SMTT(30)
  <2>6. size[m] = Len(g[m]) /\ size[m + 1] = Len(g[m + 1]) /\ e[m + 1] = Len(exes[m + 1])
    BY <1>6, <2>1
  <2>7. /\ size[m + 1] = size[m] + 2 + e[m + 1] /\ g[m + 1][size[m] + 1] = rule[m + 1]
        /\ HasList(g[m + 1], size[m] + 2, exes[m + 1])
        /\ \A k \in 1..size[m] : g[m + 1][k] = g[m][k]
        /\ \A at \in Nat \ {0}, l \in Seq(A) : HasList(g[m], at, l) => HasList(g[m + 1], at, l)
    <3>1. /\ Len(g[m + 1]) = Len(g[m]) + 2 + Len(exes[m + 1])
          /\ g[m + 1][Len(g[m]) + 1] = rule[m + 1] /\ HasList(g[m + 1], Len(g[m]) + 2, exes[m + 1])
          /\ \A k \in 1..Len(g[m]) : g[m + 1][k] = g[m][k]
          /\ \A at \in Nat \ {0}, l \in Seq(A) : HasList(g[m], at, l) => HasList(g[m + 1], at, l)
      BY <2>4, Zenon DEF GrownByRule
    <3>. QED
      BY <2>6, <3>1
  <2>. QED
    BY <2>1, <2>5, <2>7
<1>. DEFINE Good(m) == /\ g[m][1] = master /\ g[m][2] = n /\ size[m] >= 2
                       /\ \A k \in 1..m : /\ place[k] <= size[m]
                                          /\ g[m][place[k]] = rule[k]
                                          /\ HasList(g[m], place[k] + 1, exes[k])
            T == {m \in Nat : m <= n => Good(m)}
<1>a. 0 \in T
  <2>1. g[0][1] = master /\ g[0][2] = n /\ size[0] >= 2
    BY <1>2, <1>8
  <2>. QED
    BY <2>1
<1>10. ASSUME NEW m \in Nat, m \in T
       PROVE  m + 1 \in T
  <2>1. ASSUME m + 1 <= n
        PROVE  Good(m + 1)
    <3>1. Good(m) /\ m \in 0..(n - 1)
      BY <1>10, <2>1
    <3>2. /\ size[m] \in Nat /\ size[m + 1] \in Nat /\ e[m + 1] \in Nat
          /\ size[m + 1] = size[m] + 2 + e[m + 1]
      BY <1>9, <3>1
    <3>3. size[m + 1] >= size[m] /\ size[m] + 1 <= size[m + 1] /\ size[m + 1] >= 2
      BY <3>2
    <3>4. \A k \in 1..size[m] : g[m + 1][k] = g[m][k]
      BY <1>9, <3>1
    <3>5. g[m + 1][1] = master /\ g[m + 1][2] = n
      <4>1. 1 \in 1..size[m] /\ 2 \in 1..size[m]
        BY <3>1, <3>2
      <4>. QED
        BY <3>1, <3>4, <4>1
    <3>6. ASSUME NEW k \in 1..m
          PROVE  /\ place[k] <= size[m + 1] /\ g[m + 1][place[k]] = rule[k]
                 /\ HasList(g[m + 1], place[k] + 1, exes[k])
      <4>1. /\ place[k] <= size[m] /\ g[m][place[k]] = rule[k]
            /\ HasList(g[m], place[k] + 1, exes[k])
        BY <3>1
      <4>2. k \in 1..(n + 1) /\ k \in 1..n
        BY <3>1
      <4>3. place[k] \in Nat \ {0}
        BY <1>7, <4>2
      <4>4. place[k] \in 1..size[m] /\ place[k] + 1 \in Nat \ {0} /\ place[k] <= size[m + 1]
        <5>1. place[k] <= size[m] /\ size[m] \in Nat /\ size[m] <= size[m + 1] /\ size[m + 1] \in Nat
          BY <3>2, <3>3, <4>1
        <5>. QED
          BY <4>3, <5>1
      <4>5. exes[k] \in Seq(A)
        BY <1>2, <4>2
      <4>6. \A at \in Nat \ {0}, l \in Seq(A) : HasList(g[m], at, l) => HasList(g[m + 1], at, l)
        BY <1>9, <3>1
      <4>7. HasList(g[m + 1], place[k] + 1, exes[k])
        BY <4>1, <4>4, <4>5, <4>6
      <4>. QED
        BY <3>4, <4>1, <4>4, <4>7
    <3>7. /\ place[m + 1] <= size[m + 1] /\ g[m + 1][place[m + 1]] = rule[m + 1]
          /\ HasList(g[m + 1], place[m + 1] + 1, exes[m + 1])
      <4>1. place[m + 1] = size[m] + 1
        BY <1>9, <3>1
      <4>2. g[m + 1][place[m + 1]] = rule[m + 1] /\ HasList(g[m + 1], place[m + 1] + 1, exes[m + 1])
        BY <1>9, <3>1
      <4>. QED
        BY <3>3, <4>1, <4>2
    <3>8. \A k \in 1..(m + 1) : k \in 1..m \/ k = m + 1
      OBVIOUS
    <3>. QED
      BY <3>3, <3>5, <3>6, <3>7, <3>8
  <2>. HIDE DEF Good
  <2>2. m + 1 \in Nat
    OBVIOUS
  <2>. QED
    BY <2>1, <2>2
<1>11. Good(n)
  <2>. HIDE DEF Good
  <2>1. n \in T
    <3>. HIDE DEF T
    <3>. QED
      BY <1>a, <1>10, Induction
  <2>. QED
    BY <2>1
<1>12. p \in Seq(A) /\ p[1] = master /\ p[2] = n /\ Len(p) = size[n] /\ 2 \in DOMAIN p
  <2>1. g[n] \in Seq(A) /\ Len(g[n]) = size[n] /\ g[n][1] = master /\ g[n][2] = n /\ size[n] >= 2
    BY <1>6, <1>11
  <2>2. DOMAIN g[n] = 1..Len(g[n]) /\ Len(g[n]) \in Nat
    BY <2>1
  <2>. QED
    BY <1>5, <2>1, <2>2
<1>13. Length(p, 2, MaxRules) = n
  BY <1>12 DEF Length
<1>14. ASSUME NEW k \in 1..n
       PROVE  /\ p[place[k]] = rule[k]
              /\ Length(p, place[k] + 1, MaxExecutables) = Len(exes[k])
              /\ Items(p, place[k] + 1) = exes[k]
  <2>1. p[place[k]] = rule[k] /\ HasList(p, place[k] + 1, exes[k])
    BY <1>5, <1>11
  <2>2. place[k] + 1 \in Nat \ {0}
    <3>1. k \in 1..(n + 1)
      OBVIOUS
    <3>2. place[k] \in Nat \ {0}
      BY <1>7, <3>1
    <3>. QED
      BY <3>2
  <2>3. p \in Seq(A) /\ exes[k] \in Seq(A) /\ MaxExecutables \in Nat
    BY <1>2, <1>12
  <2>4. Length(p, place[k] + 1, MaxExecutables) = Len(exes[k]) /\ Items(p, place[k] + 1) = exes[k]
    <3>1. HasList(p, place[k] + 1, exes[k])
      BY <2>1
    <3>. QED
      BY <2>2, <2>3, <3>1, ListRead, ZenonT(40)
  <2>. QED
    BY <2>1, <2>4
<1>15. ASSUME NEW k \in 1..((n + 1) - 1)
       PROVE  place[k + 1] = place[k] + 2 + Length(p, place[k] + 1, MaxExecutables)
  <2>1. k \in 1..n /\ k - 1 \in 0..(n - 1) /\ (k - 1) + 1 = k /\ k + 1 \in 1..(n + 1) /\ (k + 1) - 1 = k
        /\ k \in 1..(n + 1)
    OBVIOUS
  <2>2. size[k] = size[k - 1] + 2 + e[k] /\ size[k - 1] \in Nat /\ e[k] \in Nat
    <3>1. /\ size[(k - 1) + 1] = size[k - 1] + 2 + e[(k - 1) + 1]
          /\ size[k - 1] \in Nat /\ e[(k - 1) + 1] \in Nat
      BY <1>9, <2>1
    <3>. QED
      BY <2>1, <3>1
  <2>3. place[k + 1] = size[k] + 1 /\ place[k] = size[k - 1] + 1
    <3>1. place[k + 1] = size[(k + 1) - 1] + 1 /\ place[k] = size[k - 1] + 1
      BY <1>7, <2>1
    <3>. QED
      BY <2>1, <3>1
  <2>4. Length(p, place[k] + 1, MaxExecutables) = e[k]
    BY <1>6, <1>14, <2>1
  <2>. DEFINE a == size[k - 1]
              b == e[k]
              c == size[k]
  <2>5. a \in Nat /\ b \in Nat /\ c = a + 2 + b
    BY <2>2
  <2>6. place[k + 1] = c + 1 /\ place[k] = a + 1 /\ Length(p, place[k] + 1, MaxExecutables) = b
    BY <2>3, <2>4
  <2>. HIDE DEF a, b, c
  <2>7. c + 1 = (a + 1) + 2 + b
    BY <2>5
  <2>. QED
    BY <2>6, <2>7, Zenon
<1>16. \A k \in 1..(n + 1) : RuleAt(p, k) = place[k]
  <2>1. n + 1 \in Nat /\ place[1] = 3
    BY <1>8
  <2>2. place \in [1..(n + 1) -> Nat]
    BY <1>7
  <2>3. ArePlaces(p, n + 1, place)
    BY <1>15, <2>1 DEF ArePlaces
  <2>. QED
    BY <2>1, <2>2, <2>3, RulePlaces
<1>17. RuleAt(p, n + 1) = Len(p) + 1
  <2>1. n + 1 \in 1..(n + 1) /\ (n + 1) - 1 = n
    OBVIOUS
  <2>. QED
    BY <1>7, <1>12, <1>16, <2>1
<1>18. \A k \in 1..n : RuleAt(p, k) = place[k]
  BY <1>16
<1>19. [i \in 1..n |-> [rule |-> p[RuleAt(p, i)], executables |-> Items(p, RuleAt(p, i) + 1)]]
         = [i \in 1..n |-> [rule |-> rule[i], executables |-> exes[i]]]
  BY <1>14, <1>18
<1>20. (\E i \in 1..n : Length(p, RuleAt(p, i) + 1, MaxExecutables) > MaxExecutables)
         <=> \E i \in 1..n : Len(exes[i]) > MaxExecutables
  BY <1>14, <1>18
<1>. QED
  BY <1>1, <1>12, <1>13, <1>17, <1>19, <1>20 DEF DecodeAppRules, Config, config
=============================================================================
