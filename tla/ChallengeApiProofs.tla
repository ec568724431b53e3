------------------------- MODULE ChallengeApiProofs -------------------------
(***************************************************************************)
(* Proofs about ChallengeApi, for any clients, deployments, limits and     *)
(* bounds: that its two limiters are exact and remember the right keys,    *)
(* and that a right answer finds the child that issued its challenge, for  *)
(* good if redeployments only add children.                                *)
(***************************************************************************)
EXTENDS ChallengeApi, SequencesExt, FiniteSetTheorems, SequenceTheorems, TLAPS

LEMMA Limits ==
    /\ IssueCalls \in Nat \ {0} /\ VerifyCalls \in Nat \ {0} /\ Period \in Nat \ {0}
  BY LimitersAssumption DEF Issuing!LimiterAssumption, Verifying!LimiterAssumption

-----------------------------------------------------------------------------
(* One bucket of a limiter of m calls: b is its state, h its accepted calls, t the time. *)

\* What the bucket holds by now.
Filled(m, b, t) ==
    LET tokens == b.tokens + (t - b.last) * m
    IN  IF tokens < m * Period THEN tokens ELSE m * Period

\* What the calls accepted since the i-th, that one included, have left of the budget.
Left(m, h, i, t) == m * Period + (t - h[i]) * m - (Len(h) - i + 1) * Period

\* The bucket holds what the tightest window leaves, or is full.
BucketOK(m, b, h, t) ==
    /\ b \in [tokens: Nat, last: Nat]
    /\ h \in Seq(Nat)
    /\ b.last <= t
    /\ \A i \in DOMAIN h : Filled(m, b, t) <= Left(m, h, i, t)
    /\ Filled(m, b, t) = m * Period \/ \E i \in DOMAIN h : Filled(m, b, t) = Left(m, h, i, t)

LEMMA Distributes ==
    ASSUME NEW a \in Int, NEW b \in Int, NEW c \in Int, NEW m \in Int
    PROVE  (b - c) * m = (a - c) * m + (b - a) * m
  OBVIOUS

LEMMA Product == ASSUME NEW a \in Nat, NEW b \in Nat PROVE a * b \in Nat
  OBVIOUS

LEMMA Capacity == ASSUME NEW m \in Nat \ {0} PROVE m * Period \in Nat /\ m * Period >= Period
<1>1. Period \in Nat
  BY Limits
<1>2. m * Period \in Nat /\ (m - 1) * Period \in Nat
  BY <1>1, Product
<1>3. m * Period = (m - 1) * Period + Period
  BY <1>1
<1>. QED BY <1>1, <1>2, <1>3

LEMMA FilledType ==
    ASSUME NEW m \in Nat \ {0}, NEW b \in [tokens: Nat, last: Nat], NEW t \in Nat, b.last <= t
    PROVE  Filled(m, b, t) \in Nat /\ Filled(m, b, t) <= m * Period
<1>1. t - b.last \in Nat /\ b.tokens \in Nat
  OBVIOUS
<1>2. (t - b.last) * m \in Nat
  BY <1>1, Product
<1>3. b.tokens + (t - b.last) * m \in Nat
  BY <1>1, <1>2
<1>4. m * Period \in Nat
  BY Capacity
<1>. QED BY <1>3, <1>4 DEF Filled

LEMMA LeftType ==
    ASSUME NEW m \in Nat \ {0}, NEW h \in Seq(Nat), NEW i \in DOMAIN h, NEW t \in Nat
    PROVE  Left(m, h, i, t) \in Int /\ h[i] \in Nat /\ i \in Nat /\ Len(h) \in Nat
<1>1. h[i] \in Nat /\ i \in Nat /\ Len(h) \in Nat
  OBVIOUS
<1>2. m * Period \in Nat /\ Period \in Nat
  BY Capacity, Limits
<1>3. (t - h[i]) * m \in Int /\ (Len(h) - i + 1) * Period \in Int
  BY <1>1, <1>2
<1>. QED BY <1>1, <1>2, <1>3 DEF Left

\* A bucket nobody has drawn from is full.
LEMMA BucketFresh ==
    ASSUME NEW m \in Nat \ {0}, NEW t \in Nat
    PROVE  BucketOK(m, [tokens |-> m * Period, last |-> 0], << >>, t)
<1>1. m * Period \in Nat
  BY Capacity
<1>2. (t - 0) * m \in Nat
  BY Product
<1>3. Filled(m, [tokens |-> m * Period, last |-> 0], t) = m * Period
  BY <1>1, <1>2 DEF Filled
<1>. QED BY <1>1, <1>3 DEF BucketOK

\* Time refills the bucket as it relieves every window.
LEMMA BucketTime ==
    ASSUME NEW m \in Nat \ {0}, NEW b, NEW h, NEW t \in Nat, BucketOK(m, b, h, t),
           NEW u \in Nat, u >= t
    PROVE  BucketOK(m, b, h, u)
<1>. DEFINE more == (u - t) * m
            full == m * Period
<1>1. b \in [tokens: Nat, last: Nat] /\ h \in Seq(Nat) /\ b.last <= t /\ b.last <= u
  BY DEF BucketOK
<1>2. more \in Nat /\ full \in Nat
  BY Product, Capacity
<1>3. ASSUME NEW i \in DOMAIN h
      PROVE  Left(m, h, i, u) = Left(m, h, i, t) + more /\ Left(m, h, i, t) \in Int
  <2>. DEFINE before == (t - h[i]) * m
              after == (u - h[i]) * m
              spent == (Len(h) - i + 1) * Period
  <2>1. h[i] \in Nat /\ i \in Nat /\ Len(h) \in Nat /\ Left(m, h, i, t) \in Int
    BY <1>1, LeftType
  <2>2. after = before + more
    BY <2>1, Distributes
  <2>3. before \in Int
    BY <2>1
  <2>4. spent \in Int
    BY <2>1, Limits
  <2>5. Left(m, h, i, t) = full + before - spent /\ Left(m, h, i, u) = full + after - spent
    BY DEF Left
  <2>. HIDE DEF more, full, before, after, spent
  <2>. QED BY <1>2, <2>1, <2>2, <2>3, <2>4, <2>5
<1>4. Filled(m, b, u) = IF Filled(m, b, t) + more < full THEN Filled(m, b, t) + more ELSE full
  <2>1. (u - b.last) * m = (t - b.last) * m + more
    BY <1>1, Distributes
  <2>2. (t - b.last) * m \in Nat /\ b.tokens \in Nat
    BY <1>1, Product
  <2>. HIDE DEF more
  <2>. QED BY <1>2, <2>1, <2>2 DEF Filled
<1>5. Filled(m, b, t) \in Nat /\ Filled(m, b, t) <= full
  BY <1>1, FilledType
<1>. HIDE DEF more, full
<1>6. \A i \in DOMAIN h : Filled(m, b, u) <= Left(m, h, i, u)
  <2>. SUFFICES ASSUME NEW i \in DOMAIN h PROVE Filled(m, b, u) <= Left(m, h, i, u)
    OBVIOUS
  <2>1. Filled(m, b, t) <= Left(m, h, i, t)
    BY DEF BucketOK
  <2>2. Filled(m, b, u) <= Filled(m, b, t) + more /\ Filled(m, b, u) \in Int
    BY <1>2, <1>4, <1>5
  <2>3. Left(m, h, i, u) = Left(m, h, i, t) + more /\ Left(m, h, i, t) \in Int
    BY <1>3
  <2>. QED BY <1>2, <1>5, <2>1, <2>2, <2>3
<1>7. Filled(m, b, u) = full \/ \E i \in DOMAIN h : Filled(m, b, u) = Left(m, h, i, u)
  <2>1. CASE Filled(m, b, t) + more < full
    <3>1. Filled(m, b, t) # full
      BY <1>2, <1>5, <2>1
    <3>2. PICK i \in DOMAIN h : Filled(m, b, t) = Left(m, h, i, t)
      BY <3>1 DEF BucketOK, full
    <3>3. Filled(m, b, u) = Left(m, h, i, u)
      BY <1>3, <1>4, <2>1, <3>2
    <3>. QED BY <3>3
  <2>2. CASE ~ (Filled(m, b, t) + more < full)
    BY <1>4, <2>2
  <2>. QED BY <2>1, <2>2
<1>. QED BY <1>1, <1>6, <1>7 DEF BucketOK, full

\* Putting the refill down changes nothing.
LEMMA BucketRefuse ==
    ASSUME NEW m \in Nat \ {0}, NEW b, NEW h, NEW t \in Nat, BucketOK(m, b, h, t)
    PROVE  BucketOK(m, [tokens |-> Filled(m, b, t), last |-> t], h, t)
<1>1. Filled(m, b, t) \in Nat /\ Filled(m, b, t) <= m * Period
  BY FilledType DEF BucketOK
<1>2. (t - t) * m = 0
  OBVIOUS
<1>3. m * Period \in Nat
  BY Capacity
<1>4. Filled(m, [tokens |-> Filled(m, b, t), last |-> t], t) = Filled(m, b, t)
  BY <1>1, <1>2, <1>3 DEF Filled
<1>. QED BY <1>1, <1>4 DEF BucketOK

\* An accepted call takes its share from the bucket, and from every window.
LEMMA BucketAccept ==
    ASSUME NEW m \in Nat \ {0}, NEW b, NEW h, NEW t \in Nat, BucketOK(m, b, h, t),
           Filled(m, b, t) >= Period
    PROVE  BucketOK(m, [tokens |-> Filled(m, b, t) - Period, last |-> t], Append(h, t), t)
<1>. DEFINE c == [tokens |-> Filled(m, b, t) - Period, last |-> t]
            g == Append(h, t)
<1>1. /\ Filled(m, b, t) \in Nat /\ Filled(m, b, t) <= m * Period
      /\ Period \in Nat \ {0} /\ m * Period \in Nat
  BY FilledType, Limits, Capacity DEF BucketOK
<1>2. c \in [tokens: Nat, last: Nat] /\ c.tokens = Filled(m, b, t) - Period /\ c.last = t
  BY <1>1
<1>3. /\ h \in Seq(Nat) /\ g \in Seq(Nat) /\ Len(g) = Len(h) + 1 /\ Len(h) \in Nat
      /\ \A i \in DOMAIN h : g[i] = h[i]
      /\ g[Len(h) + 1] = t /\ DOMAIN g = DOMAIN h \union {Len(h) + 1}
  BY DEF BucketOK
<1>4. Filled(m, c, t) = Filled(m, b, t) - Period
  <2>1. (t - t) * m = 0
    OBVIOUS
  <2>. HIDE DEF c
  <2>. QED BY <1>1, <1>2, <2>1 DEF Filled
<1>. HIDE DEF c, g
<1>5. ASSUME NEW i \in DOMAIN h
      PROVE  Left(m, g, i, t) = Left(m, h, i, t) - Period /\ Left(m, h, i, t) \in Int
  <2>. DEFINE full == m * Period
              refill == (t - h[i]) * m
              before == (Len(h) - i + 1) * Period
              after == (Len(g) - i + 1) * Period
  <2>1. h[i] \in Nat /\ i \in Nat /\ Left(m, h, i, t) \in Int /\ g[i] = h[i]
    BY <1>3, LeftType
  <2>2. after = before + Period
    <3>1. Len(g) - i + 1 = (Len(h) - i + 1) + 1 /\ Len(h) - i + 1 \in Int
      BY <1>3, <2>1, SMTT(20)
    <3>. DEFINE n == Len(h) - i + 1
    <3>2. (n + 1) * Period = n * Period + Period
      <4>1. n \in Int
        BY <3>1
      <4>. HIDE DEF n
      <4>. QED BY <1>1, <4>1
    <3>. QED BY <3>1, <3>2
  <2>3. refill \in Int
    BY <2>1
  <2>4. before \in Int
    BY <1>1, <1>3, <2>1, SMTT(20)
  <2>5. Left(m, h, i, t) = full + refill - before /\ Left(m, g, i, t) = full + refill - after
    BY <2>1 DEF Left
  <2>6. full \in Int /\ Period \in Int
    BY <1>1
  <2>. HIDE DEF full, refill, before, after
  <2>. QED BY <2>1, <2>2, <2>3, <2>4, <2>5, <2>6
<1>6. Left(m, g, Len(h) + 1, t) = m * Period - Period
  <2>. DEFINE full == m * Period
              refill == (t - t) * m
              spent == (Len(g) - (Len(h) + 1) + 1) * Period
  <2>1. refill = 0
    OBVIOUS
  <2>2. spent = Period
    <3>1. Len(g) - (Len(h) + 1) + 1 = 1
      BY <1>3
    <3>2. 1 * Period = Period
      BY <1>1
    <3>. QED BY <3>1, <3>2
  <2>3. g[Len(h) + 1] = t
    BY <1>3
  <2>4. Left(m, g, Len(h) + 1, t) = full + refill - spent
    BY <2>3 DEF Left
  <2>5. full \in Int /\ Period \in Int
    BY <1>1
  <2>6. full + refill - spent = full - Period
    <3>. HIDE DEF full, refill, spent
    <3>. QED BY <2>1, <2>2, <2>5
  <2>. QED BY <2>4, <2>6
<1>7. \A i \in DOMAIN g : Filled(m, c, t) <= Left(m, g, i, t)
  <2>1. ASSUME NEW i \in DOMAIN h PROVE Filled(m, c, t) <= Left(m, g, i, t)
    <3>1. Filled(m, b, t) <= Left(m, h, i, t)
      BY DEF BucketOK
    <3>. QED BY <1>1, <1>4, <1>5, <3>1
  <2>2. Filled(m, c, t) <= Left(m, g, Len(h) + 1, t)
    BY <1>1, <1>4, <1>6
  <2>. QED BY <1>3, <2>1, <2>2
<1>8. \E i \in DOMAIN g : Filled(m, c, t) = Left(m, g, i, t)
  <2>1. CASE Filled(m, b, t) = m * Period
    BY <1>3, <1>4, <1>6, <2>1
  <2>2. CASE Filled(m, b, t) # m * Period
    <3>1. PICK i \in DOMAIN h : Filled(m, b, t) = Left(m, h, i, t)
      BY <2>2 DEF BucketOK
    <3>2. Filled(m, c, t) = Left(m, g, i, t) /\ i \in DOMAIN g
      BY <1>3, <1>4, <1>5, <3>1
    <3>. QED BY <3>2
  <2>. QED BY <2>1, <2>2
<1>. QED BY <1>1, <1>2, <1>3, <1>7, <1>8, SMTT(20) DEF BucketOK, c, g

\* Such a bucket has a call to give exactly if every window has.
LEMMA BucketExact ==
    ASSUME NEW m \in Nat \ {0}, NEW b, NEW h, NEW t \in Nat, BucketOK(m, b, h, t)
    PROVE  Filled(m, b, t) >= Period <=> \A i \in DOMAIN h : Left(m, h, i, t) >= Period
<1>1. /\ Filled(m, b, t) \in Nat /\ Period \in Nat /\ m * Period \in Nat /\ m * Period >= Period
      /\ h \in Seq(Nat)
  BY FilledType, Limits, Capacity DEF BucketOK
<1>2. \A i \in DOMAIN h : Left(m, h, i, t) \in Int
  BY <1>1, LeftType
<1>3. ASSUME Filled(m, b, t) >= Period, NEW i \in DOMAIN h
      PROVE  Left(m, h, i, t) >= Period
  <2>1. Filled(m, b, t) <= Left(m, h, i, t) /\ Left(m, h, i, t) \in Int
    BY <1>2 DEF BucketOK
  <2>. QED BY <1>1, <1>3, <2>1
<1>4. ASSUME \A i \in DOMAIN h : Left(m, h, i, t) >= Period
      PROVE  Filled(m, b, t) >= Period
  <2>1. CASE Filled(m, b, t) = m * Period
    BY <1>1, <2>1
  <2>2. CASE \E i \in DOMAIN h : Filled(m, b, t) = Left(m, h, i, t)
    BY <1>4, <2>2
  <2>. QED BY <2>1, <2>2 DEF BucketOK
<1>. QED BY <1>3, <1>4

-----------------------------------------------------------------------------
(* The table of a limiter of m calls. *)

TableOK(m, table, t) ==
    /\ table = [buckets |-> table.buckets, order |-> table.order,
                hits |-> table.hits, others |-> table.others]
    /\ table.buckets = [c \in Clients |-> table.buckets[c]]
    /\ table.hits = [c \in Clients |-> table.hits[c]]
    /\ \A c \in Clients : BucketOK(m, table.buckets[c], table.hits[c], t)

LEMMA TableFresh ==
    ASSUME NEW m \in Nat \ {0}, NEW t \in Nat, NEW o, NEW x
    PROVE  TableOK(m, [buckets |-> [c \in Clients |-> [tokens |-> m * Period, last |-> 0]],
                       order |-> o, hits |-> [c \in Clients |-> << >>], others |-> x], t)
  BY BucketFresh DEF TableOK

LEMMA TableTime ==
    ASSUME NEW m \in Nat \ {0}, NEW table, NEW t \in Nat, TableOK(m, table, t),
           NEW u \in Nat, u >= t
    PROVE  TableOK(m, table, u)
  BY BucketTime DEF TableOK

LEMMA Updated ==
    ASSUME NEW T, NEW k, NEW v, NEW o, NEW x, NEW U,
           T = [buckets |-> T.buckets, order |-> T.order, hits |-> T.hits, others |-> T.others],
           U = [T EXCEPT !.buckets[k] = v, !.order = o, !.others = x]
    PROVE  /\ U = [buckets |-> U.buckets, order |-> U.order, hits |-> U.hits,
                   others |-> U.others]
           /\ U.buckets = [T.buckets EXCEPT ![k] = v]
           /\ U.hits = T.hits
<1>1. ASSUME NEW b, NEW p, NEW h, NEW y,
             T = [buckets |-> b, order |-> p, hits |-> h, others |-> y]
      PROVE  U.buckets = [b EXCEPT ![k] = v] /\ U.hits = h
  BY <1>1
<1>2. ASSUME NEW b, NEW p, NEW h, NEW y,
             T = [buckets |-> b, order |-> p, hits |-> h, others |-> y]
      PROVE  U = [buckets |-> U.buckets, order |-> U.order, hits |-> U.hits,
                  others |-> U.others]
  BY <1>2
<1>. QED BY <1>1, <1>2

LEMMA TableRefuse ==
    ASSUME NEW m \in Nat \ {0}, NEW table, NEW t \in Nat, TableOK(m, table, t),
           NEW k \in Clients, NEW o, NEW x, NEW U,
           U = [table EXCEPT
                 !.buckets[k] = [tokens |-> Filled(m, table.buckets[k], t), last |-> t],
                 !.order = o, !.others = x]
    PROVE  TableOK(m, U, t)
<1>. DEFINE refused == [tokens |-> Filled(m, table.buckets[k], t), last |-> t]
<1>1. BucketOK(m, refused, table.hits[k], t)
  BY BucketRefuse DEF TableOK
<1>2. /\ U = [buckets |-> U.buckets, order |-> U.order, hits |-> U.hits, others |-> U.others]
      /\ U.buckets = [table.buckets EXCEPT ![k] = refused]
      /\ U.hits = table.hits
  <2>1. table = [buckets |-> table.buckets, order |-> table.order, hits |-> table.hits,
                 others |-> table.others]
    BY DEF TableOK
  <2>2. U = [table EXCEPT !.buckets[k] = refused, !.order = o, !.others = x]
    OBVIOUS
  <2>. HIDE DEF refused
  <2>. QED BY <2>1, <2>2, Updated
<1>. HIDE DEF refused
<1>. QED BY <1>1, <1>2 DEF TableOK

\* Whichever keys are evicted: they start afresh.
LEMMA TableAccept ==
    ASSUME NEW m \in Nat \ {0}, NEW table, NEW t \in Nat, TableOK(m, table, t),
           NEW k \in Clients, Filled(m, table.buckets[k], t) >= Period,
           NEW U,
           U = [buckets |-> U.buckets, order |-> U.order, hits |-> U.hits,
                others |-> U.others],
           U.buckets = [j \in Clients |-> U.buckets[j]],
           U.hits = [j \in Clients |-> U.hits[j]],
           \A j \in Clients :
               \/ U.buckets[j] = [tokens |-> m * Period, last |-> 0] /\ U.hits[j] = << >>
               \/ /\ j = k
                  /\ U.buckets[j] = [tokens |-> Filled(m, table.buckets[k], t) - Period,
                                     last |-> t]
                  /\ U.hits[j] = Append(table.hits[j], t)
               \/ U.buckets[j] = table.buckets[j] /\ U.hits[j] = table.hits[j]
    PROVE  TableOK(m, U, t)
<1>1. BucketOK(m, [tokens |-> m * Period, last |-> 0], << >>, t)
  BY BucketFresh
<1>2. BucketOK(m, [tokens |-> Filled(m, table.buckets[k], t) - Period, last |-> t],
               Append(table.hits[k], t), t)
  BY BucketAccept DEF TableOK
<1>3. \A j \in Clients : BucketOK(m, table.buckets[j], table.hits[j], t)
  BY DEF TableOK
<1>4. \A j \in Clients : BucketOK(m, U.buckets[j], U.hits[j], t)
  BY <1>1, <1>2, <1>3
<1>. QED BY <1>4 DEF TableOK

-----------------------------------------------------------------------------
(* The inductive invariant *)

\* The clock, and both tables at its time.
Metered ==
    /\ now \in Nat
    /\ TableOK(IssueCalls, issueTable, now)
    /\ TableOK(VerifyCalls, verifyTable, now)

\* The stores hold one record for a challenge id, and only ids that were given out.
Stored ==
    /\ ids \in Nat
    /\ \A p \in pending :
        /\ p = [id |-> p.id, by |-> p.by, attempts |-> p.attempts]
        /\ p.id \in Nat /\ p.id <= ids
        /\ p.attempts \in Nat
    /\ \A p, q \in pending : p.id = q.id => p = q

\* A request under way is for a registered kind, which has one child unless it is the
\* fallback.
Requested ==
    /\ DOMAIN client = Clients
    /\ \A c \in Clients :
        /\ DOMAIN client[c] = {"next", "asked", "got", "outcome"}
        /\ client[c].next \in Nat
        /\ client[c].next # 0 => Registered(client[c].asked)
        /\ client[c].asked # Fallback => client[c].next \in {0, 1}

\* The prefix of the challenge that a browser shows says whether the fallback issued it,
\* and the record that the challenge's id has in the stores is the issuing child's.
Prefixed(got) ==
    /\ got.id \in Nat /\ got.id <= ids
    /\ Registered(got.asked)
    /\ got.asked = Fallback => got.index # 0
    /\ got.asked # Fallback => got.index = 0 /\ got.kind = got.asked
    /\ \A p \in pending : p.id = got.id => p.by = got.kind

Shown == \A c \in Clients : client[c].got # None => Prefixed(client[c].got)

RoutingInv == Stored /\ Requested /\ Shown

-----------------------------------------------------------------------------
(* Each limiter's steps, at the call's time. *)

LEMMA IssuingSteps ==
    ASSUME Metered, NEW c \in Clients, Issuing!Check(c) PROVE TableOK(IssueCalls, issueTable', now)
<1>1. IssueCalls \in Nat \ {0} /\ now \in Nat /\ TableOK(IssueCalls, issueTable, now)
  BY Limits DEF Metered
<1>2. Issuing!Refilled(c) = Filled(IssueCalls, issueTable.buckets[c], now)
  BY DEF Issuing!Refilled, Issuing!Full, Filled
<1>3. CASE Issuing!Accept(c)
  <2>. DEFINE queue == Issuing!MovedToEnd(issueTable.order, c)
              evict == Issuing!Overflows(queue)
              gone == {j \in Clients : evict /\ j = Head(queue)}
              spent == [tokens |-> Filled(IssueCalls, issueTable.buckets[c], now) - Period,
                        last |-> now]
  <2>1. Filled(IssueCalls, issueTable.buckets[c], now) >= Period
    BY <1>2, <1>3 DEF Issuing!Accept, Issuing!Allowed
  <2>2. issueTable' =
          [buckets |-> [j \in Clients |->
              IF j \in gone THEN [tokens |-> IssueCalls * Period, last |-> 0]
              ELSE IF j = c THEN spent ELSE issueTable.buckets[j]],
           order |-> IF evict THEN Tail(queue) ELSE queue,
           hits |-> [j \in Clients |->
              IF j \in gone THEN << >>
              ELSE IF j = c THEN Append(issueTable.hits[j], now) ELSE issueTable.hits[j]],
           others |-> Issuing!OthersAfter(c)]
    BY <1>2, <1>3 DEF Issuing!Accept, Issuing!FullBucket, Issuing!Full
  <2>. HIDE DEF queue, evict, gone, spent
  <2>3. /\ issueTable' = [buckets |-> issueTable'.buckets, order |-> issueTable'.order,
                          hits |-> issueTable'.hits, others |-> issueTable'.others]
        /\ issueTable'.buckets = [j \in Clients |-> issueTable'.buckets[j]]
        /\ issueTable'.hits = [j \in Clients |-> issueTable'.hits[j]]
    BY <2>2
  <2>4. \A j \in Clients :
          \/ /\ issueTable'.buckets[j] = [tokens |-> IssueCalls * Period, last |-> 0]
             /\ issueTable'.hits[j] = << >>
          \/ /\ j = c
             /\ issueTable'.buckets[j] = spent
             /\ issueTable'.hits[j] = Append(issueTable.hits[j], now)
          \/ /\ issueTable'.buckets[j] = issueTable.buckets[j]
             /\ issueTable'.hits[j] = issueTable.hits[j]
    BY <2>2
  <2>. QED BY <1>1, <2>1, <2>3, <2>4, TableAccept DEF spent
<1>4. CASE Issuing!Refuse(c)
  BY <1>1, <1>2, <1>4, TableRefuse DEF Issuing!Refuse
<1>. QED BY <1>3, <1>4 DEF Issuing!Check

LEMMA VerifyingSteps ==
    ASSUME Metered, NEW c \in Clients, Verifying!Check(c)
    PROVE  TableOK(VerifyCalls, verifyTable', now)
<1>1. VerifyCalls \in Nat \ {0} /\ now \in Nat /\ TableOK(VerifyCalls, verifyTable, now)
  BY Limits DEF Metered
<1>2. Verifying!Refilled(c) = Filled(VerifyCalls, verifyTable.buckets[c], now)
  BY DEF Verifying!Refilled, Verifying!Full, Filled
<1>3. CASE Verifying!Accept(c)
  <2>. DEFINE queue == Verifying!MovedToEnd(verifyTable.order, c)
              evict == Verifying!Overflows(queue)
              gone == {j \in Clients : evict /\ j = Head(queue)}
              spent == [tokens |-> Filled(VerifyCalls, verifyTable.buckets[c], now) - Period,
                        last |-> now]
  <2>1. Filled(VerifyCalls, verifyTable.buckets[c], now) >= Period
    BY <1>2, <1>3 DEF Verifying!Accept, Verifying!Allowed
  <2>2. verifyTable' =
          [buckets |-> [j \in Clients |->
              IF j \in gone THEN [tokens |-> VerifyCalls * Period, last |-> 0]
              ELSE IF j = c THEN spent ELSE verifyTable.buckets[j]],
           order |-> IF evict THEN Tail(queue) ELSE queue,
           hits |-> [j \in Clients |->
              IF j \in gone THEN << >>
              ELSE IF j = c THEN Append(verifyTable.hits[j], now) ELSE verifyTable.hits[j]],
           others |-> Verifying!OthersAfter(c)]
    BY <1>2, <1>3 DEF Verifying!Accept, Verifying!FullBucket, Verifying!Full
  <2>. HIDE DEF queue, evict, gone, spent
  <2>3. /\ verifyTable' = [buckets |-> verifyTable'.buckets, order |-> verifyTable'.order,
                          hits |-> verifyTable'.hits, others |-> verifyTable'.others]
        /\ verifyTable'.buckets = [j \in Clients |-> verifyTable'.buckets[j]]
        /\ verifyTable'.hits = [j \in Clients |-> verifyTable'.hits[j]]
    BY <2>2
  <2>4. \A j \in Clients :
          \/ /\ verifyTable'.buckets[j] = [tokens |-> VerifyCalls * Period, last |-> 0]
             /\ verifyTable'.hits[j] = << >>
          \/ /\ j = c
             /\ verifyTable'.buckets[j] = spent
             /\ verifyTable'.hits[j] = Append(verifyTable.hits[j], now)
          \/ /\ verifyTable'.buckets[j] = verifyTable.buckets[j]
             /\ verifyTable'.hits[j] = verifyTable.hits[j]
    BY <2>2
  <2>. QED BY <1>1, <2>1, <2>3, <2>4, TableAccept DEF spent
<1>4. CASE Verifying!Refuse(c)
  BY <1>1, <1>2, <1>4, TableRefuse DEF Verifying!Refuse
<1>. QED BY <1>3, <1>4 DEF Verifying!Check

LEMMA MeteredInit == Init => Metered
<1>. SUFFICES ASSUME Init PROVE Metered
  OBVIOUS
<1>1. now = 0 /\ 0 \in Nat
  BY DEF Init
<1>2. TableOK(IssueCalls, issueTable, 0)
  BY Limits, TableFresh
     DEF Init, Issuing!EmptyTable, Issuing!FullBucket, Issuing!Full
<1>3. TableOK(VerifyCalls, verifyTable, 0)
  BY Limits, TableFresh
     DEF Init, Verifying!EmptyTable, Verifying!FullBucket, Verifying!Full
<1>. QED BY <1>1, <1>2, <1>3 DEF Metered

LEMMA MeteredNext == Metered /\ [Next]_vars => Metered'
<1>. SUFFICES ASSUME Metered, [Next]_vars PROVE Metered'
  OBVIOUS
<1>0. /\ now \in Nat /\ TableOK(IssueCalls, issueTable, now)
      /\ TableOK(VerifyCalls, verifyTable, now)
      /\ IssueCalls \in Nat \ {0} /\ VerifyCalls \in Nat \ {0}
  BY Limits DEF Metered
<1>1. CASE UNCHANGED <<now, issueTable, verifyTable>>
  BY <1>0, <1>1 DEF Metered
<1>2. ASSUME NEW c \in Clients, NEW kind \in Kinds, GetChallenge(c, kind) PROVE Metered'
  <2>1. Issuing!Check(c) /\ UNCHANGED <<now, verifyTable>>
    BY <1>2 DEF GetChallenge, Issuing!Check
  <2>2. TableOK(IssueCalls, issueTable', now)
    BY <2>1, IssuingSteps
  <2>. QED BY <1>0, <2>1, <2>2 DEF Metered
<1>3. ASSUME NEW c \in Clients, Issue(c) \/ IssueRaises(c) PROVE Metered'
  BY <1>1, <1>3 DEF Issue, IssueRaises
<1>4. ASSUME NEW c \in Clients, NEW kind \in Kinds, NEW right \in BOOLEAN,
             PostVerify(c, kind, right)
      PROVE  Metered'
  <2>1. Verifying!Check(c) /\ UNCHANGED <<now, issueTable>>
    BY <1>4 DEF PostVerify, Verifying!Check
  <2>2. TableOK(VerifyCalls, verifyTable', now)
    BY <2>1, VerifyingSteps
  <2>. QED BY <1>0, <2>1, <2>2 DEF Metered
<1>5. CASE Redeploy
  <2>1. issueTable' = Issuing!EmptyTable /\ verifyTable' = Verifying!EmptyTable /\ now' = now
    BY <1>5 DEF Redeploy
  <2>2. TableOK(IssueCalls, issueTable', now)
    BY <1>0, <2>1, TableFresh DEF Issuing!EmptyTable, Issuing!FullBucket, Issuing!Full
  <2>3. TableOK(VerifyCalls, verifyTable', now)
    BY <1>0, <2>1, TableFresh DEF Verifying!EmptyTable, Verifying!FullBucket, Verifying!Full
  <2>. QED BY <1>0, <2>1, <2>2, <2>3 DEF Metered
<1>6. CASE Tick
  <2>1. now' = now + 1 /\ UNCHANGED <<issueTable, verifyTable>>
    BY <1>6 DEF Tick
  <2>2. now + 1 \in Nat /\ now + 1 >= now
    BY <1>0
  <2>3. TableOK(IssueCalls, issueTable, now + 1)
    BY <1>0, <2>2, TableTime
  <2>4. TableOK(VerifyCalls, verifyTable, now + 1)
    BY <1>0, <2>2, TableTime
  <2>. QED BY <2>1, <2>2, <2>3, <2>4 DEF Metered
<1>7. CASE UNCHANGED vars
  BY <1>1, <1>7 DEF vars
<1>. QED BY <1>2, <1>3, <1>4, <1>5, <1>6, <1>7 DEF Next

LEMMA MeteredIsExact == Metered => BudgetsAreExact
<1>. SUFFICES ASSUME Metered PROVE BudgetsAreExact
  OBVIOUS
<1>1. Issuing!AllowedIffWithinBudget
  <2>. SUFFICES ASSUME NEW c \in Clients
                PROVE  Issuing!Allowed(c) <=>
                         \A i \in DOMAIN issueTable.hits[c] : Issuing!LeftSince(c, i) >= Period
    BY DEF Issuing!AllowedIffWithinBudget
  <2>1. Issuing!Allowed(c) <=> Filled(IssueCalls, issueTable.buckets[c], now) >= Period
    BY DEF Issuing!Allowed, Issuing!Refilled, Issuing!Full, Filled
  <2>2. \A i \in DOMAIN issueTable.hits[c] :
          Issuing!LeftSince(c, i) = Left(IssueCalls, issueTable.hits[c], i, now)
    BY DEF Issuing!LeftSince, Issuing!Full, Left
  <2>3. Filled(IssueCalls, issueTable.buckets[c], now) >= Period <=>
          \A i \in DOMAIN issueTable.hits[c] :
            Left(IssueCalls, issueTable.hits[c], i, now) >= Period
    BY Limits, BucketExact DEF Metered, TableOK
  <2>. QED BY <2>1, <2>2, <2>3
<1>2. Verifying!AllowedIffWithinBudget
  <2>. SUFFICES ASSUME NEW c \in Clients
                PROVE  Verifying!Allowed(c) <=>
                         \A i \in DOMAIN verifyTable.hits[c] :
                           Verifying!LeftSince(c, i) >= Period
    BY DEF Verifying!AllowedIffWithinBudget
  <2>1. Verifying!Allowed(c) <=> Filled(VerifyCalls, verifyTable.buckets[c], now) >= Period
    BY DEF Verifying!Allowed, Verifying!Refilled, Verifying!Full, Filled
  <2>2. \A i \in DOMAIN verifyTable.hits[c] :
          Verifying!LeftSince(c, i) = Left(VerifyCalls, verifyTable.hits[c], i, now)
    BY DEF Verifying!LeftSince, Verifying!Full, Left
  <2>3. Filled(VerifyCalls, verifyTable.buckets[c], now) >= Period <=>
          \A i \in DOMAIN verifyTable.hits[c] :
            Left(VerifyCalls, verifyTable.hits[c], i, now) >= Period
    BY Limits, BucketExact DEF Metered, TableOK
  <2>. QED BY <2>1, <2>2, <2>3
<1>. QED BY <1>1, <1>2 DEF BudgetsAreExact

\* ratelimit.py's "token bucket": whatever the limits, however calls and time are spaced,
\* and whatever keys were evicted in between, neither limiter turns away a call that the
\* budget allows in every window, or lets one pass that it does not.
THEOREM LimitersAreExact == Spec => []BudgetsAreExact
<1>. QED BY MeteredInit, MeteredNext, MeteredIsExact, PTL DEF Spec

-----------------------------------------------------------------------------
(* The queue of a limiter: the tracked keys, the least recently checked first *)

\* Those after the i-th.
After(q, i) == {q[j] : j \in i+1..Len(q)}

LEMMA HowManyAfter ==
    ASSUME NEW S, NEW q \in Seq(S), IsInjective(q), NEW i \in DOMAIN q
    PROVE  /\ q[i] \notin After(q, i)
           /\ IsFiniteSet(After(q, i)) /\ Cardinality(After(q, i)) = Len(q) - i
<1>. DEFINE J == i+1..Len(q)
            f == [j \in J |-> q[j]]
<1>1. i \in Nat /\ Len(q) \in Nat /\ 1 <= i /\ i <= Len(q) /\ DOMAIN q = 1..Len(q)
  OBVIOUS
<1>2. \A j \in J : j \in DOMAIN q /\ j # i
  BY <1>1
<1>3. q[i] \notin After(q, i)
  BY <1>2 DEF After, IsInjective
<1>4. IsFiniteSet(J) /\ Cardinality(J) = Len(q) - i
  <2>1. i + 1 \in Int /\ Len(q) \in Int
    BY <1>1
  <2>2. /\ IsFiniteSet(J)
        /\ Cardinality(J) = IF i + 1 > Len(q) THEN 0 ELSE Len(q) - (i + 1) + 1
    BY <2>1, FS_Interval, Zenon
  <2>. HIDE DEF J
  <2>. QED BY <1>1, <2>2
<1>5. ExistsBijection(J, After(q, i))
  <2>1. f \in [J -> After(q, i)]
    BY DEF After
  <2>2. \A a, b \in J : f[a] = f[b] => a = b
    BY <1>2 DEF IsInjective
  <2>3. \A t \in After(q, i) : \E j \in J : f[j] = t
    BY DEF After
  <2>. HIDE DEF f, J
  <2>4. f \in Injection(J, After(q, i)) /\ f \in Surjection(J, After(q, i))
    BY <2>1, <2>2, <2>3 DEF Injection, Surjection, IsInjective
  <2>. QED BY <2>4 DEF ExistsBijection, Bijection
<1>. QED BY <1>3, <1>4, <1>5, FS_Bijection

\* r is q with k moved to the end, from place p, which is past the end if k is new.
Moved(S, q, k, p, r) ==
    /\ p \in 1..Len(q)+1
    /\ p <= Len(q) => q[p] = k
    /\ p = Len(q) + 1 => k \notin ToSet(q)
    /\ r \in Seq(S)
    /\ Len(r) = IF p <= Len(q) THEN Len(q) ELSE Len(q) + 1
    /\ r[Len(r)] = k
    /\ \A i \in 1..Len(r)-1 : r[i] = IF i < p THEN q[i] ELSE q[i+1]

LEMMA MovesToEnd ==
    ASSUME NEW S, NEW q \in Seq(S), IsInjective(q), NEW k \in S
    PROVE  \E p : Moved(S, q, k, p, Append(RemoveFirst(q, k), k))
<1>. DEFINE rest == RemoveFirst(q, k)
            r == Append(rest, k)
<1>0. Len(q) \in Nat /\ DOMAIN q = 1..Len(q) /\ \A i \in DOMAIN q : q[i] \in S
  OBVIOUS
<1>1. CASE k \notin ToSet(q)
  <2>1. rest = q
    BY <1>1 DEF RemoveFirst, ToSet
  <2>2. /\ r \in Seq(S) /\ Len(r) = Len(q) + 1 /\ r[Len(q) + 1] = k
        /\ \A i \in 1..Len(q) : r[i] = q[i]
    BY <2>1, AppendProperties
  <2>. HIDE DEF rest, r
  <2>3. Moved(S, q, k, Len(q) + 1, r)
    BY <1>0, <1>1, <2>2 DEF Moved
  <2>. QED BY <2>3 DEF r, rest
<1>2. CASE k \in ToSet(q)
  <2>. DEFINE p == SelectInSeq(q, LAMBDA v : v = k)
              front == SubSeq(q, 1, p - 1)
              back == SubSeq(q, p + 1, Len(q))
  <2>1. p \in DOMAIN q /\ q[p] = k
    <3>. DEFINE I == {i \in 1..Len(q) : q[i] = k}
    <3>1. PICK j \in DOMAIN q : q[j] = k
      BY <1>2 DEF ToSet
    <3>2. I = {j} /\ j \in Nat
      BY <3>1 DEF IsInjective
    <3>3. Min(I) = j
      BY <3>2 DEF Min
    <3>4. p = j
      BY <3>2, <3>3 DEF SelectInSeq
    <3>. QED BY <3>1, <3>4
  <2>2. rest = front \o back
    BY <1>2, <1>0 DEF RemoveFirst, RemoveAt, ToSet
  <2>. HIDE DEF p
  <2>3. p \in Nat /\ 1 <= p /\ p <= Len(q)
    BY <1>0, <2>1
  <2>4. /\ front \in Seq(S) /\ Len(front) = p - 1
        /\ \A i \in 1..p-1 : front[i] = q[i]
    BY <1>0, <2>3, SubSeqProperties
  <2>5. /\ back \in Seq(S) /\ Len(back) = Len(q) - p
        /\ \A i \in 1..Len(q)-p : back[i] = q[p + i]
    <3>1. \A i \in p+1..Len(q) : q[i] \in S
      BY <1>0, <2>3
    <3>2. /\ back \in Seq(S)
          /\ Len(back) = IF p + 1 <= Len(q) THEN Len(q) - (p + 1) + 1 ELSE 0
          /\ \A i \in 1..Len(q)-(p+1)+1 : back[i] = q[(p + 1) + i - 1]
      BY <1>0, <2>3, <3>1, SubSeqProperties
    <3>. HIDE DEF back
    <3>3. Len(back) = Len(q) - p
      <4>1. Len(back) = IF p + 1 <= Len(q) THEN Len(q) - (p + 1) + 1 ELSE 0
        BY <3>2
      <4>2. Len(q) \in Nat
        BY <1>0
      <4>3. (IF p + 1 <= Len(q) THEN Len(q) - (p + 1) + 1 ELSE 0) = Len(q) - p
        <5>. DEFINE n == Len(q)
        <5>. HIDE DEF n
        <5>1. n \in Nat /\ p \in Nat /\ p <= n
          BY <2>3, <4>2 DEF n
        <5>2. (IF p + 1 <= n THEN n - (p + 1) + 1 ELSE 0) = n - p
          BY <5>1
        <5>. QED BY <5>2 DEF n
      <4>. QED BY <4>1, <4>3
    <3>4. ASSUME NEW i \in 1..Len(q)-p PROVE back[i] = q[p + i]
      <4>1. i \in 1..Len(q)-(p+1)+1 /\ (p + 1) + i - 1 = p + i
        BY <1>0, <2>3
      <4>. QED BY <3>2, <4>1
    <3>. QED BY <3>2, <3>3, <3>4
  <2>. HIDE DEF front, back
  <2>6. /\ front \o back \in Seq(S) /\ Len(front \o back) = Len(front) + Len(back)
        /\ \A i \in 1..Len(front)+Len(back) :
             (front \o back)[i] = IF i <= Len(front) THEN front[i] ELSE back[i - Len(front)]
    BY <2>4, <2>5, ConcatProperties
  <2>. HIDE DEF rest
  <2>7. rest \in Seq(S) /\ Len(rest) = Len(q) - 1
    BY <1>0, <2>2, <2>3, <2>4, <2>5, <2>6
  <2>8. ASSUME NEW i \in 1..Len(q)-1 PROVE rest[i] = IF i < p THEN q[i] ELSE q[i+1]
    <3>1. i \in 1..Len(front)+Len(back) /\ i \in Nat
      BY <1>0, <2>3, <2>4, <2>5
    <3>2. rest[i] = IF i <= Len(front) THEN front[i] ELSE back[i - Len(front)]
      BY <2>2, <2>6, <3>1
    <3>3. CASE i < p
      BY <2>3, <2>4, <3>1, <3>2, <3>3
    <3>4. CASE ~ (i < p)
      <4>1. ~ (i <= Len(front)) /\ i - Len(front) = i - p + 1 /\ i - p + 1 \in 1..Len(q)-p
            /\ p + (i - p + 1) = i + 1
        BY <1>0, <2>3, <2>4, <3>1, <3>4
      <4>. QED BY <2>5, <3>2, <3>4, <4>1
    <3>. QED BY <3>3, <3>4
  <2>9. /\ r \in Seq(S) /\ Len(r) = Len(q) /\ r[Len(q)] = k
        /\ \A i \in 1..Len(q)-1 : r[i] = rest[i]
    <3>1. Len(rest) + 1 = Len(q) /\ rest \in Seq(S)
      BY <1>0, <2>7
    <3>. HIDE DEF rest
    <3>2. /\ r \in Seq(S) /\ Len(r) = Len(rest) + 1 /\ r[Len(rest) + 1] = k
          /\ \A i \in 1..Len(rest) : r[i] = rest[i]
      BY <3>1, AppendProperties
    <3>3. Len(rest) = Len(q) - 1
      BY <2>7
    <3>. HIDE DEF r
    <3>. QED BY <3>1, <3>2, <3>3
  <2>. HIDE DEF r
  <2>10. Moved(S, q, k, p, r)
    BY <1>0, <2>1, <2>3, <2>8, <2>9 DEF Moved
  <2>. QED BY <2>10 DEF r, rest
<1>. QED BY <1>1, <1>2

\* Where each of the others comes from.
Places(q, r, p, o) ==
    /\ \A i \in 1..Len(r)-1 : o[i] \in DOMAIN q \ {p} /\ r[i] = q[o[i]]
    /\ \A i, j \in 1..Len(r)-1 : i < j <=> o[i] < o[j]
    /\ \A m \in DOMAIN q \ {p} : \E i \in 1..Len(r)-1 : o[i] = m

LEMMA MovedPlaces ==
    ASSUME NEW S, NEW q \in Seq(S), IsInjective(q), NEW k \in S, NEW p, NEW r, Moved(S, q, k, p, r)
    PROVE  \E o : Places(q, r, p, o)
<1>. DEFINE l == Len(q)
            n == Len(r)
            o == [i \in 1..n-1 |-> IF i < p THEN i ELSE i + 1]
<1>1. /\ p \in 1..l+1 /\ l \in Nat /\ DOMAIN q = 1..l
      /\ n = IF p <= l THEN l ELSE l + 1
      /\ \A i \in 1..n-1 : r[i] = IF i < p THEN q[i] ELSE q[i+1]
  BY DEF Moved
<1>. HIDE DEF l, n
<1>2. \A i \in 1..n-1 : o[i] = IF i < p THEN i ELSE i + 1
  OBVIOUS
<1>. HIDE DEF o
<1>3. ASSUME NEW i \in 1..n-1 PROVE o[i] \in DOMAIN q \ {p} /\ r[i] = q[o[i]]
  BY <1>1, <1>2
<1>4. ASSUME NEW i \in 1..n-1, NEW j \in 1..n-1 PROVE i < j <=> o[i] < o[j]
  <2>1. i \in Nat /\ j \in Nat /\ n \in Nat /\ p \in Nat
    BY <1>1
  <2>. QED BY <1>2, <2>1
<1>5. ASSUME NEW m \in DOMAIN q \ {p} PROVE \E i \in 1..n-1 : o[i] = m
  <2>1. CASE m < p
    <3>1. m \in 1..n-1
      BY <1>1, <2>1
    <3>. QED BY <1>2, <2>1, <3>1
  <2>2. CASE ~ (m < p)
    <3>1. m - 1 \in 1..n-1 /\ ~ (m - 1 < p) /\ (m - 1) + 1 = m
      BY <1>1, <2>2
    <3>. QED BY <1>2, <3>1
  <2>. QED BY <2>1, <2>2
<1>6. Places(q, r, p, o)
  BY <1>3, <1>4, <1>5 DEF n, Places
<1>. QED BY <1>6

\* A queue of tracked keys: the others checked since a tracked key was are those after it,
\* and since another key was, too many for it to be tracked.
QueueOK(q, others, hits) ==
    /\ q \in Seq(Clients) /\ IsInjective(q)
    /\ DOMAIN others = Clients
    /\ \A c \in Clients : IsFiniteSet(others[c])
    /\ \A i \in DOMAIN q : others[q[i]] = After(q, i)
    /\ \A c \in Clients \ ToSet(q) :
         /\ hits[c] = << >>
         /\ c \in others[c] \/ Cardinality(others[c]) >= MaxTrackedKeys

LEMMA QueueMoves ==
    ASSUME NEW q, NEW x, NEW h, QueueOK(q, x, h), NEW k \in Clients,
           NEW p, NEW r, Moved(Clients, q, k, p, r),
           NEW y, y = [j \in Clients |-> IF j = k THEN {} ELSE x[j] \union {k}],
           NEW g, \A c \in Clients \ {k} : g[c] = h[c]
    PROVE  QueueOK(r, y, g)
<1>. DEFINE n == Len(r)
<1>1. /\ q \in Seq(Clients) /\ IsInjective(q)
      /\ \A c \in Clients : IsFiniteSet(x[c])
      /\ \A i \in DOMAIN q : x[q[i]] = After(q, i)
      /\ \A c \in Clients \ ToSet(q) :
           h[c] = << >> /\ (c \in x[c] \/ Cardinality(x[c]) >= MaxTrackedKeys)
  BY DEF QueueOK
<1>2. /\ r \in Seq(Clients) /\ r[n] = k
      /\ p <= Len(q) => q[p] = k
      /\ p = Len(q) + 1 => k \notin ToSet(q)
      /\ p \in 1..Len(q)+1
      /\ n = IF p <= Len(q) THEN Len(q) ELSE Len(q) + 1
  BY DEF Moved
<1>3. PICK o :
        /\ \A i \in 1..n-1 : o[i] \in DOMAIN q \ {p} /\ r[i] = q[o[i]]
        /\ \A i, j \in 1..n-1 : i < j <=> o[i] < o[j]
        /\ \A m \in DOMAIN q \ {p} : \E i \in 1..n-1 : o[i] = m
  <2>1. PICK w : Places(q, r, p, w)
    BY <1>1, MovedPlaces
  <2>. QED BY <2>1 DEF Places
<1>4. n \in Nat /\ n >= 1 /\ DOMAIN r = 1..n /\ n \in DOMAIN r /\ Len(q) \in Nat
      /\ DOMAIN q = 1..Len(q)
  BY <1>1, <1>2
<1>. HIDE DEF n
<1>5. \A m \in DOMAIN q \ {p} : q[m] # k
  <2>1. CASE p <= Len(q)
    <3>1. p \in DOMAIN q /\ q[p] = k
      BY <1>2, <1>4, <2>1
    <3>2. \A a, b \in DOMAIN q : q[a] = q[b] => a = b
      BY <1>1 DEF IsInjective
    <3>. QED BY <3>1, <3>2
  <2>2. CASE ~ (p <= Len(q))
    <3>1. k \notin ToSet(q)
      BY <1>2, <1>4, <2>2
    <3>. QED BY <3>1 DEF ToSet
  <2>. QED BY <2>1, <2>2
<1>6. \A m \in DOMAIN q : m = p => q[m] = k
  BY <1>2, <1>4
<1>7. \A i \in DOMAIN r : i = n \/ i \in 1..n-1
  BY <1>4
<1>8. IsInjective(r)
  <2>. SUFFICES ASSUME NEW i \in DOMAIN r, NEW j \in DOMAIN r, r[i] = r[j] PROVE i = j
    BY DEF IsInjective
  <2>1. CASE i \in 1..n-1 /\ j \in 1..n-1
    <3>1. o[i] = o[j]
      BY <1>1, <1>3, <2>1 DEF IsInjective
    <3>2. ~ (i < j) /\ ~ (j < i)
      BY <1>3, <1>4, <2>1, <3>1
    <3>. QED BY <1>4, <3>2
  <2>2. CASE i = n \/ j = n
    <3>1. \A m \in 1..n-1 : r[m] # k
      BY <1>3, <1>5
    <3>2. i \notin 1..n-1 /\ j \notin 1..n-1
      BY <1>2, <2>2, <3>1
    <3>. QED BY <1>7, <3>2
  <2>. QED BY <1>7, <2>1, <2>2
<1>9. ASSUME NEW i \in DOMAIN r PROVE y[r[i]] = After(r, i)
  <2>0. r[i] \in Clients
    BY <1>2
  <2>1. CASE i = n
    <3>1. i+1..n = {}
      BY <1>4, <2>1
    <3>. QED BY <1>2, <2>0, <2>1, <3>1 DEF After, n
  <2>2. CASE i \in 1..n-1
    <3>1. y[r[i]] = After(q, o[i]) \union {k}
      BY <1>1, <1>3, <1>5, <2>0, <2>2
    <3>2. ASSUME NEW t \in After(q, o[i]) PROVE t \in After(r, i)
      <4>1. PICK m \in o[i]+1..Len(q) : t = q[m]
        BY <3>2 DEF After
      <4>2. m \in DOMAIN q /\ o[i] < m /\ m \in Nat
        BY <1>3, <1>4, <2>2, <4>1
      <4>3. CASE m = p
        <5>1. t = r[n] /\ n \in i+1..n
          BY <1>2, <1>4, <1>6, <2>2, <4>1, <4>2, <4>3
        <5>. QED BY <5>1 DEF After, n
      <4>4. CASE m # p
        <5>1. PICK j \in 1..n-1 : o[j] = m
          BY <1>3, <4>2, <4>4
        <5>2. i < j
          BY <1>3, <2>2, <4>2, <5>1
        <5>3. j \in i+1..n /\ t = r[j]
          BY <1>3, <1>4, <2>2, <4>1, <5>1, <5>2
        <5>. QED BY <5>3 DEF After, n
      <4>. QED BY <4>3, <4>4
    <3>3. k \in After(r, i)
      <4>1. n \in i+1..n
        BY <1>4, <2>2
      <4>. QED BY <1>2, <4>1 DEF After, n
    <3>4. ASSUME NEW t \in After(r, i), t # k PROVE t \in After(q, o[i])
      <4>1. PICK j \in i+1..n : t = r[j]
        BY <3>4 DEF After, n
      <4>2. j \in 1..n-1 /\ i < j
        <5>1. j # n
          BY <1>2, <3>4, <4>1
        <5>. QED BY <1>4, <2>2, <4>1, <5>1
      <4>3. o[i] < o[j] /\ o[j] \in DOMAIN q /\ o[i] \in DOMAIN q /\ t = q[o[j]]
        BY <1>3, <2>2, <4>1, <4>2
      <4>4. o[j] \in o[i]+1..Len(q)
        BY <1>4, <4>3
      <4>. QED BY <4>3, <4>4 DEF After
    <3>. QED BY <3>1, <3>2, <3>3, <3>4
  <2>. QED BY <1>7, <2>1, <2>2
<1>10. ASSUME NEW c \in Clients PROVE IsFiniteSet(y[c])
  BY <1>1, FS_EmptySet, FS_AddElement
<1>11. ASSUME NEW c \in Clients \ ToSet(r)
       PROVE  g[c] = << >> /\ (c \in y[c] \/ Cardinality(y[c]) >= MaxTrackedKeys)
  <2>1. c # k
    BY <1>2, <1>4 DEF ToSet
  <2>2. c \notin ToSet(q)
    <3>. SUFFICES ASSUME NEW m \in DOMAIN q, q[m] = c PROVE FALSE
      BY DEF ToSet
    <3>1. PICK i \in 1..n-1 : o[i] = m
      BY <1>3, <1>6, <2>1
    <3>2. r[i] = c /\ i \in DOMAIN r
      BY <1>3, <1>4, <3>1
    <3>. QED BY <3>2 DEF ToSet
  <2>3. /\ g[c] = << >> /\ y[c] = x[c] \union {k}
        /\ c \in x[c] \/ Cardinality(x[c]) >= MaxTrackedKeys
    BY <1>1, <2>1, <2>2
  <2>4. Cardinality(x[c]) \in Nat /\ MaxTrackedKeys \in Nat
    BY <1>1, FS_CardinalityType, LimitersAssumption DEF Issuing!LimiterAssumption
  <2>5. Cardinality(x[c] \union {k}) >= Cardinality(x[c])
    <3>1. IsFiniteSet(x[c])
      BY <1>1
    <3>2. Cardinality(x[c] \union {k})
            = IF k \in x[c] THEN Cardinality(x[c]) ELSE Cardinality(x[c]) + 1
      BY <3>1, FS_AddElement, Zenon
    <3>. QED BY <2>4, <3>2
  <2>6. Cardinality(x[c] \union {k}) \in Nat
    BY <1>1, FS_CardinalityType, FS_AddElement
  <2>. QED BY <2>3, <2>4, <2>5, <2>6
<1>. QED BY <1>2, <1>8, <1>9, <1>10, <1>11 DEF QueueOK

\* The least recently checked key is evicted once there is one too many.
LEMMA QueueEvicts ==
    ASSUME NEW q, NEW x, NEW h, QueueOK(q, x, h), Len(q) = MaxTrackedKeys + 1,
           NEW g, g[Head(q)] = << >>, \A c \in Clients \ {Head(q)} : g[c] = h[c]
    PROVE  QueueOK(Tail(q), x, g)
<1>. DEFINE r == Tail(q)
<1>1. q \in Seq(Clients) /\ IsInjective(q) /\ MaxTrackedKeys \in Nat
  BY LimitersAssumption DEF QueueOK, Issuing!LimiterAssumption
<1>2. q # << >> /\ 1 \in DOMAIN q /\ Head(q) = q[1]
  BY <1>1
<1>3. /\ r \in Seq(Clients) /\ Len(r) = MaxTrackedKeys
      /\ \A i \in 1..MaxTrackedKeys : r[i] = q[i+1]
  BY <1>1, <1>2, HeadTailProperties
<1>. HIDE DEF r
<1>4. DOMAIN r = 1..MaxTrackedKeys /\ DOMAIN q = 1..MaxTrackedKeys+1
  BY <1>1, <1>3
<1>5. IsInjective(r)
  <2>. SUFFICES ASSUME NEW i \in DOMAIN r, NEW j \in DOMAIN r, r[i] = r[j] PROVE i = j
    BY DEF IsInjective
  <2>1. i + 1 = j + 1
    <3>1. i + 1 \in DOMAIN q /\ j + 1 \in DOMAIN q /\ q[i+1] = q[j+1]
      BY <1>3, <1>4
    <3>. QED BY <1>1, <3>1 DEF IsInjective
  <2>. QED BY <1>4, <2>1
<1>6. ASSUME NEW i \in DOMAIN r PROVE x[r[i]] = After(r, i)
  <2>1. i + 1 \in DOMAIN q /\ r[i] = q[i+1] /\ i \in Nat
    BY <1>3, <1>4
  <2>2. x[r[i]] = After(q, i + 1)
    BY <2>1 DEF QueueOK
  <2>3. ASSUME NEW t \in After(q, i + 1) PROVE t \in After(r, i)
    <3>1. PICK j \in (i+1)+1..MaxTrackedKeys+1 : t = q[j]
      BY <2>3 DEF After
    <3>2. j - 1 \in i+1..MaxTrackedKeys /\ j - 1 \in 1..MaxTrackedKeys /\ (j - 1) + 1 = j
      BY <1>1, <2>1, <3>1
    <3>3. t = r[j - 1]
      BY <1>3, <3>1, <3>2
    <3>. QED BY <1>3, <3>2, <3>3 DEF After
  <2>4. ASSUME NEW t \in After(r, i) PROVE t \in After(q, i + 1)
    <3>1. PICK j \in i+1..MaxTrackedKeys : t = r[j]
      BY <1>3, <2>4 DEF After
    <3>2. j + 1 \in (i+1)+1..MaxTrackedKeys+1 /\ j \in 1..MaxTrackedKeys
      BY <1>1, <2>1, <3>1
    <3>3. t = q[j + 1]
      BY <1>3, <3>1, <3>2
    <3>. QED BY <3>2, <3>3 DEF After
  <2>. QED BY <2>2, <2>3, <2>4
<1>7. ASSUME NEW c \in Clients \ ToSet(r)
      PROVE  g[c] = << >> /\ (c \in x[c] \/ Cardinality(x[c]) >= MaxTrackedKeys)
  <2>1. CASE c = q[1]
    <3>1. x[c] = After(q, 1)
      BY <1>2, <2>1 DEF QueueOK
    <3>2. Cardinality(After(q, 1)) = (MaxTrackedKeys + 1) - 1
      BY <1>1, <1>2, HowManyAfter
    <3>3. Cardinality(x[c]) = MaxTrackedKeys
      BY <1>1, <3>1, <3>2
    <3>. QED BY <1>1, <1>2, <2>1, <3>3
  <2>2. CASE c # q[1]
    <3>1. c \notin ToSet(q)
      <4>. SUFFICES ASSUME NEW i \in DOMAIN q, q[i] = c PROVE FALSE
        BY DEF ToSet
      <4>1. i - 1 \in 1..MaxTrackedKeys /\ (i - 1) + 1 = i
        BY <1>1, <1>4, <2>2
      <4>2. r[i - 1] = c /\ i - 1 \in DOMAIN r
        BY <1>3, <1>4, <4>1
      <4>. QED BY <4>2 DEF ToSet
    <3>. QED BY <1>2, <2>2, <3>1 DEF QueueOK
  <2>. QED BY <2>1, <2>2
<1>. QED BY <1>3, <1>5, <1>6, <1>7 DEF QueueOK, r


LEMMA QueueFresh ==
    ASSUME NEW x, x = [c \in Clients |-> {c}], NEW h, \A c \in Clients : h[c] = << >>
    PROVE  QueueOK(<< >>, x, h)
<1>1. << >> \in Seq(Clients) /\ DOMAIN << >> = {}
  OBVIOUS
<1>2. \A c \in Clients : IsFiniteSet({c})
  BY FS_Singleton
<1>. QED BY <1>1, <1>2 DEF QueueOK, IsInjective

\* A call for k.
ToEnd(q, k) == Append(RemoveFirst(q, k), k)
Since(x, k) == [j \in Clients |-> IF j = k THEN {} ELSE x[j] \union {k}]

LEMMA QueueAccepts ==
    ASSUME NEW q, NEW x, NEW h, QueueOK(q, x, h), Len(q) <= MaxTrackedKeys,
           NEW k \in Clients, NEW r, r = ToEnd(q, k), NEW y, y = Since(x, k), NEW g,
           \A c \in Clients :
               /\ Len(r) > MaxTrackedKeys /\ c = Head(r) => g[c] = << >>
               /\ ~ (Len(r) > MaxTrackedKeys /\ c = Head(r)) /\ c # k => g[c] = h[c]
    PROVE  /\ Len(r) > MaxTrackedKeys =>
                QueueOK(Tail(r), y, g) /\ Len(Tail(r)) <= MaxTrackedKeys
           /\ ~ (Len(r) > MaxTrackedKeys) => QueueOK(r, y, g) /\ Len(r) <= MaxTrackedKeys
<1>. DEFINE f == [c \in Clients |-> IF c = k THEN g[c] ELSE h[c]]
<1>1. q \in Seq(Clients) /\ IsInjective(q) /\ MaxTrackedKeys \in Nat
  BY LimitersAssumption DEF QueueOK, Issuing!LimiterAssumption
<1>2. PICK p : Moved(Clients, q, k, p, r)
  BY <1>1, MovesToEnd DEF ToEnd
<1>3. /\ r \in Seq(Clients) /\ Len(r) \in Nat /\ Len(r) <= Len(q) + 1 /\ Len(r) >= 1
      /\ Len(q) \in Nat
  <2>1. /\ r \in Seq(Clients) /\ p \in 1..Len(q)+1
        /\ Len(r) = IF p <= Len(q) THEN Len(q) ELSE Len(q) + 1
    BY <1>2 DEF Moved
  <2>2. Len(r) \in Nat /\ Len(q) \in Nat
    BY <1>1, <2>1
  <2>. QED BY <2>1, <2>2
<1>4. QueueOK(r, y, f)
  <2>1. \A c \in Clients \ {k} : f[c] = h[c]
    OBVIOUS
  <2>. HIDE DEF f
  <2>. QED BY <1>2, <2>1, QueueMoves DEF Since
<1>5. ASSUME Len(r) > MaxTrackedKeys
      PROVE  QueueOK(Tail(r), y, g) /\ Len(Tail(r)) <= MaxTrackedKeys
  <2>1. Len(r) = MaxTrackedKeys + 1
    BY <1>1, <1>3, <1>5
  <2>2. Head(r) \in Clients /\ r # << >>
    BY <1>3
  <2>3. g[Head(r)] = << >> /\ \A c \in Clients \ {Head(r)} : g[c] = f[c]
    BY <1>5, <2>2
  <2>. HIDE DEF f
  <2>4. QueueOK(Tail(r), y, g)
    BY <1>4, <2>1, <2>3, QueueEvicts
  <2>5. Len(Tail(r)) = Len(r) - 1
    BY <1>3, <2>2, HeadTailProperties
  <2>. QED BY <1>1, <2>1, <2>4, <2>5
<1>6. ASSUME ~ (Len(r) > MaxTrackedKeys)
      PROVE  QueueOK(r, y, g) /\ Len(r) <= MaxTrackedKeys
  <2>1. \A c \in Clients \ {k} : g[c] = h[c]
    BY <1>6
  <2>2. QueueOK(r, y, g)
    BY <1>2, <2>1, QueueMoves DEF Since
  <2>. QED BY <1>1, <1>3, <1>6, <2>2
<1>. QED BY <1>5, <1>6

\* A key with no tokens is tracked.
LEMMA QueueRefuses ==
    ASSUME NEW q, NEW x, NEW h, QueueOK(q, x, h), Len(q) <= MaxTrackedKeys,
           NEW k \in Clients, h[k] # << >>, NEW r, r = ToEnd(q, k), NEW y, y = Since(x, k)
    PROVE  QueueOK(r, y, h) /\ Len(r) <= MaxTrackedKeys
<1>1. q \in Seq(Clients) /\ IsInjective(q) /\ k \in ToSet(q) /\ Len(q) \in Nat
  BY DEF QueueOK
<1>2. PICK p : Moved(Clients, q, k, p, r)
  BY <1>1, MovesToEnd DEF ToEnd
<1>3. Len(r) = Len(q)
  <2>1. /\ p \in 1..Len(q)+1 /\ p # Len(q) + 1
        /\ Len(r) = IF p <= Len(q) THEN Len(q) ELSE Len(q) + 1
    BY <1>1, <1>2 DEF Moved
  <2>. QED BY <1>1, <2>1
<1>4. QueueOK(r, y, h)
  BY <1>2, QueueMoves DEF Since
<1>. QED BY <1>3, <1>4

\* What the queue says of who is tracked.
LEMMA QueueIsRecent ==
    ASSUME NEW q, NEW x, NEW h, QueueOK(q, x, h), Len(q) <= MaxTrackedKeys, NEW k \in Clients
    PROVE  (\E i \in DOMAIN q : q[i] = k) <=> k \notin x[k] /\ Cardinality(x[k]) < MaxTrackedKeys
<1>1. /\ q \in Seq(Clients) /\ IsInjective(q) /\ MaxTrackedKeys \in Nat
      /\ IsFiniteSet(x[k]) /\ Len(q) \in Nat
  BY LimitersAssumption DEF QueueOK, Issuing!LimiterAssumption
<1>2. ASSUME NEW i \in DOMAIN q, q[i] = k
      PROVE  k \notin x[k] /\ Cardinality(x[k]) < MaxTrackedKeys
  <2>1. x[k] = After(q, i)
    BY <1>2 DEF QueueOK
  <2>2. q[i] \notin After(q, i) /\ Cardinality(After(q, i)) = Len(q) - i
    BY <1>1, HowManyAfter
  <2>3. i \in Nat /\ i >= 1
    BY <1>1
  <2>. QED BY <1>1, <1>2, <2>1, <2>2, <2>3
<1>3. ASSUME \A i \in DOMAIN q : q[i] # k, k \notin x[k], Cardinality(x[k]) < MaxTrackedKeys
      PROVE  FALSE
  <2>1. k \notin ToSet(q)
    BY <1>3 DEF ToSet
  <2>2. Cardinality(x[k]) >= MaxTrackedKeys
    BY <1>3, <2>1 DEF QueueOK
  <2>3. Cardinality(x[k]) \in Nat
    BY <1>1, FS_CardinalityType
  <2>. QED BY <1>1, <1>3, <2>2, <2>3
<1>. QED BY <1>2, <1>3

\* Both tables, their queues within bounds.
QueuedOK(table) ==
    /\ QueueOK(table.order, table.others, table.hits)
    /\ Len(table.order) <= MaxTrackedKeys

Tracked == Metered /\ QueuedOK(issueTable) /\ QueuedOK(verifyTable)

LEMMA Refusable ==
    ASSUME NEW m \in Nat \ {0}, NEW b, NEW h, NEW t \in Nat, BucketOK(m, b, h, t),
           ~ (Filled(m, b, t) >= Period)
    PROVE  h # << >>
<1>1. m * Period >= Period
  BY Capacity
<1>2. Filled(m, b, t) # m * Period
  BY <1>1
<1>3. \E i \in DOMAIN h : Filled(m, b, t) = Left(m, h, i, t)
  BY <1>2 DEF BucketOK
<1>. QED BY <1>3

LEMMA IssuingQueue ==
    ASSUME Metered, QueuedOK(issueTable), NEW c \in Clients, Issuing!Check(c)
    PROVE  QueuedOK(issueTable')
<1>. DEFINE queue == Issuing!MovedToEnd(issueTable.order, c)
<1>1. queue = ToEnd(issueTable.order, c)
  BY DEF ToEnd, Issuing!MovedToEnd, Issuing!RemoveFirst, Issuing!RemoveAt, Issuing!SelectInSeq,
         Issuing!Min, RemoveFirst, RemoveAt, SelectInSeq, Min
<1>2. /\ QueueOK(issueTable.order, issueTable.others, issueTable.hits)
      /\ Len(issueTable.order) <= MaxTrackedKeys
  BY DEF QueuedOK
<1>3. Issuing!OthersAfter(c) = Since(issueTable.others, c)
  BY DEF Since, Issuing!OthersAfter
<1>4. CASE Issuing!Accept(c)
  <2>. DEFINE evict == Len(queue) > MaxTrackedKeys
              hits == [j \in Clients |->
                         IF j \in {d \in Clients : evict /\ d = Head(queue)} THEN << >>
                         ELSE IF j = c THEN Append(issueTable.hits[j], now)
                         ELSE issueTable.hits[j]]
  <2>1. /\ issueTable'.order = IF evict THEN Tail(queue) ELSE queue
        /\ issueTable'.hits = hits
        /\ issueTable'.others = Issuing!OthersAfter(c)
    BY <1>4 DEF Issuing!Accept, Issuing!Overflows
  <2>2. \A j \in Clients :
          /\ Len(queue) > MaxTrackedKeys /\ j = Head(queue) => issueTable'.hits[j] = << >>
          /\ ~ (Len(queue) > MaxTrackedKeys /\ j = Head(queue)) /\ j # c
               => issueTable'.hits[j] = issueTable.hits[j]
    BY <2>1
  <2>3. issueTable'.others = Since(issueTable.others, c)
    BY <1>3, <2>1
  <2>. HIDE DEF hits, queue
  <2>4. /\ Len(queue) > MaxTrackedKeys =>
             /\ QueueOK(Tail(queue), issueTable'.others, issueTable'.hits)
             /\ Len(Tail(queue)) <= MaxTrackedKeys
        /\ ~ (Len(queue) > MaxTrackedKeys) =>
             QueueOK(queue, issueTable'.others, issueTable'.hits) /\ Len(queue) <= MaxTrackedKeys
    BY <1>1, <1>2, <2>2, <2>3, QueueAccepts
  <2>. QED BY <2>1, <2>4 DEF QueuedOK
<1>5. CASE Issuing!Refuse(c)
  <2>1. TableOK(IssueCalls, issueTable, now) /\ now \in Nat /\ IssueCalls \in Nat \ {0}
    BY Limits DEF Metered
  <2>2. ~ (Filled(IssueCalls, issueTable.buckets[c], now) >= Period)
    BY <1>5 DEF Issuing!Refuse, Issuing!Allowed, Issuing!Refilled, Issuing!Full, Filled
  <2>3. issueTable.hits[c] # << >>
    BY <2>1, <2>2, Refusable DEF TableOK
  <2>4. /\ issueTable'.order = queue /\ issueTable'.hits = issueTable.hits
        /\ issueTable'.others = Issuing!OthersAfter(c)
    BY <1>5, <2>1 DEF Issuing!Refuse, TableOK
  <2>. HIDE DEF queue
  <2>5. QueueOK(queue, issueTable'.others, issueTable.hits) /\ Len(queue) <= MaxTrackedKeys
    <3>1. issueTable'.others = Since(issueTable.others, c)
      BY <1>3, <2>4
    <3>. QED BY <1>1, <1>2, <2>3, <3>1, QueueRefuses
  <2>. QED BY <2>4, <2>5 DEF QueuedOK
<1>. QED BY <1>4, <1>5 DEF Issuing!Check

LEMMA VerifyingQueue ==
    ASSUME Metered, QueuedOK(verifyTable), NEW c \in Clients, Verifying!Check(c)
    PROVE  QueuedOK(verifyTable')
<1>. DEFINE queue == Verifying!MovedToEnd(verifyTable.order, c)
<1>1. queue = ToEnd(verifyTable.order, c)
  BY DEF ToEnd, Verifying!MovedToEnd, Verifying!RemoveFirst, Verifying!RemoveAt,
         Verifying!SelectInSeq, Verifying!Min, RemoveFirst, RemoveAt, SelectInSeq, Min
<1>2. /\ QueueOK(verifyTable.order, verifyTable.others, verifyTable.hits)
      /\ Len(verifyTable.order) <= MaxTrackedKeys
  BY DEF QueuedOK
<1>3. Verifying!OthersAfter(c) = Since(verifyTable.others, c)
  BY DEF Since, Verifying!OthersAfter
<1>4. CASE Verifying!Accept(c)
  <2>. DEFINE evict == Len(queue) > MaxTrackedKeys
              hits == [j \in Clients |->
                         IF j \in {d \in Clients : evict /\ d = Head(queue)} THEN << >>
                         ELSE IF j = c THEN Append(verifyTable.hits[j], now)
                         ELSE verifyTable.hits[j]]
  <2>1. /\ verifyTable'.order = IF evict THEN Tail(queue) ELSE queue
        /\ verifyTable'.hits = hits
        /\ verifyTable'.others = Verifying!OthersAfter(c)
    BY <1>4 DEF Verifying!Accept, Verifying!Overflows
  <2>2. \A j \in Clients :
          /\ Len(queue) > MaxTrackedKeys /\ j = Head(queue) => verifyTable'.hits[j] = << >>
          /\ ~ (Len(queue) > MaxTrackedKeys /\ j = Head(queue)) /\ j # c
               => verifyTable'.hits[j] = verifyTable.hits[j]
    BY <2>1
  <2>3. verifyTable'.others = Since(verifyTable.others, c)
    BY <1>3, <2>1
  <2>. HIDE DEF hits, queue
  <2>4. /\ Len(queue) > MaxTrackedKeys =>
             /\ QueueOK(Tail(queue), verifyTable'.others, verifyTable'.hits)
             /\ Len(Tail(queue)) <= MaxTrackedKeys
        /\ ~ (Len(queue) > MaxTrackedKeys) =>
             QueueOK(queue, verifyTable'.others, verifyTable'.hits) /\ Len(queue) <= MaxTrackedKeys
    BY <1>1, <1>2, <2>2, <2>3, QueueAccepts
  <2>. QED BY <2>1, <2>4 DEF QueuedOK
<1>5. CASE Verifying!Refuse(c)
  <2>1. TableOK(VerifyCalls, verifyTable, now) /\ now \in Nat /\ VerifyCalls \in Nat \ {0}
    BY Limits DEF Metered
  <2>2. ~ (Filled(VerifyCalls, verifyTable.buckets[c], now) >= Period)
    BY <1>5 DEF Verifying!Refuse, Verifying!Allowed, Verifying!Refilled, Verifying!Full, Filled
  <2>3. verifyTable.hits[c] # << >>
    BY <2>1, <2>2, Refusable DEF TableOK
  <2>4. /\ verifyTable'.order = queue /\ verifyTable'.hits = verifyTable.hits
        /\ verifyTable'.others = Verifying!OthersAfter(c)
    BY <1>5, <2>1 DEF Verifying!Refuse, TableOK
  <2>. HIDE DEF queue
  <2>5. QueueOK(queue, verifyTable'.others, verifyTable.hits) /\ Len(queue) <= MaxTrackedKeys
    <3>1. verifyTable'.others = Since(verifyTable.others, c)
      BY <1>3, <2>4
    <3>. QED BY <1>1, <1>2, <2>3, <3>1, QueueRefuses
  <2>. QED BY <2>4, <2>5 DEF QueuedOK
<1>. QED BY <1>4, <1>5 DEF Verifying!Check

LEMMA QueuesFresh == QueuedOK(Issuing!EmptyTable) /\ QueuedOK(Verifying!EmptyTable)
<1>1. Len(<< >>) <= MaxTrackedKeys
  BY LimitersAssumption DEF Issuing!LimiterAssumption
<1>2. QueueOK(<< >>, [c \in Clients |-> {c}], [c \in Clients |-> << >>])
  BY QueueFresh
<1>. QED BY <1>1, <1>2 DEF QueuedOK, Issuing!EmptyTable, Verifying!EmptyTable

LEMMA TrackedNext == Tracked /\ [Next]_vars => Tracked'
<1>. SUFFICES ASSUME Tracked, [Next]_vars PROVE Tracked'
  OBVIOUS
<1>1. Metered /\ QueuedOK(issueTable) /\ QueuedOK(verifyTable) /\ Metered'
  BY MeteredNext DEF Tracked
<1>2. CASE UNCHANGED <<issueTable, verifyTable>>
  BY <1>1, <1>2 DEF Tracked, QueuedOK
<1>3. ASSUME NEW c \in Clients, NEW kind \in Kinds, GetChallenge(c, kind) PROVE Tracked'
  <2>1. Issuing!Check(c) /\ UNCHANGED verifyTable
    BY <1>3 DEF GetChallenge, Issuing!Check
  <2>2. QueuedOK(issueTable')
    BY <1>1, <2>1, IssuingQueue
  <2>. QED BY <1>1, <2>1, <2>2 DEF Tracked, QueuedOK
<1>4. ASSUME NEW c \in Clients, Issue(c) \/ IssueRaises(c) PROVE Tracked'
  BY <1>2, <1>4 DEF Issue, IssueRaises
<1>5. ASSUME NEW c \in Clients, NEW kind \in Kinds, NEW right \in BOOLEAN,
             PostVerify(c, kind, right)
      PROVE  Tracked'
  <2>1. Verifying!Check(c) /\ UNCHANGED issueTable
    BY <1>5 DEF PostVerify, Verifying!Check
  <2>2. QueuedOK(verifyTable')
    BY <1>1, <2>1, VerifyingQueue
  <2>. QED BY <1>1, <2>1, <2>2 DEF Tracked, QueuedOK
<1>6. CASE Redeploy
  <2>1. issueTable' = Issuing!EmptyTable /\ verifyTable' = Verifying!EmptyTable
    BY <1>6 DEF Redeploy
  <2>. QED BY <1>1, <2>1, QueuesFresh DEF Tracked, QueuedOK
<1>7. CASE Tick
  BY <1>2, <1>7 DEF Tick
<1>8. CASE UNCHANGED vars
  BY <1>2, <1>8 DEF vars
<1>. QED BY <1>3, <1>4, <1>5, <1>6, <1>7, <1>8 DEF Next

LEMMA TrackedInit == Init => Tracked
<1>. SUFFICES ASSUME Init PROVE Tracked
  OBVIOUS
<1>1. issueTable = Issuing!EmptyTable /\ verifyTable = Verifying!EmptyTable
  BY DEF Init
<1>. QED BY <1>1, MeteredInit, QueuesFresh DEF Tracked

LEMMA TrackedIsRecent == Tracked => TablesForgetTheIdle
<1>. SUFFICES ASSUME Tracked PROVE TablesForgetTheIdle
  OBVIOUS
<1>1. Issuing!TrackedAreRecent
  <2>1. /\ QueueOK(issueTable.order, issueTable.others, issueTable.hits)
        /\ Len(issueTable.order) <= MaxTrackedKeys
    BY DEF Tracked, QueuedOK
  <2>2. \A k \in Clients :
          (\E i \in DOMAIN issueTable.order : issueTable.order[i] = k) <=>
            k \notin issueTable.others[k] /\ Cardinality(issueTable.others[k]) < MaxTrackedKeys
    BY <2>1, QueueIsRecent, Zenon
  <2>. QED BY <2>2 DEF Issuing!TrackedAreRecent, Issuing!Cardinality, Cardinality
<1>2. Verifying!TrackedAreRecent
  <2>1. /\ QueueOK(verifyTable.order, verifyTable.others, verifyTable.hits)
        /\ Len(verifyTable.order) <= MaxTrackedKeys
    BY DEF Tracked, QueuedOK
  <2>2. \A k \in Clients :
          (\E i \in DOMAIN verifyTable.order : verifyTable.order[i] = k) <=>
            k \notin verifyTable.others[k] /\ Cardinality(verifyTable.others[k]) < MaxTrackedKeys
    BY <2>1, QueueIsRecent, Zenon
  <2>. QED BY <2>2 DEF Verifying!TrackedAreRecent, Verifying!Cardinality, Cardinality
<1>. QED BY <1>1, <1>2 DEF TablesForgetTheIdle

\* ratelimit.py's "LRU-evicted" and "bounded by max_tracked_keys": however many addresses
\* call, a table holds the max_tracked_keys that were checked last, and an address starts
\* afresh only after that many others.
THEOREM TablesStayRecent == Spec => []TablesForgetTheIdle
<1>. QED BY TrackedInit, TrackedNext, TrackedIsRecent, PTL DEF Spec

-----------------------------------------------------------------------------
(* Challenges and their answers *)

\* What a step does to the browsers.
Shape(f) ==
    DOMAIN f = Clients /\ \A c \in Clients : DOMAIN f[c] = {"next", "asked", "got", "outcome"}

LEMMA Concluded ==
    ASSUME Requested, NEW c \in Clients, NEW outcome, Conclude(c, outcome)
    PROVE  /\ Shape(client')
           /\ client'[c].outcome = outcome
           /\ \A d \in Clients :
                /\ client'[d].got = client[d].got
                /\ client'[d].asked = client[d].asked
                /\ client'[d].next \in {client[d].next, 0}
<1>1. Shape(client)
  BY DEF Shape, Requested
<1>. QED BY <1>1 DEF Shape, Conclude

LEMMA ConcludedKeeps ==
    ASSUME Requested, NEW c \in Clients, NEW outcome, Conclude(c, outcome) PROVE Requested'
<1>1. \A d \in Clients : client'[d].next \in Nat
  BY Concluded DEF Requested
<1>2. \A d \in Clients :
        /\ client'[d].next # 0 => Registered(client'[d].asked)
        /\ client'[d].asked # Fallback => client'[d].next \in {0, 1}
  BY Concluded DEF Requested
<1>. QED BY <1>1, <1>2, Concluded DEF Requested, Registered, Shape

LEMMA ConcludedShows ==
    ASSUME Requested, Shown, Stored, NEW c \in Clients, NEW outcome, Conclude(c, outcome),
           ids' = ids,
           \A q \in pending' : \E p \in pending : q.id = p.id /\ q.by = p.by
    PROVE  Shown'
<1>. SUFFICES ASSUME NEW d \in Clients, client'[d].got # None PROVE Prefixed(client[d].got)'
  BY DEF Shown
<1>1. client'[d].got = client[d].got /\ Prefixed(client[d].got)
  BY Concluded DEF Shown
<1>. QED BY <1>1 DEF Prefixed, Registered

\* A record is deleted, or counts another attempt.
LEMMA Judged ==
    ASSUME Stored, NEW c, NEW p \in pending, NEW judge, NEW right, Verdict(c, p, judge, right),
           ids' = ids
    PROVE  /\ Stored'
           /\ \A q \in pending' : \E r \in pending : q.id = r.id /\ q.by = r.by
<1>. DEFINE tried == [p EXCEPT !.attempts = @ + 1]
<1>1. tried = [id |-> p.id, by |-> p.by, attempts |-> p.attempts + 1]
  BY DEF Stored
<1>2. pending' = pending \ {p} \/ pending' = (pending \ {p}) \union {tried}
  BY DEF Verdict
<1>. HIDE DEF tried
<1>3. \A q \in pending' : (q \in pending /\ q # p) \/ q = tried
  BY <1>2
<1>4. p.id \in Nat /\ p.id <= ids /\ p.attempts + 1 \in Nat
  BY DEF Stored
<1>5. \A q \in pending' :
        /\ q = [id |-> q.id, by |-> q.by, attempts |-> q.attempts]
        /\ q.id \in Nat /\ q.id <= ids
        /\ q.attempts \in Nat
  BY <1>1, <1>3, <1>4 DEF Stored
<1>6. \A q, r \in pending' : q.id = r.id => q = r
  BY <1>1, <1>3 DEF Stored
<1>7. \A q \in pending' : \E r \in pending : q.id = r.id /\ q.by = r.by
  BY <1>1, <1>3
<1>. QED BY <1>5, <1>6, <1>7 DEF Stored

LEMMA RoutingInit == Init => RoutingInv
  BY DEF Init, NewClient, RoutingInv, Stored, Requested, Shown

LEMMA RoutingGet ==
    ASSUME RoutingInv, NEW c \in Clients, NEW kind, GetChallenge(c, kind) PROVE RoutingInv'
<1>1. pending' = pending /\ ids' = ids /\ Stored /\ Requested /\ Shown
  BY DEF GetChallenge, RoutingInv
<1>2. Stored'
  BY <1>1 DEF Stored
<1>3. ASSUME NEW outcome, Conclude(c, outcome) PROVE RoutingInv'
  BY <1>1, <1>2, <1>3, ConcludedKeeps, ConcludedShows DEF RoutingInv
<1>4. CASE Registered(kind) /\ client' = [client EXCEPT ![c].next = 1, ![c].asked = kind]
  <2>1. Shape(client)
    BY <1>1 DEF Requested, Shape
  <2>2. Shape(client') /\ \A d \in Clients :
          /\ client'[d].got = client[d].got
          /\ d # c => client'[d].next = client[d].next /\ client'[d].asked = client[d].asked
    BY <1>4, <2>1 DEF Shape
  <2>3. client'[c].next = 1 /\ client'[c].asked = kind
    BY <1>4, <2>1 DEF Shape
  <2>4. Requested'
    BY <1>1, <1>4, <2>1, <2>2, <2>3 DEF Requested, Registered, Shape
  <2>5. Shown'
    BY <1>1, <2>2 DEF Shown, Prefixed, Registered
  <2>. QED BY <1>2, <2>4, <2>5 DEF RoutingInv
<1>. QED BY <1>3, <1>4 DEF GetChallenge

LEMMA RoutingRaises ==
    ASSUME RoutingInv, NEW c \in Clients, IssueRaises(c) PROVE RoutingInv'
<1>1. pending' = pending /\ ids' = ids /\ Stored /\ Requested /\ Shown
  BY DEF IssueRaises, RoutingInv
<1>2. Stored'
  BY <1>1 DEF Stored
<1>3. ASSUME NEW outcome, Conclude(c, outcome) PROVE RoutingInv'
  BY <1>1, <1>2, <1>3, ConcludedKeeps, ConcludedShows DEF RoutingInv
<1>4. CASE /\ client[c].next # 0
           /\ client[c].next < Len(ChildrenOf(client[c].asked))
           /\ client' = [client EXCEPT ![c].next = @ + 1]
  <2>1. client[c].asked = Fallback
    <3>. SUFFICES ASSUME client[c].asked # Fallback PROVE FALSE
      OBVIOUS
    <3>1. ChildrenOf(client[c].asked) = <<client[c].asked>> /\ client[c].next = 1
      BY <1>1, <1>4 DEF ChildrenOf, Requested
    <3>. QED BY <1>4, <3>1
  <2>2. Shape(client)
    BY <1>1 DEF Requested, Shape
  <2>3. Shape(client') /\ \A d \in Clients :
          /\ client'[d].got = client[d].got
          /\ client'[d].asked = client[d].asked
          /\ d # c => client'[d].next = client[d].next
    BY <1>4, <2>2 DEF Shape
  <2>4. client'[c].next = client[c].next + 1 /\ client[c].next \in Nat
    BY <1>1, <1>4, <2>2 DEF Requested, Shape
  <2>5. Requested'
    <3>. SUFFICES ASSUME NEW d \in Clients
                  PROVE  /\ client'[d].next \in Nat
                         /\ client'[d].next # 0 => Registered(client'[d].asked)
                         /\ client'[d].asked # Fallback => client'[d].next \in {0, 1}
      BY <2>3 DEF Requested, Registered, Shape
    <3>1. CASE d = c
      BY <2>1, <2>3, <2>4, <3>1 DEF Registered
    <3>2. CASE d # c
      BY <1>1, <2>3, <3>2 DEF Requested
    <3>. QED BY <3>1, <3>2
  <2>6. Shown'
    BY <1>1, <2>3 DEF Shown, Prefixed, Registered
  <2>. QED BY <1>2, <2>5, <2>6 DEF RoutingInv
<1>. QED BY <1>3, <1>4 DEF IssueRaises

LEMMA RoutingIssue ==
    ASSUME RoutingInv, NEW c \in Clients, Issue(c) PROVE RoutingInv'
<1>. DEFINE turn == client[c].next
            asked == client[c].asked
            kind == ChildrenOf(asked)[turn]
            issued == [id |-> ids + 1, by |-> kind, attempts |-> 0]
            got == [id |-> ids + 1, kind |-> kind, asked |-> asked,
                    index |-> IF asked = Fallback THEN turn ELSE 0]
<1>1. Stored /\ Requested /\ Shown /\ turn # 0 /\ turn \in Nat /\ Registered(asked)
  BY DEF RoutingInv, Issue, Requested
<1>2. pending' = pending \union {issued} /\ ids' = ids + 1 /\ ids \in Nat
  BY DEF RoutingInv, Stored, Issue
<1>3. client' = [client EXCEPT ![c].next = 0, ![c].outcome = "issued", ![c].got = got]
  BY DEF Issue
<1>4. asked # Fallback => kind = asked
  BY <1>1 DEF ChildrenOf, Requested
<1>5. issued.id = ids + 1 /\ issued.by = kind /\ issued.attempts = 0
      /\ issued = [id |-> issued.id, by |-> issued.by, attempts |-> issued.attempts]
  OBVIOUS
<1>6. /\ got.id = ids + 1 /\ got.kind = kind /\ got.asked = asked
      /\ got.index = IF asked = Fallback THEN turn ELSE 0
  OBVIOUS
<1>. HIDE DEF turn, asked, kind, issued, got
<1>7. Stored'
  <2>1. \A p \in pending : p.id \in Nat /\ p.id <= ids
    BY <1>1 DEF Stored
  <2>2. \A p \in pending' :
          /\ p = [id |-> p.id, by |-> p.by, attempts |-> p.attempts]
          /\ p.attempts \in Nat
    BY <1>1, <1>2, <1>5 DEF Stored
  <2>3. \A p \in pending' : p.id \in Nat /\ p.id <= ids'
    BY <1>2, <1>5, <2>1
  <2>4. \A p, q \in pending' : p.id = q.id => p = q
    <3>1. \A p \in pending : p.id # ids + 1
      BY <1>2, <2>1
    <3>. QED BY <1>1, <1>2, <1>5, <3>1 DEF Stored
  <2>5. ids' \in Nat
    BY <1>2
  <2>. QED BY <2>2, <2>3, <2>4, <2>5 DEF Stored
<1>8. /\ Shape(client')
      /\ client'[c].got = got /\ client'[c].next = 0 /\ client'[c].asked = client[c].asked
      /\ \A d \in Clients : d # c => client'[d] = client[d]
  <2>1. Shape(client)
    BY <1>1 DEF Requested, Shape
  <2>. QED BY <1>3, <2>1 DEF Shape
<1>9. Requested'
  BY <1>1, <1>8 DEF Requested, Registered, Shape
<1>10. Shown'
  <2>. SUFFICES ASSUME NEW d \in Clients, client'[d].got # None
                PROVE  Prefixed(client[d].got)'
    BY DEF Shown
  <2>1. CASE d = c
    <3>1. \A p \in pending : p.id # ids + 1
      BY <1>1, <1>2 DEF Stored
    <3>2. \A p \in pending' : p.id = got.id => p.by = got.kind
      BY <1>2, <1>5, <1>6, <3>1
    <3>3. got.id \in Nat /\ got.id <= ids'
      BY <1>2, <1>6
    <3>. QED BY <1>1, <1>4, <1>6, <1>8, <2>1, <3>2, <3>3 DEF Prefixed, Registered
  <2>2. CASE d # c
    <3>1. client'[d].got = client[d].got /\ Prefixed(client[d].got)
      BY <1>1, <1>8, <2>2 DEF Shown
    <3>2. client[d].got.id \in Nat /\ client[d].got.id <= ids'
          /\ client[d].got.id # ids + 1
      BY <1>2, <3>1 DEF Prefixed
    <3>. QED BY <1>2, <1>5, <3>1, <3>2 DEF Prefixed, Registered
  <2>. QED BY <2>1, <2>2
<1>. QED BY <1>7, <1>9, <1>10 DEF RoutingInv

LEMMA RoutingPost ==
    ASSUME RoutingInv, NEW c \in Clients, NEW kind, NEW right \in BOOLEAN,
           PostVerify(c, kind, right)
    PROVE  RoutingInv'
<1>1. ids' = ids /\ Stored /\ Requested /\ Shown
  BY DEF PostVerify, RoutingInv
<1>2. ASSUME NEW outcome, Conclude(c, outcome), UNCHANGED pending PROVE RoutingInv'
  BY <1>1, <1>2, ConcludedKeeps, ConcludedShows DEF RoutingInv, Stored
<1>3. ASSUME NEW judge, NEW p \in Found(judge, client[c].got), Verdict(c, p, judge, right)
      PROVE  RoutingInv'
  <2>1. p \in pending
    BY <1>3 DEF Found
  <2>2. PICK outcome : Conclude(c, outcome)
    BY <1>3 DEF Verdict
  <2>3. Stored' /\ \A q \in pending' : \E r \in pending : q.id = r.id /\ q.by = r.by
    BY <1>1, <1>3, <2>1, Judged
  <2>. QED BY <1>1, <2>2, <2>3, ConcludedKeeps, ConcludedShows DEF RoutingInv
<1>. QED BY <1>2, <1>3 DEF PostVerify, Answer

LEMMA RoutingNext == RoutingInv /\ [Next]_vars => RoutingInv'
<1>. SUFFICES ASSUME RoutingInv, [Next]_vars PROVE RoutingInv'
  OBVIOUS
<1>1. ASSUME NEW c \in Clients, NEW kind \in Kinds, GetChallenge(c, kind) PROVE RoutingInv'
  BY <1>1, RoutingGet
<1>2. ASSUME NEW c \in Clients, Issue(c) PROVE RoutingInv'
  BY <1>2, RoutingIssue
<1>3. ASSUME NEW c \in Clients, IssueRaises(c) PROVE RoutingInv'
  BY <1>3, RoutingRaises
<1>4. ASSUME NEW c \in Clients, NEW kind \in Kinds, NEW right \in BOOLEAN,
             PostVerify(c, kind, right)
      PROVE  RoutingInv'
  BY <1>4, RoutingPost
<1>5. CASE UNCHANGED <<pending, ids>> /\ Redeploy
  <2>1. Shape(client') /\ \A d \in Clients :
          /\ client'[d].next = 0
          /\ client'[d].asked = client[d].asked
          /\ client'[d].got = client[d].got
    <3>1. Shape(client)
      BY DEF RoutingInv, Requested, Shape
    <3>. QED BY <1>5, <3>1 DEF Redeploy, Shape
  <2>2. Requested'
    BY <2>1 DEF Requested, Shape
  <2>3. Shown'
    BY <1>5, <2>1 DEF RoutingInv, Shown, Prefixed, Registered
  <2>. QED BY <1>5, <2>2, <2>3 DEF RoutingInv, Stored
<1>6. CASE UNCHANGED <<pending, client, ids>>
  BY <1>6 DEF RoutingInv, Stored, Requested, Shown, Prefixed, Registered
<1>. QED
  BY <1>1, <1>2, <1>3, <1>4, <1>5, <1>6 DEF Next, Redeploy, Tick, vars

\* The judge is the child that issued, and it finds the record.
LEMMA RightCounts ==
    ASSUME RoutingInv, NEW c \in Clients, client[c].got # None, StillListed(c)
    PROVE  Counts(c, client[c].got.asked)
<1>. DEFINE got == client[c].got
<1>1. SUFFICES ASSUME PostVerify(c, got.asked, TRUE),
                      NEW p \in pending, p.id = got.id, p.attempts < MaxAttempts
               PROVE  client'[c].outcome \in {"verified", "throttled"}
  BY DEF Counts
<1>2. Requested /\ Stored /\ Prefixed(got)
  BY DEF RoutingInv, Shown
<1>3. CASE Conclude(c, "throttled")
  BY <1>2, <1>3, Concluded
<1>4. CASE Answer(c, got.asked, TRUE)
  <2>1. Registered(got.asked) /\ p.by = got.kind
    BY <1>1, <1>2 DEF Prefixed
  <2>2. Judge(got.asked, got) = {got.kind}
    <3>1. CASE got.asked = Fallback
      <4>1. got.index \in DOMAIN children /\ children[got.index] = got.kind
        BY <1>2, <3>1 DEF Prefixed, StillListed
      <4>2. {got.index} \intersect DOMAIN children = {got.index}
        BY <4>1
      <4>. HIDE DEF got
      <4>. QED BY <3>1, <4>1, <4>2 DEF Judge
    <3>2. CASE got.asked # Fallback
      BY <1>2, <3>2 DEF Prefixed, Judge
    <3>. QED BY <3>1, <3>2
  <2>3. p \in Found(got.kind, got)
    BY <1>1, <2>1 DEF Found
  <2>4. PICK q \in Found(got.kind, got) : Verdict(c, q, got.kind, TRUE)
    BY <1>4, <2>1, <2>2, <2>3 DEF Answer
  <2>5. q \in pending /\ q.id = p.id
    BY <1>1 DEF Found
  <2>6. q = p
    BY <1>2, <2>5 DEF Stored
  <2>7. ~ (p.attempts >= MaxAttempts)
    BY <1>1, <1>2, ApiAssumption DEF Stored
  <2>8. Conclude(c, "verified")
    BY <2>1, <2>4, <2>6, <2>7 DEF Verdict
  <2>. QED BY <1>2, <2>8, Concluded
<1>. QED BY <1>1, <1>3, <1>4 DEF PostVerify

\* providers/fallback.py: "verify() always routes back to the right one".  Whichever
\* children failed before it, whatever other pages asked for and guessed, and however often
\* the service was redeployed with that child in its place, a right answer to a challenge
\* with a guess left is accepted, if the limiter lets it through.
THEOREM AnswersAreRouted == Spec => RightAnswerCounts
<1>1. RoutingInv /\ [Next]_vars
        => [\A c \in Clients : client[c].got # None /\ StillListed(c) =>
                Counts(c, client[c].got.asked)]_vars
  BY RightCounts
<1>. QED BY <1>1, RoutingInit, RoutingNext, PTL DEF Spec, RightAnswerCounts

-----------------------------------------------------------------------------
(* Where the docstring needs no condition *)

\* Redeployments only add children at the end.
OnlyAppended ==
    \A i \in 1..(Len(Deployments) - 1) : \A j \in DOMAIN Deployments[i] :
        /\ j \in DOMAIN Deployments[i + 1]
        /\ Deployments[i + 1][j] = Deployments[i][j]

\* Whoever issued is, or is about to be, on the list.
Turning(c) == client[c].next # 0 /\ client[c].asked = Fallback

Listed ==
    /\ deploy \in 1..Len(Deployments)
    /\ \A c \in Clients :
        /\ client[c].got # None => StillListed(c)
        /\ Turning(c) => client[c].next \in DOMAIN children

LEMMA Children ==
    ASSUME deploy \in 1..Len(Deployments)
    PROVE  Len(children) \in Nat \ {0} /\ DOMAIN children = 1..Len(children)
<1>1. Deployments \in Seq(Range(Deployments)) /\ deploy \in DOMAIN Deployments
  BY ApiAssumption
<1>2. children \in Range(Deployments)
  BY <1>1 DEF Range, children
<1>3. children \in Seq(Range(children)) /\ children # << >>
  BY <1>2, ApiAssumption
<1>. QED BY <1>3

LEMMA ListedInit == Init => Listed
<1>. SUFFICES ASSUME Init PROVE Listed
  OBVIOUS
<1>1. Len(Deployments) \in Nat \ {0}
  BY ApiAssumption
<1>. QED BY <1>1 DEF Init, NewClient, Listed, StillListed, Turning

\* A request ends, and the browsers show what they showed.
LEMMA ListedConclude ==
    ASSUME Listed, Requested, UNCHANGED deploy,
           NEW c \in Clients, NEW outcome, Conclude(c, outcome)
    PROVE  Listed'
<1>1. \A d \in Clients : client'[d].got = client[d].got /\ (Turning(d)' => Turning(d))
                         /\ client'[d].next \in {client[d].next, 0}
  BY Concluded DEF Turning
<1>. QED BY <1>1 DEF Listed, StillListed, Turning, children

LEMMA ListedGet ==
    ASSUME Listed, Requested, NEW c \in Clients, NEW kind, GetChallenge(c, kind) PROVE Listed'
<1>1. UNCHANGED deploy
  BY DEF GetChallenge
<1>2. CASE client' = [client EXCEPT ![c].next = 1, ![c].asked = kind]
  <2>1. \A d \in Clients :
          /\ client'[d].got = client[d].got
          /\ d # c => client'[d].next = client[d].next /\ client'[d].asked = client[d].asked
          /\ d = c => client'[d].next = 1
    <3>1. Shape(client)
      BY DEF Requested, Shape
    <3>. QED BY <1>2, <3>1 DEF Shape
  <2>2. 1 \in DOMAIN children
    BY Children DEF Listed
  <2>. QED BY <1>1, <2>1, <2>2 DEF Listed, StillListed, Turning, children
<1>. QED BY <1>1, <1>2, ListedConclude DEF GetChallenge

LEMMA ListedRaises ==
    ASSUME Listed, Requested, NEW c \in Clients, IssueRaises(c) PROVE Listed'
<1>1. UNCHANGED deploy
  BY DEF IssueRaises
<1>2. CASE /\ client[c].next < Len(ChildrenOf(client[c].asked))
           /\ client' = [client EXCEPT ![c].next = @ + 1]
  <2>1. \A d \in Clients :
          /\ client'[d].got = client[d].got /\ client'[d].asked = client[d].asked
          /\ d # c => client'[d].next = client[d].next
          /\ d = c => client'[d].next = client[d].next + 1
    <3>1. Shape(client)
      BY DEF Requested, Shape
    <3>. QED BY <1>2, <3>1 DEF Shape
  <2>2. Turning(c) => client[c].next + 1 \in DOMAIN children
    BY <1>2, Children DEF Listed, Turning, ChildrenOf, children
  <2>3. client[c].next # 0
    BY DEF IssueRaises
  <2>. QED BY <1>1, <2>1, <2>2, <2>3 DEF Listed, StillListed, Turning, children
<1>. QED BY <1>1, <1>2, ListedConclude DEF IssueRaises

LEMMA ListedIssue ==
    ASSUME Listed, Requested, NEW c \in Clients, Issue(c) PROVE Listed'
<1>. DEFINE turn == client[c].next
            asked == client[c].asked
            kind == ChildrenOf(asked)[turn]
            got == [id |-> ids + 1, kind |-> kind, asked |-> asked,
                    index |-> IF asked = Fallback THEN turn ELSE 0]
<1>1. /\ client' = [client EXCEPT ![c].next = 0, ![c].outcome = "issued", ![c].got = got]
      /\ turn # 0 /\ UNCHANGED deploy
  BY DEF Issue
<1>2. got.kind = kind /\ got.index = IF asked = Fallback THEN turn ELSE 0
  OBVIOUS
<1>3. asked = Fallback => turn \in DOMAIN children /\ children[turn] = kind
  BY <1>1 DEF Listed, Turning, ChildrenOf, children
<1>. HIDE DEF turn, asked, kind, got
<1>4. /\ client'[c].got = got /\ client'[c].next = 0
      /\ \A d \in Clients : d # c => client'[d] = client[d]
  <2>1. Shape(client)
    BY DEF Requested, Shape
  <2>. QED BY <1>1, <2>1 DEF Shape
<1>5. got.index # 0 => got.index \in DOMAIN children /\ children[got.index] = got.kind
  BY <1>2, <1>3
<1>. QED BY <1>1, <1>4, <1>5 DEF Listed, StillListed, Turning, children

LEMMA ListedRedeploy ==
    ASSUME OnlyAppended, Listed, Requested, Redeploy PROVE Listed'
<1>1. /\ deploy \in 1..(Len(Deployments) - 1)
      /\ deploy' = deploy + 1
      /\ Len(Deployments) \in Nat
  <2>1. Len(Deployments) \in Nat
    BY ApiAssumption
  <2>2. deploy \in 1..Len(Deployments) /\ deploy < Len(Deployments) /\ deploy' = deploy + 1
    BY DEF Listed, Redeploy
  <2>. QED BY <2>1, <2>2
<1>2. \A d \in Clients : client'[d].got = client[d].got /\ client'[d].next = 0
  <2>1. Shape(client)
    BY DEF Requested, Shape
  <2>. QED BY <2>1 DEF Redeploy, Shape
<1>3. \A j \in DOMAIN children : j \in DOMAIN children' /\ children'[j] = children[j]
  BY <1>1 DEF OnlyAppended, children
<1>4. deploy' \in 1..Len(Deployments)
  BY <1>1
<1>5. ASSUME NEW d \in Clients, client'[d].got # None PROVE StillListed(d)'
  BY <1>2, <1>3, <1>5 DEF Listed, StillListed, children
<1>. QED BY <1>2, <1>4, <1>5 DEF Listed, Turning, children

LEMMA ListedNext == OnlyAppended /\ RoutingInv /\ Listed /\ [Next]_vars => Listed'
<1>. SUFFICES ASSUME OnlyAppended, Requested, Listed, [Next]_vars PROVE Listed'
  BY DEF RoutingInv
<1>1. ASSUME NEW c \in Clients, NEW kind \in Kinds, NEW right \in BOOLEAN,
             PostVerify(c, kind, right)
      PROVE  Listed'
  <2>1. UNCHANGED deploy /\ \E outcome : Conclude(c, outcome)
    BY <1>1 DEF PostVerify, Answer, Verdict
  <2>. QED BY <2>1, ListedConclude
<1>2. CASE UNCHANGED <<deploy, client>>
  BY <1>2 DEF Listed, StillListed, Turning, children
<1>. QED
  BY <1>1, <1>2, ListedGet, ListedIssue, ListedRaises, ListedRedeploy DEF Next, Tick, vars

\* providers/fallback.py: "verify() always routes back to the right one", without the
\* condition that the child is still in its place: it is, if redeployments only add
\* children at the end.
THEOREM AnswersAreAlwaysRouted == ASSUME OnlyAppended PROVE Spec => AlwaysRoutedBack
<1>1. RoutingInv /\ Listed /\ [Next]_vars
        => [\A c \in Clients : client[c].got # None => Counts(c, client[c].got.asked)]_vars
  BY RightCounts DEF Listed
<1>. QED BY <1>1, RoutingInit, RoutingNext, ListedInit, ListedNext, PTL DEF Spec, AlwaysRoutedBack
=============================================================================
