---------------------------- MODULE ClientProofs ----------------------------
(***************************************************************************)
(* Proofs about Client, for any number of accounts, lines, rows, elements  *)
(* and calls on the way.  First the calls on the way, which every page     *)
(* has; then page by page what it keeps true, whatever answers come, in    *)
(* whatever order: an invariant, that the mount makes it hold and that the *)
(* page's steps keep it.  The label editor, the agent's page and the       *)
(* session follow, and the pages are put together.                         *)
(***************************************************************************)
EXTENDS Client, FiniteSetTheorems, SequenceTheorems, TLAPS

(***************************************************************************)
(* The calls on the way                                                    *)
(***************************************************************************)
On(n)      == {n[i] : i \in DOMAIN n}
IsSeq(n)   == n \in Seq(On(n))
Single(n, ops) == \A i, j \in DOMAIN n : n[i].op \in ops /\ n[j].op \in ops => i = j
Free(n, ops)   == \A i \in DOMAIN n : n[i].op \notin ops
Places(n, ops) == {i \in DOMAIN n : n[i].op \in ops}

(* m holds what n holds, but what is at the places in "gone", and then c.  *)
Follows(m, n, gone, c) ==
    /\ IsSeq(m) /\ On(m) \subseteq On(n) \cup On(c)
    /\ {n[j] : j \in DOMAIN n \ gone} \cup On(c) \subseteq On(m)
    /\ \A ops : Single(n, ops) /\ Free(c, ops) => Single(m, ops)
    /\ \A ops : Free(n, ops) /\ Free(c, ops) => Free(m, ops)
    /\ \A ops : Free(n, ops) /\ Single(c, ops) => Single(m, ops)
    /\ \A ops : Free(c, ops) => Cardinality(Places(m, ops)) <= Cardinality(Places(n, ops))
    /\ \A ops : Single(n, ops) /\ (\E j \in gone : n[j].op \in ops)
                   => /\ Free(c, ops) => Free(m, ops)
                      /\ Single(c, ops) => Single(m, ops)

LEMMA SeqFacts ==
    ASSUME NEW n, IsSeq(n)
    PROVE  /\ Len(n) \in Nat /\ DOMAIN n = 1 .. Len(n)
           /\ \A i \in DOMAIN n : n[i] \in On(n)
           /\ \A S : On(n) \subseteq S => n \in Seq(S)
<1>1. Len(n) \in Nat /\ DOMAIN n = 1 .. Len(n) BY LenProperties DEF IsSeq
<1>2. \A i \in DOMAIN n : n[i] \in On(n) BY DEF On
<1>3. ASSUME NEW S, On(n) \subseteq S PROVE n \in Seq(S)
  <2>1. n \in [1 .. Len(n) -> On(n)] BY SeqDef, LenProperties DEF IsSeq
  <2>2. n \in [1 .. Len(n) -> S] BY <1>3, <2>1
  <2> QED BY <1>1, <2>2, SeqDef
<1> QED BY <1>1, <1>2, <1>3

(* A sequence of some set is one of its own members.                       *)
LEMMA SeqOfMembers ==
    ASSUME NEW S, NEW n \in Seq(S)
    PROVE  IsSeq(n) /\ On(n) \subseteq S
<1>1. Len(n) \in Nat /\ DOMAIN n = 1 .. Len(n) /\ n \in [1 .. Len(n) -> S] BY LenProperties
<1>2. n \in [1 .. Len(n) -> On(n)] BY <1>1 DEF On
<1>3. n \in Seq(On(n)) BY <1>1, <1>2, SeqDef
<1>4. On(n) \subseteq S BY <1>1 DEF On
<1> QED BY <1>3, <1>4 DEF IsSeq

LEMMA Literal ==
    /\ IsSeq(<<>>) /\ On(<<>>) = {} /\ \A ops : Free(<<>>, ops) /\ Single(<<>>, ops)
    /\ \A a : /\ IsSeq(<<a>>) /\ On(<<a>>) = {a}
              /\ \A ops : Single(<<a>>, ops) /\ (a.op \notin ops => Free(<<a>>, ops))
    /\ \A a, b : /\ IsSeq(<<a, b>>) /\ On(<<a, b>>) = {a, b}
                 /\ \A ops : /\ a.op \notin ops \/ b.op \notin ops => Single(<<a, b>>, ops)
                             /\ a.op \notin ops /\ b.op \notin ops => Free(<<a, b>>, ops)
<1>1. /\ IsSeq(<<>>) /\ On(<<>>) = {} /\ \A ops : Free(<<>>, ops) /\ Single(<<>>, ops)
  BY DEF IsSeq, On, Free, Single
<1>2. ASSUME NEW a
      PROVE  /\ IsSeq(<<a>>) /\ On(<<a>>) = {a}
             /\ \A ops : Single(<<a>>, ops) /\ (a.op \notin ops => Free(<<a>>, ops))
  <2>1. DOMAIN <<a>> = {1} /\ <<a>>[1] = a OBVIOUS
  <2>2. On(<<a>>) = {a} BY <2>1, Zenon DEF On
  <2>3. <<a>> \in Seq({a}) OBVIOUS
  <2> QED BY <2>1, <2>2, <2>3 DEF IsSeq, Free, Single
<1>3. ASSUME NEW a, NEW b
      PROVE  /\ IsSeq(<<a, b>>) /\ On(<<a, b>>) = {a, b}
             /\ \A ops : /\ a.op \notin ops \/ b.op \notin ops => Single(<<a, b>>, ops)
                         /\ a.op \notin ops /\ b.op \notin ops => Free(<<a, b>>, ops)
  <2>1. DOMAIN <<a, b>> = {1, 2} /\ <<a, b>>[1] = a /\ <<a, b>>[2] = b OBVIOUS
  <2>2. On(<<a, b>>) = {a, b} BY <2>1 DEF On
  <2>3. <<a, b>> \in Seq({a, b}) OBVIOUS
  <2> QED BY <2>1, <2>2, <2>3 DEF IsSeq, Free, Single
<1> QED BY <1>1, <1>2, <1>3

(* From where each call comes; no two come from one place.                 *)
LEMMA FollowsFrom ==
    ASSUME NEW n, IsSeq(n), NEW c, IsSeq(c), NEW m, NEW gone \in SUBSET DOMAIN n,
           NEW k \in Nat, NEW at \in [1 .. k -> DOMAIN n \ gone],
           Len(m) = k + Len(c), IsSeq(m),
           \A j \in 1 .. k : m[j] = n[at[j]],
           \A j, l \in 1 .. k : at[j] = at[l] => j = l,
           \A i \in DOMAIN n \ gone : \E j \in 1 .. k : at[j] = i,
           \A j \in 1 .. Len(c) : m[k + j] = c[j]
    PROVE  Follows(m, n, gone, c)
<1>1. /\ Len(n) \in Nat /\ DOMAIN n = 1 .. Len(n) /\ Len(c) \in Nat /\ DOMAIN c = 1 .. Len(c)
      /\ DOMAIN m = 1 .. k + Len(c)
  BY SeqFacts
<1>2. ASSUME NEW j \in DOMAIN m
      PROVE  \/ j \in 1 .. k
             \/ j - k \in DOMAIN c /\ m[j] = c[j - k]
  <2>1. CASE j <= k BY <1>1, <2>1
  <2>2. CASE ~(j <= k)
    <3>1. j - k \in 1 .. Len(c) /\ k + (j - k) = j BY <1>1, <2>2
    <3> QED BY <1>1, <3>1
  <2> QED BY <2>1, <2>2
<1>3. \A j \in 1 .. k : j \in DOMAIN m BY <1>1
<1>4. \A j \in 1 .. Len(c) : k + j \in DOMAIN m BY <1>1
<1>5. On(m) \subseteq On(n) \cup On(c) BY <1>2 DEF On
<1>6. {n[j] : j \in DOMAIN n \ gone} \cup On(c) \subseteq On(m)
  <2>1. ASSUME NEW i \in DOMAIN n \ gone PROVE n[i] \in On(m)
    <3>1. PICK j \in 1 .. k : at[j] = i OBVIOUS
    <3>2. j \in DOMAIN m /\ m[j] = n[i] BY <1>3, <3>1
    <3> QED BY <3>2, Zenon DEF On
  <2>2. ASSUME NEW j \in DOMAIN c PROVE c[j] \in On(m)
    <3>1. k + j \in DOMAIN m /\ m[k + j] = c[j] BY <1>1, <1>4
    <3> QED BY <3>1, Zenon DEF On
  <2>3. \A x \in On(c) : x \in On(m) BY <2>2 DEF On
  <2> QED BY <2>1, <2>3
<1>7. ASSUME NEW ops, Free(n, ops) PROVE \A j \in 1 .. k : m[j].op \notin ops BY <1>7 DEF Free
<1>8. ASSUME NEW ops, Single(n, ops)
      PROVE  \A j, l \in 1 .. k : m[j].op \in ops /\ m[l].op \in ops => j = l
  BY <1>8 DEF Single
<1>9. ASSUME NEW ops, Single(n, ops), NEW g \in gone, n[g].op \in ops
      PROVE  \A j \in 1 .. k : m[j].op \notin ops
  BY <1>9 DEF Single
<1>10. ASSUME NEW ops, Free(c, ops), \A j \in 1 .. k : m[j].op \notin ops PROVE Free(m, ops)
  BY <1>2, <1>10 DEF Free
<1>11. ASSUME NEW ops, Single(c, ops), \A j \in 1 .. k : m[j].op \notin ops PROVE Single(m, ops)
  <2> SUFFICES ASSUME NEW i \in DOMAIN m, NEW j \in DOMAIN m, m[i].op \in ops, m[j].op \in ops
               PROVE  i = j
    BY DEF Single
  <2>1. i - k \in DOMAIN c /\ m[i] = c[i - k] BY <1>2, <1>11
  <2>2. j - k \in DOMAIN c /\ m[j] = c[j - k] BY <1>2, <1>11
  <2>3. i - k = j - k BY <1>11, <2>1, <2>2 DEF Single
  <2> QED BY <1>1, <2>3
<1>12. ASSUME NEW ops, Free(c, ops), \A j, l \in 1 .. k : m[j].op \in ops /\ m[l].op \in ops => j = l
       PROVE  Single(m, ops)
  <2> SUFFICES ASSUME NEW i \in DOMAIN m, NEW j \in DOMAIN m, m[i].op \in ops, m[j].op \in ops
               PROVE  i = j
    BY DEF Single
  <2>1. i \in 1 .. k /\ j \in 1 .. k BY <1>2, <1>12 DEF Free
  <2> QED BY <1>12, <2>1
<1>13. ASSUME NEW ops, Free(c, ops)
       PROVE  Cardinality(Places(m, ops)) <= Cardinality(Places(n, ops))
  <2> DEFINE f == [j \in Places(m, ops) |-> at[j]]
  <2>1. ASSUME NEW j \in Places(m, ops) PROVE j \in 1 .. k /\ at[j] \in Places(n, ops)
    <3>1. j \in DOMAIN m /\ m[j].op \in ops BY DEF Places
    <3>2. j \in 1 .. k BY <1>2, <1>13, <3>1 DEF Free
    <3> QED BY <3>1, <3>2 DEF Places
  <2>2. f \in [Places(m, ops) -> Places(n, ops)] BY <2>1
  <2>3. \A i, j \in Places(m, ops) : f[i] = f[j] => i = j BY <2>1
  <2>4. IsFiniteSet(Places(n, ops)) /\ IsFiniteSet(Places(m, ops))
    <3>1. IsFiniteSet(DOMAIN n) /\ IsFiniteSet(DOMAIN m) BY <1>1, FS_Interval
    <3> QED BY <3>1, FS_Subset DEF Places
  <2>5. f \in Injection(Places(m, ops), Places(n, ops)) BY <2>2, <2>3 DEF Injection, IsInjective
  <2> QED BY <2>4, <2>5, FS_Injection DEF ExistsInjection
<1> QED BY <1>5, <1>6, <1>7, <1>8, <1>9, <1>10, <1>11, <1>12, <1>13 DEF Follows

(* What a page posts is put after what is on the way.                      *)
LEMMA Posting ==
    ASSUME NEW n, IsSeq(n), NEW c, IsSeq(c), NEW m, m = n \o c
    PROVE  Follows(m, n, {}, c)
<1> DEFINE at == [j \in 1 .. Len(n) |-> j]
<1>1. /\ Len(n) \in Nat /\ DOMAIN n = 1 .. Len(n) /\ Len(c) \in Nat /\ DOMAIN c = 1 .. Len(c)
  BY SeqFacts
<1>2. n \in Seq(On(n) \cup On(c)) /\ c \in Seq(On(n) \cup On(c)) BY SeqFacts
<1>3. /\ m \in Seq(On(n) \cup On(c)) /\ Len(m) = Len(n) + Len(c)
      /\ \A k \in 1 .. Len(n) + Len(c) : m[k] = IF k <= Len(n) THEN n[k] ELSE c[k - Len(n)]
  BY <1>2, ConcatProperties
<1>4. IsSeq(m) BY <1>3, SeqOfMembers
<1>5. \A j \in 1 .. Len(n) : m[j] = n[at[j]] BY <1>1, <1>3
<1>6. \A j \in 1 .. Len(c) : m[Len(n) + j] = c[j]
  <2> TAKE j \in 1 .. Len(c)
  <2>1. Len(n) + j \in 1 .. Len(n) + Len(c) /\ ~(Len(n) + j <= Len(n)) /\ Len(n) + j - Len(n) = j
    BY <1>1
  <2> QED BY <1>3, <2>1
<1>7. /\ at \in [1 .. Len(n) -> DOMAIN n \ {}]
      /\ \A j, l \in 1 .. Len(n) : at[j] = at[l] => j = l
      /\ \A i \in DOMAIN n \ {} : \E j \in 1 .. Len(n) : at[j] = i
  BY <1>1
<1> HIDE DEF at
<1>8. {} \in SUBSET DOMAIN n OBVIOUS
<1> QED BY <1>1, <1>3, <1>4, <1>5, <1>6, <1>7, <1>8, FollowsFrom

(* An answer takes its call out, and may post others.                      *)
LEMMA Answering ==
    ASSUME NEW n, IsSeq(n), NEW i \in DOMAIN n, NEW c, IsSeq(c), NEW m,
           m = [j \in 1 .. Len(n) - 1 |-> n[IF j < i THEN j ELSE j + 1]] \o c
    PROVE  Follows(m, n, {i}, c)
<1> DEFINE k  == Len(n) - 1
           at == [j \in 1 .. k |-> IF j < i THEN j ELSE j + 1]
           gone == {i}
           r  == [j \in 1 .. k |-> n[IF j < i THEN j ELSE j + 1]]
<1>1. /\ Len(n) \in Nat /\ DOMAIN n = 1 .. Len(n) /\ Len(c) \in Nat /\ DOMAIN c = 1 .. Len(c)
      /\ \A j \in DOMAIN n : n[j] \in On(n)
  BY SeqFacts
<1>2. k \in Nat /\ i \in Nat /\ i >= 1 /\ i <= k + 1 /\ DOMAIN n = 1 .. k + 1 BY <1>1
<1>3. m = r \o c OBVIOUS
<1> HIDE DEF k
<1>4. /\ at \in [1 .. k -> DOMAIN n \ gone]
      /\ \A j, l \in 1 .. k : at[j] = at[l] => j = l
  BY <1>2
<1>5. \A g \in DOMAIN n \ gone : \E j \in 1 .. k : at[j] = g
  <2> TAKE g \in DOMAIN n \ gone
  <2>1. CASE g < i BY <1>2, <2>1
  <2>2. CASE ~(g < i)
    <3>1. g - 1 \in 1 .. k /\ ~(g - 1 < i) /\ g - 1 + 1 = g BY <1>2, <2>2
    <3>2. at[g - 1] = g BY <3>1
    <3> QED BY <3>1, <3>2
  <2> QED BY <2>1, <2>2
<1>6. r \in [1 .. k -> On(n)] /\ \A j \in 1 .. k : r[j] = n[at[j]]
  <2>1. \A j \in 1 .. k : r[j] = n[at[j]] OBVIOUS
  <2>2. \A j \in 1 .. k : n[at[j]] \in On(n) BY <1>1, <1>4
  <2>3. \A j \in 1 .. k : r[j] \in On(n) BY <2>1, <2>2
  <2>4. r = [j \in 1 .. k |-> r[j]] OBVIOUS
  <2> HIDE DEF r
  <2> QED BY <2>1, <2>3, <2>4
<1> HIDE DEF at, r
<1>7. r \in Seq(On(n) \cup On(c)) /\ Len(r) = k
  <2>1. r \in [1 .. k -> On(n) \cup On(c)] BY <1>6
  <2>2. r \in Seq(On(n) \cup On(c)) BY <1>2, <2>1, SeqDef
  <2>3. Len(r) = k BY <1>2, <2>1, LenProperties
  <2> QED BY <2>2, <2>3
<1>8. c \in Seq(On(n) \cup On(c)) BY SeqFacts
<1>9. /\ m \in Seq(On(n) \cup On(c)) /\ Len(m) = k + Len(c)
      /\ \A j \in 1 .. k + Len(c) : m[j] = IF j <= k THEN r[j] ELSE c[j - k]
  <2>1. /\ r \o c \in Seq(On(n) \cup On(c)) /\ Len(r \o c) = Len(r) + Len(c)
        /\ \A j \in 1 .. Len(r) + Len(c) : (r \o c)[j] = IF j <= Len(r) THEN r[j] ELSE c[j - Len(r)]
    BY <1>7, <1>8, ConcatProperties
  <2> QED BY <1>3, <1>7, <2>1
<1>10. IsSeq(m) BY <1>9, SeqOfMembers
<1>11. \A j \in 1 .. k : m[j] = n[at[j]]
  <2> TAKE j \in 1 .. k
  <2>1. j \in 1 .. k + Len(c) /\ j <= k BY <1>1, <1>2
  <2> QED BY <1>6, <1>9, <2>1
<1>12. \A j \in 1 .. Len(c) : m[k + j] = c[j]
  <2> TAKE j \in 1 .. Len(c)
  <2>1. k + j \in 1 .. k + Len(c) /\ ~(k + j <= k) /\ (k + j) - k = j BY <1>1, <1>2
  <2>2. m[k + j] = c[(k + j) - k] BY <1>9, <2>1
  <2> QED BY <2>1, <2>2
<1>13. gone \in SUBSET DOMAIN n OBVIOUS
<1>14. /\ IsSeq(n) /\ IsSeq(c) /\ k \in Nat /\ Len(m) = k + Len(c)
       /\ at \in [1 .. k -> DOMAIN n \ gone] /\ \A j, l \in 1 .. k : at[j] = at[l] => j = l
  BY <1>2, <1>4, <1>9
<1> HIDE DEF gone
<1>15. Follows(m, n, gone, c) BY ONLY <1>5, <1>10, <1>11, <1>12, <1>13, <1>14, FollowsFrom
<1> QED BY <1>15 DEF gone

LEMMA Counted ==
    ASSUME NEW n, IsSeq(n), NEW ops
    PROVE  Cardinality(Places(n, ops)) \in Nat
<1>1. IsFiniteSet(DOMAIN n) BY SeqFacts, FS_Interval
<1>2. IsFiniteSet(Places(n, ops)) BY <1>1, FS_Subset DEF Places
<1> QED BY <1>2, FS_CardinalityType


(***************************************************************************)
(* The balance of a line                                                   *)
(***************************************************************************)
BalanceLines == Line \cup {None}

BalanceScreen ==
    [which: {"line", "product", "report"},
     choice: [lines: SUBSET Line, linesLoading: BOOLEAN, selected: BalanceLines, wanted: BalanceLines],
     period: 1 .. 2, requests: Nat, loading: BOOLEAN, exporting: BOOLEAN,
     rows: [of: BalanceLines, period: 1 .. 2, some: BOOLEAN]]

(* What a call on the way says, seen from the screen u: it is one of the   *)
(* requests, the newest is for what is selected, and a sheet holds the     *)
(* rows of the line it is named after.                                     *)
BalanceCall(x, u) ==
    /\ x.op = "balance" =>
          /\ x.arg.id \in 1 .. u.requests /\ x.arg.line \in BalanceLines /\ x.arg.period \in 1 .. 2
          /\ x.arg.id = u.requests => x.arg.line = u.choice.selected /\ x.arg.period = u.period
    /\ x.op = "excel" => x.arg.line = x.arg.of

BalanceRows(u) ==
    /\ ~u.loading /\ u.rows.some => u.rows.of = u.choice.selected /\ u.rows.period = u.period
    /\ u.choice.selected = None => u.requests = 0
    /\ u.requests = 0 => ~u.rows.some

(* The lines are asked for once, before anything is selected.              *)
BalanceInv ==
    /\ ui \in BalanceScreen /\ IsSeq(net) /\ BalanceRows(ui)
    /\ Single(net, {"lines"})
    /\ Free(net, {"lines"}) \/ (ui.choice.selected = None /\ ui.choice.lines = {})
    /\ \A x \in On(net) : BalanceCall(x, ui)

LEMMA BalanceMounts ==
    ASSUME Balance!MountLine \/ Balance!MountProduct \/ Balance!MountReport
    PROVE  BalanceInv'
<1>1. PICK p \in {"line", "product", "report"}, l \in BalanceLines : Balance!Mount(p, l)
  BY DEF Balance!MountLine, Balance!MountProduct, Balance!MountReport, BalanceLines
<1>2. /\ Balance!Fresh(p, l) \in BalanceScreen /\ Balance!Fresh(p, l).choice.selected = None
      /\ Balance!Fresh(p, l).choice.lines = {} /\ ~Balance!Fresh(p, l).rows.some
      /\ Balance!Fresh(p, l).requests = 0
  BY DEF Balance!Fresh, Balance!Choice, BalanceScreen, BalanceLines
<1>3. ui' = Balance!Fresh(p, l) /\ net' = <<Balance!Call("lines", None)>>
  BY <1>1 DEF Balance!Mount
<1>4. BalanceRows(ui') BY <1>2, <1>3 DEF BalanceRows
<1>5. IsSeq(net') /\ On(net') = {Balance!Call("lines", None)} /\ Single(net', {"lines"})
  BY <1>3, Literal
<1>6. \A x \in On(net') : BalanceCall(x, ui') BY <1>5 DEF BalanceCall, Balance!Call
<1> QED BY <1>2, <1>3, <1>4, <1>5, <1>6 DEF BalanceInv

LEMMA BalanceAnswers ==
    ASSUME IsSeq(net), NEW i, NEW op, NEW c, IsSeq(c), Balance!Answered(i, op, c)
    PROVE  i \in DOMAIN net /\ net[i].op = op /\ Follows(net', net, {i}, c)
BY Answering DEF Balance!Answered, Balance!Others

LEMMA BalancePosts ==
    ASSUME IsSeq(net), NEW c, IsSeq(c), Balance!Posts(c)
    PROVE  Follows(net', net, {}, c)
BY Posting DEF Balance!Posts

LEMMA BalanceStep ==
    ASSUME BalanceInv, NEW gone, NEW c, IsSeq(c), Follows(net', net, gone, c), Free(c, {"lines"}),
           ui' \in BalanceScreen, BalanceRows(ui'),
           \A x : BalanceCall(x, ui) => BalanceCall(x, ui'),
           \A x \in On(c) : BalanceCall(x, ui'),
           \/ \E j \in gone : net[j].op = "lines"
           \/ ui.choice.lines # {}
           \/ ui'.choice = ui.choice
    PROVE  BalanceInv'
<1>1. IsSeq(net') /\ Single(net', {"lines"}) BY DEF BalanceInv, Follows
<1>2. \A x \in On(net') : BalanceCall(x, ui') BY DEF BalanceInv, Follows
<1>3. Free(net', {"lines"}) \/ (ui'.choice.selected = None /\ ui'.choice.lines = {})
  <2>1. CASE Free(net, {"lines"}) BY <2>1 DEF Follows
  <2>2. CASE \E j \in gone : net[j].op = "lines" BY <2>2 DEF BalanceInv, Follows
  <2> QED BY <2>1, <2>2 DEF BalanceInv
<1> QED BY <1>1, <1>2, <1>3 DEF BalanceInv

(* What another line or other dates do to the screen and to the calls.     *)
LEMMA BalanceAsking ==
    ASSUME BalanceInv, NEW s \in BalanceScreen, s.requests = ui.requests, s.rows = ui.rows,
           s.choice.selected = None => ui.choice.selected = None
    PROVE  LET u == Balance!Asking(s)
               c == Balance!Balance(s)
           IN /\ u \in BalanceScreen /\ BalanceRows(u) /\ u.choice = s.choice
              /\ IsSeq(c) /\ Free(c, {"lines"})
              /\ \A x : BalanceCall(x, ui) => BalanceCall(x, u)
              /\ \A x \in On(c) : BalanceCall(x, u)
<1> DEFINE u == Balance!Asking(s)
           arg == [id |-> s.requests + 1, line |-> s.choice.selected, period |-> s.period]
<1>1. BalanceRows(ui) /\ ui \in BalanceScreen BY DEF BalanceInv
<1>2. /\ s.requests \in Nat /\ s.choice.selected \in BalanceLines /\ s.period \in 1 .. 2
      /\ s.rows.some \in BOOLEAN
  BY DEF BalanceScreen
<1>3. CASE s.choice.selected = None
  <2>1. u = s /\ Balance!Balance(s) = <<>> BY <1>3 DEF Balance!Asking, Balance!Balance
  <2>2. ui.requests = 0 /\ ~ui.rows.some BY <1>1, <1>3 DEF BalanceRows
  <2>3. BalanceRows(s) BY <2>2 DEF BalanceRows
  <2>4. ASSUME NEW x, BalanceCall(x, ui) PROVE BalanceCall(x, s)
    <3>1. x.op # "balance" BY <2>2, <2>4 DEF BalanceCall
    <3> QED BY <2>4, <3>1 DEF BalanceCall
  <2> QED BY <2>1, <2>3, <2>4, Literal
<1>4. CASE s.choice.selected # None
  <2>1. u = [s EXCEPT !.requests = s.requests + 1, !.loading = TRUE] BY <1>4 DEF Balance!Asking
  <2>2. Balance!Balance(s) = <<Balance!Call("balance", arg)>> BY <1>4 DEF Balance!Balance
  <2> HIDE DEF u
  <2>3. /\ u.choice = s.choice /\ u.requests = s.requests + 1 /\ u.loading = TRUE
        /\ u.rows = s.rows /\ u.period = s.period
    BY <2>1 DEF BalanceScreen
  <2>4. u \in BalanceScreen
    <3>1. \A n \in Nat : [s EXCEPT !.requests = n, !.loading = TRUE] \in BalanceScreen
      BY DEF BalanceScreen
    <3>2. s.requests + 1 \in Nat BY <1>2
    <3> QED BY <2>1, <3>1, <3>2
  <2>5. BalanceRows(u) BY <1>2, <1>4, <2>3 DEF BalanceRows
  <2>6. BalanceCall(Balance!Call("balance", arg), u)
    BY <1>2, <2>3 DEF BalanceCall, Balance!Call
  <2>7. ASSUME NEW x, BalanceCall(x, ui) PROVE BalanceCall(x, u)
    <3>1. CASE x.op = "balance"
      <4>1. /\ x.arg.id \in 1 .. ui.requests /\ x.arg.line \in BalanceLines
            /\ x.arg.period \in 1 .. 2
        BY <2>7, <3>1 DEF BalanceCall
      <4>2. ui.requests \in Nat /\ u.requests = ui.requests + 1 BY <1>2, <2>3
      <4>3. x.arg.id \in 1 .. u.requests /\ x.arg.id # u.requests BY <4>1, <4>2
      <4> QED BY <3>1, <4>1, <4>3 DEF BalanceCall
    <3>2. CASE x.op # "balance" BY <2>7, <3>2 DEF BalanceCall
    <3> QED BY <3>1, <3>2
  <2>8. Balance!Call("balance", arg).op = "balance" BY DEF Balance!Call
  <2> HIDE DEF arg
  <2>9. /\ IsSeq(Balance!Balance(s)) /\ Free(Balance!Balance(s), {"lines"})
        /\ On(Balance!Balance(s)) = {Balance!Call("balance", arg)}
    BY <2>2, <2>8, Literal
  <2> QED BY <2>3, <2>4, <2>5, <2>6, <2>7, <2>9 DEF u
<1> QED BY <1>3, <1>4

(* An answer that posts nothing, and leaves the line and the requests.     *)
LEMMA BalanceEnds ==
    ASSUME BalanceInv, NEW i, NEW op, Balance!Ends(i, op),
           ui' \in BalanceScreen, ui'.choice = ui.choice, ui'.period = ui.period,
           ui'.requests = ui.requests, BalanceRows(ui')
    PROVE  BalanceInv'
<1>1. Follows(net', net, {i}, <<>>) BY BalanceAnswers, Literal DEF Balance!Ends, BalanceInv
<1>2. \A x : BalanceCall(x, ui) => BalanceCall(x, ui') BY DEF BalanceCall
<1> QED BY <1>1, <1>2, BalanceStep, Literal

LEMMA BalanceLinesLoaded ==
    ASSUME BalanceInv, NEW i, Balance!LinesLoaded(i)
    PROVE  BalanceInv'
<1>1. PICK c \in Balance!LinesOf(ui.choice) :
         LET s == [ui EXCEPT !.choice = c]
         IN Balance!Answered(i, "lines", Balance!Balance(s)) /\ ui' = Balance!Asking(s)
  BY DEF Balance!LinesLoaded
<1> DEFINE s == [ui EXCEPT !.choice = c]
<1>2. ui \in BalanceScreen /\ IsSeq(net) BY DEF BalanceInv
<1>3. i \in DOMAIN net /\ net[i].op = "lines" BY <1>1 DEF Balance!Answered
<1>4. ui.choice.selected = None BY <1>3 DEF BalanceInv, Free
<1>5. s \in BalanceScreen
  <2>1. PICK ls \in SUBSET Line : \E l \in Balance!pickDefaultLine(ls, ui.choice.wanted) :
            c = [ui.choice EXCEPT !.lines = ls, !.linesLoading = FALSE, !.selected = l]
    BY DEF Balance!LinesOf
  <2>2. PICK l \in Balance!pickDefaultLine(ls, ui.choice.wanted) :
            c = [ui.choice EXCEPT !.lines = ls, !.linesLoading = FALSE, !.selected = l]
    BY <2>1
  <2>3. l \in BalanceLines BY <2>2 DEF Balance!pickDefaultLine, BalanceLines
  <2>4. ui.choice \in [lines: SUBSET Line, linesLoading: BOOLEAN, selected: BalanceLines,
                       wanted: BalanceLines]
    BY <1>2 DEF BalanceScreen
  <2>5. c \in [lines: SUBSET Line, linesLoading: BOOLEAN, selected: BalanceLines,
               wanted: BalanceLines]
    BY <2>2, <2>3, <2>4
  <2> QED BY <1>2, <2>5 DEF BalanceScreen
<1>6. s.requests = ui.requests /\ s.rows = ui.rows BY <1>2 DEF BalanceScreen
<1>7. Balance!Answered(i, "lines", Balance!Balance(s)) /\ ui' = Balance!Asking(s) BY <1>1
<1> HIDE DEF s
<1>8. /\ Balance!Asking(s) \in BalanceScreen /\ BalanceRows(Balance!Asking(s))
      /\ IsSeq(Balance!Balance(s)) /\ Free(Balance!Balance(s), {"lines"})
      /\ \A x : BalanceCall(x, ui) => BalanceCall(x, Balance!Asking(s))
      /\ \A x \in On(Balance!Balance(s)) : BalanceCall(x, Balance!Asking(s))
  BY <1>4, <1>5, <1>6, BalanceAsking
<1>9. Follows(net', net, {i}, Balance!Balance(s)) BY <1>2, <1>7, <1>8, BalanceAnswers
<1> QED BY <1>3, <1>7, <1>8, <1>9, BalanceStep

(* Another line, and other dates: the same, beside the calls on the way.   *)
LEMMA BalanceChoices ==
    ASSUME BalanceInv, NEW s \in BalanceScreen,
           s.requests = ui.requests, s.rows = ui.rows,
           \/ s.choice = ui.choice
           \/ s.choice.selected # None /\ ui.choice.lines # {},
           Balance!Posts(Balance!Balance(s)), ui' = Balance!Asking(s)
    PROVE  BalanceInv'
<1>1. /\ Balance!Asking(s) \in BalanceScreen /\ BalanceRows(Balance!Asking(s))
      /\ Balance!Asking(s).choice = s.choice
      /\ IsSeq(Balance!Balance(s)) /\ Free(Balance!Balance(s), {"lines"})
      /\ \A x : BalanceCall(x, ui) => BalanceCall(x, Balance!Asking(s))
      /\ \A x \in On(Balance!Balance(s)) : BalanceCall(x, Balance!Asking(s))
  BY BalanceAsking
<1>2. Follows(net', net, {}, Balance!Balance(s)) BY <1>1, BalancePosts DEF BalanceInv
<1> QED BY <1>1, <1>2, BalanceStep

LEMMA BalanceLoaded ==
    ASSUME BalanceInv, NEW i, Balance!Loaded(i)
    PROVE  BalanceInv'
<1>1. ui \in BalanceScreen /\ IsSeq(net) /\ BalanceRows(ui) BY DEF BalanceInv
<1>2. Balance!Ends(i, "balance") /\ i \in DOMAIN net /\ net[i].op = "balance"
  BY DEF Balance!Loaded, Balance!Ends, Balance!Answered
<1>3. CASE net[i].arg.id # ui.requests
  <2>1. ui' = ui BY <1>3 DEF Balance!Loaded
  <2> QED BY <1>1, <1>2, <2>1, BalanceEnds
<1>4. CASE net[i].arg.id = ui.requests
  <2>1. PICK b \in BOOLEAN : ui' = [ui EXCEPT !.loading = FALSE, !.rows = Balance!Rows(i, b)]
    BY <1>4 DEF Balance!Loaded
  <2>2. BalanceCall(net[i], ui) BY <1>2 DEF BalanceInv, On
  <2>3. /\ Balance!Rows(i, b) \in [of: BalanceLines, period: 1 .. 2, some: BOOLEAN]
        /\ Balance!Rows(i, b).of = ui.choice.selected /\ Balance!Rows(i, b).period = ui.period
        /\ net[i].arg.id \in 1 .. ui.requests
    BY <1>2, <1>4, <2>2 DEF Balance!Rows, BalanceCall
  <2>4. /\ ui' \in BalanceScreen /\ ui'.choice = ui.choice /\ ui'.period = ui.period
        /\ ui'.requests = ui.requests /\ ui'.rows = Balance!Rows(i, b)
    BY <1>1, <2>1, <2>3 DEF BalanceScreen
  <2>5. ui.requests # 0 BY <2>3
  <2>6. BalanceRows(ui') BY <1>1, <2>3, <2>4, <2>5 DEF BalanceRows
  <2> QED BY <1>2, <2>4, <2>6, BalanceEnds
<1> QED BY <1>3, <1>4

LEMMA BalanceExports ==
    ASSUME BalanceInv, Balance!exportToExcel
    PROVE  BalanceInv'
<1> DEFINE call == Balance!Call("excel", [line |-> ui.choice.selected, of |-> ui.rows.of])
<1>1. ui \in BalanceScreen /\ IsSeq(net) /\ BalanceRows(ui) BY DEF BalanceInv
<1>2. ui' = [ui EXCEPT !.exporting = TRUE] /\ Balance!Posts(<<call>>)
  BY DEF Balance!exportToExcel, Balance!Post
<1>3. /\ ui' \in BalanceScreen /\ ui'.choice = ui.choice /\ ui'.period = ui.period
      /\ ui'.requests = ui.requests /\ ui'.rows = ui.rows /\ ui'.loading = ui.loading
  BY <1>1, <1>2 DEF BalanceScreen
<1>4. BalanceRows(ui') BY <1>1, <1>3 DEF BalanceRows
<1>5. ui.rows.of = ui.choice.selected BY <1>1 DEF Balance!exportToExcel, BalanceRows
<1>6. call.op = "excel" /\ call.arg.line = call.arg.of BY <1>5 DEF Balance!Call
<1> HIDE DEF call
<1>7. BalanceCall(call, ui') BY <1>6 DEF BalanceCall
<1>8. IsSeq(<<call>>) /\ On(<<call>>) = {call} /\ Free(<<call>>, {"lines"}) BY <1>6, Literal
<1>9. Follows(net', net, {}, <<call>>) BY <1>1, <1>2, <1>8, BalancePosts
<1>10. \A x : BalanceCall(x, ui) => BalanceCall(x, ui') BY <1>3 DEF BalanceCall
<1> QED BY <1>3, <1>4, <1>7, <1>8, <1>9, <1>10, BalanceStep

LEMMA BalanceKeeps ==
    ASSUME None \notin Line, BalanceInv, Balance!Next
    PROVE  BalanceInv'
<1>1. ui \in BalanceScreen BY DEF BalanceInv
<1>2. ASSUME NEW l \in Line, Balance!setSelectedLine(l) PROVE BalanceInv'
  <2> DEFINE s == [ui EXCEPT !.choice.selected = l]
  <2>1. l \in ui.choice.lines /\ Balance!Posts(Balance!Balance(s)) /\ ui' = Balance!Asking(s)
    BY <1>2 DEF Balance!setSelectedLine
  <2>2. /\ s \in BalanceScreen /\ s.requests = ui.requests /\ s.rows = ui.rows
        /\ s.choice.selected = l
    BY <1>1 DEF BalanceScreen, BalanceLines
  <2> HIDE DEF s
  <2>3. s.choice.selected # None BY <2>2
  <2> QED BY <2>1, <2>2, <2>3, BalanceChoices
<1>3. CASE Balance!ChooseDates
  <2> DEFINE s == [ui EXCEPT !.period = 3 - @]
  <2>1. Balance!Posts(Balance!Balance(s)) /\ ui' = Balance!Asking(s)
    BY <1>3 DEF Balance!ChooseDates
  <2>2. s \in BalanceScreen /\ s.requests = ui.requests /\ s.rows = ui.rows /\ s.choice = ui.choice
    BY <1>1 DEF BalanceScreen
  <2> HIDE DEF s
  <2> QED BY <2>1, <2>2, BalanceChoices
<1>4. ASSUME NEW i, Balance!Exported(i) PROVE BalanceInv'
  <2>1. Balance!Ends(i, "excel") /\ ui' = [ui EXCEPT !.exporting = FALSE]
    BY <1>4 DEF Balance!Exported
  <2>2. /\ ui' \in BalanceScreen /\ ui'.choice = ui.choice /\ ui'.period = ui.period
        /\ ui'.requests = ui.requests /\ ui'.rows = ui.rows /\ ui'.loading = ui.loading
    BY <1>1, <2>1 DEF BalanceScreen
  <2>3. BalanceRows(ui') BY <2>2 DEF BalanceInv, BalanceRows
  <2> QED BY <2>1, <2>2, <2>3, BalanceEnds
<1> QED BY <1>2, <1>3, <1>4, BalanceLinesLoaded, BalanceLoaded, BalanceExports DEF Balance!Next

LEMMA BalanceShows == BalanceInv => Balance!LatestShown
BY DEF BalanceInv, BalanceRows, BalanceCall, On, Balance!LatestShown

(***************************************************************************)
(* Handing out a delivery note                                             *)
(***************************************************************************)
WareOutcomeInv == DOMAIN ui = DOMAIN WareOutcome!Fresh

LEMMA WareOutcomeMounts ==
    ASSUME WareOutcome!Mount
    PROVE  WareOutcomeInv'
BY DEF WareOutcome!Mount, WareOutcome!Fresh, WareOutcomeInv

(* Every answer but the list's leaves the lines there are, or takes one.   *)
LEMMA WareOutcomeKeeps ==
    ASSUME WareOutcomeInv, WareOutcome!Next
    PROVE  WareOutcomeInv' /\ WareOutcome!DeletedStaysGone
<1> DEFINE Fewer == DOMAIN ui'.items \subseteq DOMAIN ui.items
<1>0. {"items", "draft"} \subseteq DOMAIN ui BY DEF WareOutcomeInv, WareOutcome!Fresh
<1> SUFFICES /\ DOMAIN ui' = DOMAIN ui
             /\ Fewer \/ \E i \in DOMAIN net : net[i].op = "items"
  BY DEF WareOutcomeInv, WareOutcome!DeletedStaysGone, WareOutcome!OnTheWay
<1>1. ASSUME NEW k \in Item,
             \/ WareOutcome!saveQuantity(k) \/ WareOutcome!confirmItem(k)
             \/ WareOutcome!unconfirmItem(k) \/ WareOutcome!deleteItem(k)
             \/ \E q \in Quantity \cup {0} : WareOutcome!updateDraftQty(k, q)
      PROVE  DOMAIN ui' = DOMAIN ui /\ Fewer
  BY <1>0, <1>1 DEF WareOutcome!saveQuantity, WareOutcome!confirmItem, WareOutcome!unconfirmItem,
                    WareOutcome!deleteItem, WareOutcome!updateDraftQty
<1>2. CASE WareOutcome!confirmAll \/ WareOutcome!unconfirmAll \/ WareOutcome!CloseDialog
  BY <1>0, <1>2 DEF WareOutcome!confirmAll, WareOutcome!unconfirmAll, WareOutcome!CloseDialog
<1>3. ASSUME NEW i \in DOMAIN net, WareOutcome!loadItems(i)
      PROVE  DOMAIN ui' = DOMAIN ui /\ net[i].op = "items"
  BY <1>3 DEF WareOutcome!loadItems, WareOutcome!Ends, WareOutcome!Answered
<1>4. ASSUME NEW i \in DOMAIN net, WareOutcome!Saved(i)
      PROVE  DOMAIN ui' = DOMAIN ui /\ Fewer
  BY <1>0, <1>4 DEF WareOutcome!Saved
<1>5. ASSUME NEW i \in DOMAIN net, WareOutcome!Confirmed(i)
      PROVE  DOMAIN ui' = DOMAIN ui /\ Fewer
  BY <1>0, <1>5 DEF WareOutcome!Confirmed
<1>6. ASSUME NEW i \in DOMAIN net, WareOutcome!Unconfirmed(i)
      PROVE  DOMAIN ui' = DOMAIN ui /\ Fewer
  BY <1>0, <1>6 DEF WareOutcome!Unconfirmed
<1>7. ASSUME NEW i \in DOMAIN net, WareOutcome!Deleted(i)
      PROVE  DOMAIN ui' = DOMAIN ui /\ Fewer
  <2> DEFINE S  == DOMAIN ui.items \ {net[i].arg}
             it == WareOutcome!Restrict(ui.items, S)
  <2>1. DOMAIN it = S BY DEF WareOutcome!Restrict
  <2>2. \/ ui' = [ui EXCEPT !.deleting = None]
        \/ \E dr : ui' = [ui EXCEPT !.deleting = None, !.items = it, !.draft = dr]
    BY <1>0, <1>7 DEF WareOutcome!Deleted
  <2> HIDE DEF it
  <2> QED BY <1>0, <2>1, <2>2
<1>8. ASSUME NEW i \in DOMAIN net, WareOutcome!ConfirmedAll(i)
      PROVE  DOMAIN ui' = DOMAIN ui /\ Fewer
  BY <1>0, <1>8 DEF WareOutcome!ConfirmedAll
<1>9. ASSUME NEW i \in DOMAIN net, WareOutcome!UnconfirmedAll(i)
      PROVE  DOMAIN ui' = DOMAIN ui /\ Fewer
  BY <1>0, <1>9 DEF WareOutcome!UnconfirmedAll
<1> QED BY <1>1, <1>2, <1>3, <1>4, <1>5, <1>6, <1>7, <1>8, <1>9 DEF WareOutcome!Next

(***************************************************************************)
(* Editing a write-off                                                     *)
(***************************************************************************)
WriteoffIdShape ==
    DOMAIN ui = {"status", "rows", "lines", "catalog", "loadedLines", "saving", "submitting",
                 "importing", "errors", "thrown"}

OwnRow(r) == /\ r \in WriteoffId!Row
             /\ r.component # None => r.component = r.line
             /\ r.serial => r.line \in Line \ AuxLine

OwnRows(rows) == DOMAIN rows \subseteq {1, 2} /\ \A k \in DOMAIN rows : OwnRow(rows[k])

WriteoffIdInv ==
    /\ WriteoffIdShape /\ IsSeq(net) /\ OwnRows(ui.rows)
    /\ WriteoffId!CatalogRetried

LEMMA EmptyRowsOwn ==
    /\ OwnRow(WriteoffId!emptyWriteoffRow)
    /\ \A ks \in SUBSET {1, 2} : OwnRows(WriteoffId!EmptyRows(ks))
    /\ \A l \in Line \cup {None} : OwnRow([WriteoffId!emptyWriteoffRow EXCEPT !.line = l])
BY DEF OwnRow, OwnRows, WriteoffId!emptyWriteoffRow, WriteoffId!EmptyRows, WriteoffId!Row

LEMMA WriteoffIdMounts ==
    ASSUME WriteoffId!Mount
    PROVE  WriteoffIdInv'
<1>1. ui' = WriteoffId!Fresh /\ IsSeq(net') BY Literal DEF WriteoffId!Mount
<1>2. /\ DOMAIN WriteoffId!Fresh = {"status", "rows", "lines", "catalog", "loadedLines", "saving",
                                    "submitting", "importing", "errors", "thrown"}
      /\ WriteoffId!Fresh.rows = WriteoffId!EmptyRows({1}) /\ WriteoffId!Fresh.loadedLines = {}
  BY DEF WriteoffId!Fresh
<1> QED BY <1>1, <1>2, EmptyRowsOwn DEF WriteoffIdInv, WriteoffIdShape, WriteoffId!CatalogRetried

(* What is asked for is asked for once each, whatever the order.           *)
LEMMA WriteoffIdListed ==
    ASSUME NEW S, IsFiniteSet(S)
    PROVE  IsSeq(WriteoffId!SetToSeq(S)) /\ On(WriteoffId!SetToSeq(S)) = S
<1> DEFINE n == Cardinality(S)
           s == WriteoffId!SetToSeq(S)
<1>1. n \in Nat /\ ExistsBijection(1 .. n, S) BY FS_CardinalityType
<1>2. WriteoffId!Cardinality(S) = n BY DEF WriteoffId!Cardinality, Cardinality
<1>3. \E f \in [1 .. n -> S] : WriteoffId!IsInjective(f)
  BY <1>1 DEF ExistsBijection, Bijection, Injection, IsInjective, WriteoffId!IsInjective
<1>4. s \in [1 .. n -> S] /\ WriteoffId!IsInjective(s)
  BY <1>2, <1>3 DEF WriteoffId!SetToSeq
<1> HIDE DEF s
<1>5. s \in Injection(1 .. n, S) BY <1>4 DEF Injection, IsInjective, WriteoffId!IsInjective
<1>6. Cardinality(1 .. n) = n BY <1>1, FS_Interval
<1>7. s \in Surjection(1 .. n, S) BY <1>5, <1>6, FS_Injection
<1>8. On(s) = S BY <1>4, <1>7 DEF On, Surjection
<1>9. s \in Seq(S) BY <1>1, <1>4, SeqDef
<1> HIDE DEF n
<1> QED BY <1>8, <1>9, SeqOfMembers DEF s

LEMMA CatalogAsked ==
    ASSUME NEW ls, IsFiniteSet(ls)
    PROVE  /\ IsSeq(WriteoffId!CatalogCalls(ls))
           /\ On(WriteoffId!CatalogCalls(ls)) = {WriteoffId!Call("catalog", l) : l \in ls}
<1> DEFINE S == {WriteoffId!Call("catalog", l) : l \in ls}
           f == [l \in ls |-> WriteoffId!Call("catalog", l)]
<1>1. f \in Surjection(ls, S) BY DEF Surjection
<1>2. IsFiniteSet(S) BY <1>1, FS_Surjection
<1> QED BY <1>2, WriteoffIdListed DEF WriteoffId!CatalogCalls

(* The lines whose catalogue a step asks for are marked with it; of the    *)
(* calls that are answered none is for a catalogue.                        *)
LEMMA CatalogMarked ==
    ASSUME WriteoffIdInv, NEW gone, NEW c, IsSeq(c), Follows(net', net, gone, c),
           \A j \in gone : net[j].op # "catalog",
           ui'.catalog = ui.catalog,
           \A l \in ui'.loadedLines : l \in ui.loadedLines \/ WriteoffId!Call("catalog", l) \in On(c)
    PROVE  IsSeq(net') /\ WriteoffId!CatalogRetried'
<1>1. ASSUME NEW l, NEW x \in On(net'), x.op = "catalog", x.arg = l
      PROVE  WriteoffId!Waiting("catalog", l)'
  BY <1>1 DEF On, WriteoffId!Waiting
<1>2. ASSUME NEW l \in ui'.loadedLines, l \notin ui'.catalog
      PROVE  WriteoffId!Waiting("catalog", l)'
  <2>1. CASE WriteoffId!Call("catalog", l) \in On(c)
    <3>1. WriteoffId!Call("catalog", l) \in On(net') BY <2>1 DEF Follows
    <3> QED BY <1>1, <3>1 DEF WriteoffId!Call
  <2>2. CASE l \in ui.loadedLines
    <3>1. PICK j \in DOMAIN net : net[j].op = "catalog" /\ net[j].arg = l
      BY <1>2, <2>2 DEF WriteoffIdInv, WriteoffId!CatalogRetried, WriteoffId!Waiting
    <3>2. net[j] \in On(net') BY <3>1 DEF Follows
    <3> QED BY <1>1, <3>1, <3>2
  <2> QED BY <2>1, <2>2
<1> QED BY <1>2 DEF Follows, WriteoffId!CatalogRetried

LEMMA WriteoffIdAnswers ==
    ASSUME IsSeq(net), NEW i, NEW op, NEW c, IsSeq(c), WriteoffId!Answered(i, op, c)
    PROVE  i \in DOMAIN net /\ net[i].op = op /\ Follows(net', net, {i}, c)
BY Answering DEF WriteoffId!Answered, WriteoffId!Others

LEMMA WriteoffIdPosts ==
    ASSUME IsSeq(net), NEW c, IsSeq(c), WriteoffId!Posts(c)
    PROVE  Follows(net', net, {}, c)
BY Posting DEF WriteoffId!Posts

(* A step that posts or answers calls, but none for a catalogue, and       *)
(* changes neither the rows nor the catalogues.                            *)
LEMMA OtherCalls ==
    ASSUME WriteoffIdInv, NEW gone, NEW c, IsSeq(c), Follows(net', net, gone, c),
           \A j \in gone : net[j].op # "catalog", WriteoffIdShape',
           ui'.rows = ui.rows, ui'.catalog = ui.catalog, ui'.loadedLines = ui.loadedLines
    PROVE  WriteoffIdInv'
<1>1. IsSeq(net') /\ WriteoffId!CatalogRetried' BY CatalogMarked
<1> QED BY <1>1 DEF WriteoffIdInv

(* A step that changes the rows only.                                      *)
LEMMA RowsEdited ==
    ASSUME WriteoffIdInv, net' = net, WriteoffIdShape', OwnRows(ui'.rows),
           ui'.catalog = ui.catalog, ui'.loadedLines = ui.loadedLines
    PROVE  WriteoffIdInv'
BY DEF WriteoffIdInv, WriteoffId!CatalogRetried, WriteoffId!Waiting

LEMMA WriteoffIdEdits ==
    ASSUME WriteoffIdInv, WriteoffId!Edits
    PROVE  WriteoffIdInv'
<1>0. IsSeq(net) /\ WriteoffIdShape /\ OwnRows(ui.rows) BY DEF WriteoffIdInv
<1> USE DEF WriteoffIdShape
<1>o. \A op, arg : IsSeq(<<WriteoffId!Call(op, arg)>>) BY Literal
<1>1. ASSUME NEW k, WriteoffId!ChooseComponent(k) PROVE WriteoffIdInv'
  <2>1. /\ ui' = [ui EXCEPT !.rows[k].component = ui.rows[k].line] /\ net' = net
        /\ k \in DOMAIN ui.rows /\ ui.rows[k].line \in ui.catalog
    BY <1>1 DEF WriteoffId!ChooseComponent
  <2>2. WriteoffIdShape' /\ ui'.catalog = ui.catalog /\ ui'.loadedLines = ui.loadedLines
        /\ ui'.rows = [ui.rows EXCEPT ![k].component = ui.rows[k].line]
    BY <1>0, <2>1
  <2>3. OwnRow(ui.rows[k]) BY <1>0, <2>1 DEF OwnRows
  <2>4. OwnRow([ui.rows[k] EXCEPT !.component = ui.rows[k].line]) BY <2>3 DEF OwnRow, WriteoffId!Row
  <2>5. OwnRows(ui'.rows) BY <1>0, <2>1, <2>2, <2>4 DEF OwnRows
  <2> QED BY <2>1, <2>2, <2>5, RowsEdited
<1>2. ASSUME NEW k, WriteoffId!TypeSerial(k) PROVE WriteoffIdInv'
  <2>1. PICK s \in BOOLEAN : ui' = [ui EXCEPT !.rows[k].serial = s]
    BY <1>2 DEF WriteoffId!TypeSerial
  <2>2. net' = net /\ k \in DOMAIN ui.rows /\ ui.rows[k].line \in Line \ AuxLine
    BY <1>2 DEF WriteoffId!TypeSerial
  <2>3. WriteoffIdShape' /\ ui'.catalog = ui.catalog /\ ui'.loadedLines = ui.loadedLines
        /\ ui'.rows = [ui.rows EXCEPT ![k].serial = s]
    BY <1>0, <2>1
  <2>4. OwnRow(ui.rows[k]) BY <1>0, <2>2 DEF OwnRows
  <2>5. OwnRow([ui.rows[k] EXCEPT !.serial = s]) BY <2>2, <2>4 DEF OwnRow, WriteoffId!Row
  <2>6. OwnRows(ui'.rows) BY <1>0, <2>2, <2>3, <2>5 DEF OwnRows
  <2> QED BY <2>2, <2>3, <2>6, RowsEdited
<1>3. ASSUME NEW k \in {1, 2}, WriteoffId!addRow(k) PROVE WriteoffIdInv'
  <2>1. /\ net' = net
        /\ ui' = [ui EXCEPT !.rows = [r \in {k} \cup DOMAIN ui.rows |->
                                        IF r = k THEN WriteoffId!emptyWriteoffRow ELSE ui.rows[r]]]
    BY <1>3 DEF WriteoffId!addRow
  <2>2. WriteoffIdShape' /\ ui'.catalog = ui.catalog /\ ui'.loadedLines = ui.loadedLines
        /\ ui'.rows = [r \in {k} \cup DOMAIN ui.rows |->
                         IF r = k THEN WriteoffId!emptyWriteoffRow ELSE ui.rows[r]]
    BY <1>0, <2>1
  <2>3. OwnRows(ui'.rows) BY <1>0, <2>2, EmptyRowsOwn DEF OwnRows
  <2> QED BY <2>1, <2>2, <2>3, RowsEdited
<1>4. ASSUME NEW k \in {1, 2}, WriteoffId!removeRow(k) PROVE WriteoffIdInv'
  <2> DEFINE rs == IF DOMAIN ui.rows = {k} THEN WriteoffId!EmptyRows({k})
                   ELSE WriteoffId!Restrict(ui.rows, DOMAIN ui.rows \ {k})
  <2>1. net' = net /\ ui' = [ui EXCEPT !.rows = rs] BY <1>4 DEF WriteoffId!removeRow
  <2>2. OwnRows(rs)
    <3>1. OwnRows(WriteoffId!EmptyRows({k})) BY EmptyRowsOwn
    <3>2. OwnRows(WriteoffId!Restrict(ui.rows, DOMAIN ui.rows \ {k}))
      BY <1>0 DEF OwnRows, WriteoffId!Restrict
    <3> QED BY <3>1, <3>2
  <2> HIDE DEF rs
  <2>3. WriteoffIdShape' /\ ui'.catalog = ui.catalog /\ ui'.loadedLines = ui.loadedLines /\ ui'.rows = rs
    BY <1>0, <2>1
  <2> QED BY <2>1, <2>2, <2>3, RowsEdited
<1>5. ASSUME NEW k, NEW l \in Line \cup {None}, WriteoffId!ChooseLine(k, l) PROVE WriteoffIdInv'
  <2> DEFINE aux == WriteoffId!loadCatalog({l} \cap AuxLine)
             c   == WriteoffId!CatalogCalls(aux)
             row == [WriteoffId!emptyWriteoffRow EXCEPT !.line = l]
  <2>1. /\ WriteoffId!Posts(c) /\ k \in DOMAIN ui.rows
        /\ ui' = [ui EXCEPT !.loadedLines = @ \cup aux, !.rows[k] = row]
    BY <1>5 DEF WriteoffId!ChooseLine
  <2>2. IsFiniteSet(aux)
    <3>1. IsFiniteSet({l}) /\ aux \in SUBSET {l} BY FS_Singleton DEF WriteoffId!loadCatalog
    <3> QED BY <3>1, FS_Subset
  <2> HIDE DEF aux
  <2>3. IsSeq(c) /\ On(c) = {WriteoffId!Call("catalog", m) : m \in aux} BY <2>2, CatalogAsked
  <2> HIDE DEF c, row
  <2>4. WriteoffIdShape' /\ ui'.catalog = ui.catalog /\ ui'.loadedLines = ui.loadedLines \cup aux
        /\ ui'.rows = [ui.rows EXCEPT ![k] = row]
    BY <1>0, <2>1
  <2>5. Follows(net', net, {}, c) BY <1>0, <2>1, <2>3, WriteoffIdPosts
  <2>6. IsSeq(net') /\ WriteoffId!CatalogRetried' BY <2>3, <2>4, <2>5, CatalogMarked
  <2>7. OwnRow(row) BY EmptyRowsOwn DEF row
  <2>8. OwnRows(ui'.rows) BY <1>0, <2>1, <2>4, <2>7 DEF OwnRows
  <2> QED BY <2>4, <2>6, <2>8 DEF WriteoffIdInv
<1>6. ASSUME NEW op, NEW arg, WriteoffId!Post(op, arg),
             \/ ui' = ui
             \/ \E b : ui' = [ui EXCEPT !.saving = b]
             \/ \E b : ui' = [ui EXCEPT !.submitting = b]
             \/ \E b : ui' = [ui EXCEPT !.importing = b]
      PROVE  WriteoffIdInv'
  <2>1. Follows(net', net, {}, <<WriteoffId!Call(op, arg)>>)
    BY <1>0, <1>6, <1>o, WriteoffIdPosts DEF WriteoffId!Post
  <2>2. WriteoffIdShape' /\ ui'.catalog = ui.catalog /\ ui'.loadedLines = ui.loadedLines
        /\ ui'.rows = ui.rows
    BY <1>0, <1>6
  <2> QED BY <1>o, <2>1, <2>2, OtherCalls
<1>7. CASE WriteoffId!saveRows \/ WriteoffId!submitDocument \/ WriteoffId!deleteDocument \/ WriteoffId!onDrop
  BY <1>6, <1>7 DEF WriteoffId!saveRows, WriteoffId!submitDocument, WriteoffId!deleteDocument, WriteoffId!onDrop
<1> QED BY <1>1, <1>2, <1>3, <1>4, <1>5, <1>7 DEF WriteoffId!Edits, WriteoffId!Key

LEMMA WriteoffIdKeeps ==
    ASSUME WriteoffIdInv, WriteoffId!Next
    PROVE  WriteoffIdInv'
<1>0. IsSeq(net) /\ WriteoffIdShape /\ OwnRows(ui.rows) BY DEF WriteoffIdInv
<1> USE DEF WriteoffIdShape
<1> DEFINE Rest == WriteoffIdShape' /\ ui'.catalog = ui.catalog /\ ui'.loadedLines = ui.loadedLines
                   /\ ui'.rows = ui.rows
<1>o. \A op, arg : IsSeq(<<WriteoffId!Call(op, arg)>>) BY Literal
<1>a. ASSUME NEW i, NEW op, NEW op2, op # "catalog",
             WriteoffId!Ends(i, op) \/ WriteoffId!Answered(i, op, <<WriteoffId!Call(op2, None)>>), Rest
      PROVE  WriteoffIdInv'
  <2>1. CASE WriteoffId!Ends(i, op)
    <3>1. net[i].op = op /\ Follows(net', net, {i}, <<>>)
      BY <1>0, <2>1, Literal, WriteoffIdAnswers DEF WriteoffId!Ends
    <3> QED BY <1>a, <3>1, Literal, OtherCalls
  <2>2. CASE WriteoffId!Answered(i, op, <<WriteoffId!Call(op2, None)>>)
    <3>1. net[i].op = op /\ Follows(net', net, {i}, <<WriteoffId!Call(op2, None)>>)
      BY <1>0, <1>o, <2>2, WriteoffIdAnswers
    <3> QED BY <1>a, <1>o, <3>1, OtherCalls
  <2> QED BY <1>a, <2>1, <2>2
<1>1. CASE WriteoffId!Edits BY <1>1, WriteoffIdEdits
<1>2. CASE WriteoffId!CloseErrors
  <2>1. Rest /\ net' = net BY <1>0, <1>2 DEF WriteoffId!CloseErrors
  <2> QED BY <1>0, <2>1, RowsEdited
<1>3. ASSUME NEW i, WriteoffId!LinesLoaded(i) PROVE WriteoffIdInv'
  <2>1. Rest /\ WriteoffId!Ends(i, "lines") BY <1>0, <1>3 DEF WriteoffId!LinesLoaded
  <2> QED BY <1>a, <2>1
<1>4. ASSUME NEW i, WriteoffId!CatalogLoaded(i) PROVE WriteoffIdInv'
  <2>1. i \in DOMAIN net /\ Follows(net', net, {i}, <<>>)
    BY <1>0, <1>4, Literal, WriteoffIdAnswers DEF WriteoffId!CatalogLoaded, WriteoffId!Ends
  <2>2. /\ WriteoffIdShape' /\ ui'.rows = ui.rows
        /\ ui'.loadedLines \subseteq ui.loadedLines /\ ui.catalog \subseteq ui'.catalog
        /\ net[i].arg \in ui'.loadedLines => net[i].arg \in ui'.catalog
    BY <1>0, <1>4 DEF WriteoffId!CatalogLoaded
  <2>3. ASSUME NEW l \in ui'.loadedLines, l \notin ui'.catalog
        PROVE  WriteoffId!Waiting("catalog", l)'
    <3>1. PICK j \in DOMAIN net : net[j].op = "catalog" /\ net[j].arg = l
      BY <2>2, <2>3 DEF WriteoffIdInv, WriteoffId!CatalogRetried, WriteoffId!Waiting
    <3>2. j # i BY <2>2, <2>3, <3>1
    <3>3. net[j] \in On(net') BY <2>1, <3>2 DEF Follows
    <3> QED BY <3>1, <3>3 DEF On, WriteoffId!Waiting
  <2>4. IsSeq(net') BY <2>1 DEF Follows
  <2> QED BY <1>0, <2>2, <2>3, <2>4 DEF WriteoffIdInv, WriteoffId!CatalogRetried
<1>5. ASSUME NEW i, WriteoffId!loadDocument(i) PROVE WriteoffIdInv'
  <2>1. CASE WriteoffId!Ends(i, "document") /\ UNCHANGED ui
    <3>1. Rest BY <1>0, <2>1
    <3> QED BY <1>a, <2>1, <3>1
  <2>2. ASSUME NEW status, NEW keys \in SUBSET {1, 2},
               NEW saved \in [keys -> {r \in WriteoffId!Row : WriteoffId!documentItemToRow(r)}],
               WriteoffId!DocumentRead(i, status, saved)
        PROVE  WriteoffIdInv'
    <3> DEFINE aux  == WriteoffId!loadCatalog(WriteoffId!AuxLines(saved))
               rows == IF DOMAIN saved = {} THEN WriteoffId!EmptyRows({1}) ELSE saved
    <3>0. /\ WriteoffId!Answered(i, "document", WriteoffId!CatalogCalls(aux))
          /\ ui' = [ui EXCEPT !.status = status, !.loadedLines = @ \cup aux, !.rows = rows]
      BY <2>2 DEF WriteoffId!DocumentRead
    <3>1. IsFiniteSet(aux)
      <4> DEFINE S == {saved[k].line : k \in keys}
                 f == [k \in keys |-> saved[k].line]
      <4>1. f \in Surjection(keys, S) BY DEF Surjection
      <4>2. IsFiniteSet({1, 2})
        <5>1. IsFiniteSet({1} \cup {2}) BY FS_Singleton, FS_AddElement
        <5>2. {1, 2} = {1} \cup {2} OBVIOUS
        <5> QED BY <5>1, <5>2
      <4>3. IsFiniteSet(keys) BY <4>2, FS_Subset
      <4>4. IsFiniteSet(S) BY <4>1, <4>3, FS_Surjection
      <4>5. aux \in SUBSET S BY DEF WriteoffId!loadCatalog, WriteoffId!AuxLines
      <4> HIDE DEF S
      <4> QED BY <4>4, <4>5, FS_Subset
    <3> HIDE DEF aux, rows
    <3> DEFINE c == WriteoffId!CatalogCalls(aux)
    <3>2. IsSeq(c) /\ On(c) = {WriteoffId!Call("catalog", m) : m \in aux} BY <3>1, CatalogAsked
    <3> HIDE DEF c
    <3>3. net[i].op = "document" /\ Follows(net', net, {i}, c)
      BY <1>0, <3>0, <3>2, WriteoffIdAnswers DEF c
    <3>4. WriteoffIdShape' /\ ui'.catalog = ui.catalog /\ ui'.loadedLines = ui.loadedLines \cup aux
          /\ ui'.rows = rows
      BY <1>0, <3>0
    <3>5. IsSeq(net') /\ WriteoffId!CatalogRetried' BY <3>2, <3>3, <3>4, CatalogMarked
    <3>6. OwnRows(rows)
      <4>1. OwnRows(WriteoffId!EmptyRows({1})) BY EmptyRowsOwn
      <4>2. \A k \in keys : OwnRow(saved[k]) BY DEF OwnRow, WriteoffId!documentItemToRow, WriteoffId!Row
      <4>3. OwnRows(saved) BY <4>2 DEF OwnRows
      <4> QED BY <4>1, <4>3 DEF rows
    <3> QED BY <3>4, <3>5, <3>6 DEF WriteoffIdInv
  <2> QED BY <1>5, <2>1, <2>2 DEF WriteoffId!loadDocument, WriteoffId!Key
<1>6. ASSUME NEW i, WriteoffId!Saved(i) PROVE WriteoffIdInv'
  <2>1. Rest BY <1>0, <1>6 DEF WriteoffId!Saved
  <2> QED BY <1>a, <1>6, <2>1 DEF WriteoffId!Saved
<1>7. ASSUME NEW i, WriteoffId!SubmitSaved(i) PROVE WriteoffIdInv'
  <2>1. Rest BY <1>0, <1>7 DEF WriteoffId!SubmitSaved
  <2> QED BY <1>a, <1>7, <2>1 DEF WriteoffId!SubmitSaved
<1>8. ASSUME NEW i, WriteoffId!Submitted(i) PROVE WriteoffIdInv'
  <2>1. Rest BY <1>0, <1>8 DEF WriteoffId!Submitted
  <2> QED BY <1>a, <1>8, <2>1 DEF WriteoffId!Submitted
<1>9. ASSUME NEW i, WriteoffId!DocumentDeleted(i) PROVE WriteoffIdInv'
  <2>1. Rest BY <1>0, <1>9 DEF WriteoffId!DocumentDeleted
  <2> QED BY <1>a, <1>9, <2>1 DEF WriteoffId!DocumentDeleted
<1>10. ASSUME NEW i, WriteoffId!uploadWriteoffImport(i) PROVE WriteoffIdInv'
  <2>1. Rest BY <1>0, <1>10 DEF WriteoffId!uploadWriteoffImport
  <2> QED BY <1>a, <1>10, <2>1 DEF WriteoffId!uploadWriteoffImport
<1> QED BY <1>1, <1>2, <1>3, <1>4, <1>5, <1>6, <1>7, <1>8, <1>9, <1>10 DEF WriteoffId!Next

LEMMA WriteoffIdShows ==
    WriteoffIdInv => WriteoffId!CatalogRetried /\ WriteoffId!RowOfItsLine
BY DEF WriteoffIdInv, OwnRows, OwnRow, WriteoffId!RowOfItsLine

(***************************************************************************)
(* The month's plan                                                        *)
(***************************************************************************)
PlanShape == DOMAIN ui = {"grid", "today"} /\ DOMAIN ui.grid = DOMAIN Plan!Grid(None)

(* Only until the month is read again may the rows and what they are       *)
(* compared with be of two lines.                                          *)
PlanInv ==
    /\ PlanShape /\ IsSeq(net)
    /\ ui.grid.snapshot.line = ui.grid.data.line \/ Plan!OnTheWay("month")

LEMMA PlanMounts ==
    ASSUME Plan!Mount
    PROVE  PlanInv'
<1>1. PICK l \in Line : ui' = Plan!Fresh(l) /\ net' = <<Plan!loadMonth(l, "nothing")>>
  BY DEF Plan!Mount
<1>2. /\ DOMAIN Plan!Fresh(l) = {"grid", "today"} /\ Plan!Fresh(l).grid = Plan!Grid(l)
      /\ Plan!Grid(l).snapshot.line = None /\ Plan!Grid(l).data.line = None
      /\ DOMAIN Plan!Grid(l) = DOMAIN Plan!Grid(None)
  BY DEF Plan!Fresh, Plan!Grid, Plan!NoData
<1>3. IsSeq(net') BY <1>1, Literal
<1> QED BY <1>1, <1>2, <1>3 DEF PlanInv, PlanShape

(* What an answer, and a post, make of the calls on the way.               *)
LEMMA PlanAnswers ==
    ASSUME IsSeq(net), NEW i, NEW op, NEW c, IsSeq(c), Plan!Answered(i, op, c)
    PROVE  i \in DOMAIN net /\ net[i].op = op /\ Follows(net', net, {i}, c)
BY Answering DEF Plan!Answered, Plan!Others

LEMMA PlanPosts ==
    ASSUME IsSeq(net), NEW c, IsSeq(c), Plan!Posts(c)
    PROVE  Follows(net', net, {}, c)
BY Posting DEF Plan!Posts

(* A step of the grid that leaves the calls alone, and one that posts or   *)
(* takes calls.                                                            *)
LEMMA PlanEdits ==
    ASSUME PlanInv, net' = net, PlanShape',
           ui'.grid.snapshot = ui.grid.snapshot, ui'.grid.data = ui.grid.data
    PROVE  PlanInv'
BY DEF PlanInv, PlanShape, Plan!OnTheWay

LEMMA PlanCalls ==
    ASSUME PlanInv, NEW gone, NEW c, IsSeq(c), Follows(net', net, gone, c), PlanShape',
           \/ \E a \in On(c) : a.op = "month"
           \/ ui'.grid.snapshot.line = ui'.grid.data.line
           \/ /\ \A j \in gone : net[j].op # "month"
              /\ ui'.grid.snapshot.line = ui.grid.snapshot.line
              /\ ui'.grid.data.line = ui.grid.data.line
    PROVE  PlanInv'
<1>1. IsSeq(net') /\ PlanShape' BY DEF Follows
<1>2. \A a \in On(net') : a.op = "month" => Plan!OnTheWay("month")' BY DEF On, Plan!OnTheWay
<1>3. ui'.grid.snapshot.line = ui'.grid.data.line \/ Plan!OnTheWay("month")'
  <2>1. CASE \E a \in On(c) : a.op = "month" BY <1>2, <2>1 DEF Follows
  <2>2. CASE /\ \A j \in gone : net[j].op # "month"
             /\ ui'.grid.snapshot.line = ui.grid.snapshot.line
             /\ ui'.grid.data.line = ui.grid.data.line
    <3>1. CASE Plan!OnTheWay("month")
      <4>1. PICK j \in DOMAIN net : net[j].op = "month" BY <3>1 DEF Plan!OnTheWay
      <4>2. j \in DOMAIN net \ gone BY <2>2, <4>1
      <4>3. net[j] \in On(net') BY <4>2 DEF Follows
      <4> QED BY <1>2, <4>1, <4>3
    <3> QED BY <2>2, <3>1 DEF PlanInv
  <2> QED BY <2>1, <2>2
<1> QED BY <1>1, <1>3 DEF PlanInv

LEMMA PlanKeeps ==
    ASSUME PlanInv, Plan!Next
    PROVE  PlanInv'
<1>0. /\ IsSeq(net) /\ DOMAIN ui = {"grid", "today"}
      /\ DOMAIN ui.grid = {"line", "data", "rows", "snapshot", "dirty", "loading", "saving", "locking"}
  BY DEF PlanInv, PlanShape, Plan!Grid
<1> DEFINE Shape == /\ DOMAIN ui' = {"grid", "today"}
                    /\ DOMAIN ui'.grid = {"line", "data", "rows", "snapshot", "dirty", "loading", "saving", "locking"}
           Same  == ui'.grid.snapshot = ui.grid.snapshot /\ ui'.grid.data = ui.grid.data
<1>s. Shape => PlanShape' BY DEF PlanShape, Plan!Grid
<1>c. \A op, a : Plan!Call(op, a).op = op BY DEF Plan!Call
<1>m. \A l, then : LET c == <<Plan!loadMonth(l, then)>>
                   IN IsSeq(c) /\ \E a \in On(c) : a.op = "month"
  BY <1>c, Literal DEF Plan!loadMonth
<1>o. \A op, arg : IsSeq(<<Plan!Call(op, arg)>>) BY Literal
<1>1. ASSUME NEW i \in PlanItem,
             \/ Plan!updateAllowOverplan(i) \/ Plan!addRow(i) \/ Plan!removeRow(i)
             \/ \E d \in Day : Plan!updatePlannedQty(i, d)
      PROVE  PlanInv'
  <2>1. \E rs : Plan!EditRows(rs)
    BY <1>1 DEF Plan!updateAllowOverplan, Plan!addRow, Plan!removeRow, Plan!updatePlannedQty
  <2>2. PICK rs : Plan!EditRows(rs) BY <2>1
  <2>3. net' = net /\ Shape /\ Same BY <1>0, <2>2 DEF Plan!EditRows
  <2> QED BY <1>s, <2>3, PlanEdits
<1>2. ASSUME NEW l \in Line, Plan!setLineId(l) PROVE PlanInv'
  <2>1. Shape BY <1>0, <1>2 DEF Plan!setLineId
  <2>2. Follows(net', net, {}, <<Plan!loadMonth(l, "nothing")>>)
    BY <1>0, <1>2, <1>m, PlanPosts DEF Plan!setLineId
  <2> QED BY <1>m, <1>s, <2>1, <2>2, PlanCalls
<1>3. CASE Plan!RefreshMonth
  <2>1. Shape BY <1>0, <1>3 DEF Plan!RefreshMonth
  <2>2. Follows(net', net, {}, <<Plan!loadMonth(Plan!g.line, "nothing")>>)
    BY <1>0, <1>3, <1>m, PlanPosts DEF Plan!RefreshMonth
  <2> QED BY <1>m, <1>s, <2>1, <2>2, PlanCalls
<1>4. ASSUME NEW then, Plan!savePlanCells(then) PROVE PlanInv'
  <2>1. Shape /\ Same BY <1>0, <1>4 DEF Plan!savePlanCells
  <2>2. PICK a : Plan!Posts(<<Plan!Call("save", a)>>) BY <1>4 DEF Plan!savePlanCells, Plan!Post
  <2>3. Follows(net', net, {}, <<Plan!Call("save", a)>>) BY <1>0, <1>o, <2>2, PlanPosts
  <2> QED BY <1>o, <1>s, <2>1, <2>3, PlanCalls
<1>5. CASE Plan!lockDay
  <2>1. CASE Plan!savePlanCells("lock") BY <1>4, <2>1
  <2>2. CASE Plan!Posts(<<Plan!LockCall(Plan!g.line)>>) /\ ui' = [ui EXCEPT !.grid.locking = TRUE]
    <3>1. Plan!Posts(<<Plan!Call("lock", Plan!g.line)>>) /\ ui' = [ui EXCEPT !.grid.locking = TRUE]
      BY <2>2 DEF Plan!LockCall
    <3>2. Shape /\ Same BY <1>0, <3>1
    <3>3. Follows(net', net, {}, <<Plan!Call("lock", Plan!g.line)>>) BY <1>0, <1>o, <3>1, PlanPosts
    <3> QED BY <1>o, <1>s, <3>2, <3>3, PlanCalls
  <2> QED BY <1>5, <2>1, <2>2 DEF Plan!lockDay
<1>6. CASE Plan!unlockDay
  <2>1. Shape /\ Same BY <1>0, <1>6 DEF Plan!unlockDay
  <2>2. Follows(net', net, {}, <<Plan!Call("unlock", Plan!g.line)>>)
    BY <1>0, <1>6, <1>o, PlanPosts DEF Plan!unlockDay, Plan!Post
  <2> QED BY <1>o, <1>s, <2>1, <2>2, PlanCalls
<1>7. CASE Plan!handleSave BY <1>4, <1>7 DEF Plan!handleSave
<1>8. CASE Plan!todayDateInput
  <2>1. Shape /\ ui'.grid = ui.grid /\ net' = net BY <1>0, <1>8 DEF Plan!todayDateInput
  <2> QED BY <1>s, <2>1, PlanEdits
<1>9. CASE Plan!setYearMonth
  <2>1. PICK l \in Line : ui' = [ui EXCEPT !.grid = Plan!Grid(l)]
                          /\ net' = <<Plan!loadMonth(l, "nothing")>>
    BY <1>9 DEF Plan!setYearMonth
  <2>2. Shape /\ ui'.grid.snapshot.line = ui'.grid.data.line
    BY <1>0, <2>1 DEF Plan!Grid, Plan!NoData
  <2>3. IsSeq(net') BY <1>m, <2>1
  <2> QED BY <1>s, <2>2, <2>3 DEF PlanInv
<1>10. ASSUME NEW i \in DOMAIN net, Plan!Saved(i) PROVE PlanInv'
  <2>1. CASE Plan!Ends(i, "save") /\ ui' = [ui EXCEPT !.grid.saving = FALSE]
    <3>1. Shape /\ Same BY <1>0, <2>1
    <3>2. net[i].op = "save" /\ Follows(net', net, {i}, <<>>)
      BY <1>0, <2>1, Literal, PlanAnswers DEF Plan!Ends
    <3> QED BY <1>s, <3>1, <3>2, Literal, PlanCalls
  <2>2. ASSUME NEW l, NEW then, Plan!Answered(i, "save", <<Plan!loadMonth(l, then)>>),
               ui' = [ui EXCEPT !.grid.saving = FALSE, !.grid.loading = TRUE,
                                !.grid.snapshot = Plan!Sent(i)]
        PROVE  PlanInv'
    <3>1. Shape BY <1>0, <2>2
    <3>2. Follows(net', net, {i}, <<Plan!loadMonth(l, then)>>) BY <1>0, <1>m, <2>2, PlanAnswers
    <3> QED BY <1>m, <1>s, <3>1, <3>2, PlanCalls
  <2> QED BY <1>10, <2>1, <2>2 DEF Plan!Saved
<1>11. ASSUME NEW i \in DOMAIN net, Plan!Locked(i) PROVE PlanInv'
  <2>1. PICK op \in {"lock", "unlock"} :
           \/ Plan!Ends(i, op) /\ ui' = [ui EXCEPT !.grid.locking = FALSE]
           \/ /\ Plan!Answered(i, op, <<Plan!loadMonth(net[i].arg, "nothing")>>)
              /\ ui' = [ui EXCEPT !.grid.locking = FALSE, !.grid.loading = TRUE]
    BY <1>11 DEF Plan!Locked
  <2>2. Shape /\ Same BY <1>0, <2>1
  <2>3. CASE Plan!Ends(i, op)
    <3>1. net[i].op = op /\ Follows(net', net, {i}, <<>>)
      BY <1>0, <2>3, Literal, PlanAnswers DEF Plan!Ends
    <3> QED BY <1>s, <2>2, <3>1, Literal, PlanCalls
  <2>4. CASE Plan!Answered(i, op, <<Plan!loadMonth(net[i].arg, "nothing")>>)
    <3>1. Follows(net', net, {i}, <<Plan!loadMonth(net[i].arg, "nothing")>>)
      BY <1>0, <1>m, <2>4, PlanAnswers
    <3> QED BY <1>m, <1>s, <2>2, <3>1, PlanCalls
  <2> QED BY <2>1, <2>3, <2>4
<1>12. ASSUME NEW i \in DOMAIN net, Plan!MonthLoaded(i) PROVE PlanInv'
  <2> DEFINE lock == net[i].arg.then = "lock"
             c    == IF lock THEN <<Plan!LockCall(net[i].arg.line)>> ELSE <<>>
  <2>1. PICK s \in Plan!Shown(net[i].arg.line) :
           ui' = [ui EXCEPT !.grid = IF lock THEN [s EXCEPT !.locking = TRUE] ELSE s]
    BY <1>12 DEF Plan!MonthLoaded
  <2>2. /\ DOMAIN s = {"line", "data", "rows", "snapshot", "dirty", "loading", "saving", "locking"}
        /\ s.snapshot.line = s.data.line
    <3> DEFINE l == net[i].arg.line
               none == [ui.grid EXCEPT !.loading = FALSE, !.dirty = FALSE, !.data = Plan!NoData,
                                       !.rows = <<>>, !.snapshot = [line |-> None, rows |-> <<>>]]
               some(m) == [ui.grid EXCEPT !.loading = FALSE, !.dirty = FALSE, !.rows = m.rows,
                                          !.data = [line |-> l, locked |-> m.locked],
                                          !.snapshot = [line |-> l, rows |-> m.rows]]
               Right(r) == /\ DOMAIN r = {"line", "data", "rows", "snapshot", "dirty", "loading", "saving", "locking"}
                           /\ r.snapshot.line = r.data.line
    <3>1. Right(none) BY <1>0 DEF Plan!NoData
    <3>2. \A m : Right(some(m)) BY <1>0
    <3>3. s \in {none} \cup {some(m) : m \in [locked: SUBSET Day, rows: Plan!Rows]}
      BY <2>1 DEF Plan!Shown, Plan!g
    <3> HIDE DEF none, some, Right
    <3>4. s = none \/ \E m : s = some(m) BY <3>3
    <3>5. Right(s) BY <3>1, <3>2, <3>4
    <3> QED BY <3>5 DEF Right
  <2>3. Shape /\ ui'.grid.snapshot.line = ui'.grid.data.line
    BY <1>0, <2>1, <2>2
  <2>4. IsSeq(c) BY <1>o, Literal DEF Plan!LockCall
  <2>5. Follows(net', net, {i}, c) BY <1>0, <1>12, <2>4, PlanAnswers DEF Plan!MonthLoaded
  <2> HIDE DEF c
  <2> QED BY <1>s, <2>3, <2>4, <2>5, PlanCalls
<1> QED BY <1>1, <1>2, <1>3, <1>5, <1>6, <1>7, <1>8, <1>9, <1>10, <1>11, <1>12 DEF Plan!Next

LEMMA PlanSettles == PlanInv => Plan!GridSettles
BY DEF PlanInv, Plan!GridSettles, Plan!g

(***************************************************************************)
(* The elements of a label                                                 *)
(***************************************************************************)
EditorFields == {"loading", "elements", "made", "selectedIds", "table", "saving", "uploadingImage"}

(* An editor that can be worked with.                                      *)
EditorShape(s) == DOMAIN s = EditorFields /\ s.made \in Nat /\ DOMAIN s.elements \subseteq 1 .. s.made

(* Until the template is there nothing can be selected, and nothing else   *)
(* is on its way that could select it.                                     *)
LabelEditorInv ==
    /\ EditorShape(ui) /\ IsSeq(net) /\ Single(net, {"get"})
    /\ ui.loading => ui.selectedIds = {} /\ ~ui.table /\ Free(net, {"image", "save"})
    /\ ~ui.loading => Free(net, {"get"})

LEMMA LabelEditorMounts ==
    ASSUME LabelEditor!Mount
    PROVE  LabelEditorInv'
<1>1. ui' = LabelEditor!Fresh /\ net' = <<LabelEditor!Call("get", 0)>> BY DEF LabelEditor!Mount
<1>2. IsSeq(net') /\ Single(net', {"get"}) /\ Free(net', {"image", "save"})
  BY <1>1, Literal DEF LabelEditor!Call
<1> QED BY <1>1, <1>2 DEF LabelEditorInv, EditorShape, EditorFields, LabelEditor!Fresh

LEMMA LabelEditorAnswers ==
    ASSUME IsSeq(net), NEW i, NEW op, NEW c, IsSeq(c), LabelEditor!Answered(i, op, c)
    PROVE  i \in DOMAIN net /\ net[i].op = op /\ Follows(net', net, {i}, c)
BY Answering DEF LabelEditor!Answered, LabelEditor!Others

LEMMA LabelEditorPosts ==
    ASSUME IsSeq(net), NEW c, IsSeq(c), LabelEditor!Posts(c)
    PROVE  Follows(net', net, {}, c)
BY Posting DEF LabelEditor!Posts

(* A selection with the groups of its elements is whole.                   *)
LEMMA Expanded ==
    ASSUME NEW s, NEW ids, ids \subseteq DOMAIN s.elements,
           s.selectedIds = LabelEditor!expandSelectionWithGroups(s.elements, ids)
    PROVE  LabelEditor!Whole(s)
BY DEF LabelEditor!Whole, LabelEditor!expandSelectionWithGroups, LabelEditor!groupOf

(* What it means that a selection is whole.                                *)
LEMMA WholeMeans ==
    ASSUME NEW s
    PROVE  LabelEditor!Whole(s) <=>
              /\ s.selectedIds \subseteq DOMAIN s.elements
              /\ \A e \in DOMAIN s.elements, f \in s.selectedIds :
                    /\ s.elements[e].groupId = s.elements[f].groupId
                    /\ s.elements[f].groupId # 0
                    => e \in s.selectedIds
BY DEF LabelEditor!Whole, LabelEditor!expandSelectionWithGroups, LabelEditor!groupOf, LabelEditor!NoGroup

LEMMA Appended ==
    ASSUME NEW s, EditorShape(s), NEW k, NEW r, r = LabelEditor!appendElement(s, k)
    PROVE  /\ EditorShape(r) /\ LabelEditor!Whole(r)
           /\ r.loading = s.loading /\ r.table = s.table
<1> DEFINE new == s.made + 1
           els == [e \in DOMAIN s.elements \cup {new} |->
                      IF e \in DOMAIN s.elements THEN s.elements[e]
                      ELSE LabelEditor!Element(k, LabelEditor!NoGroup)]
<1>1. r = [s EXCEPT !.made = s.made + 1, !.elements = els, !.selectedIds = {new}]
  BY DEF LabelEditor!appendElement
<1>2. new \notin DOMAIN s.elements /\ new \in Nat BY DEF EditorShape
<1>3. /\ DOMAIN els = DOMAIN s.elements \cup {new}
      /\ els[new] = LabelEditor!Element(k, LabelEditor!NoGroup)
  BY <1>2
<1> HIDE DEF els
<1>4. /\ DOMAIN r = EditorFields /\ r.made = new /\ r.elements = els /\ r.selectedIds = {new}
      /\ r.loading = s.loading /\ r.table = s.table
  BY <1>1 DEF EditorShape, EditorFields
<1>5. DOMAIN r.elements \subseteq 1 .. r.made BY <1>3, <1>4 DEF EditorShape
<1>6. r.elements[new].groupId = 0 BY <1>3, <1>4 DEF LabelEditor!Element, LabelEditor!NoGroup
<1>7. LabelEditor!Whole(r) BY <1>3, <1>4, <1>6, WholeMeans
<1> QED BY <1>2, <1>4, <1>5, <1>7 DEF EditorShape

(* A step that leaves the calls alone, once the template is there.         *)
LEMMA EditorEdits ==
    ASSUME LabelEditorInv, ~ui.loading, net' = net, EditorShape(ui'), ui'.loading = ui.loading
    PROVE  LabelEditorInv'
BY DEF LabelEditorInv, Single, Free

LEMMA LabelEditorKeeps ==
    ASSUME LabelEditorInv, LabelEditor!Next
    PROVE  LabelEditorInv' /\ LabelEditor!SelectionWhole
<1> DEFINE Sound == LabelEditor!Whole(ui) => LabelEditor!Whole(ui')
           Goal  == LabelEditorInv' /\ LabelEditor!SelectionWhole
<1>0. /\ EditorShape(ui) /\ DOMAIN ui = EditorFields /\ ui.made \in Nat
      /\ DOMAIN ui.elements \subseteq 1 .. ui.made /\ IsSeq(net)
  BY DEF LabelEditorInv, EditorShape
<1>e. ASSUME ~ui.loading, net' = net, EditorShape(ui'), ui'.loading = ui.loading, Sound PROVE Goal
  BY <1>e, EditorEdits DEF LabelEditor!SelectionWhole
(* Only the selection, or the elements too. *)
<1>s. ASSUME NEW ids, ui' = [ui EXCEPT !.selectedIds = ids]
      PROVE  EditorShape(ui') /\ ui'.loading = ui.loading /\ ui'.elements = ui.elements
             /\ ui'.selectedIds = ids
  BY <1>0, <1>s DEF EditorShape, EditorFields
<1>t. ASSUME NEW ids, NEW els, DOMAIN els \subseteq DOMAIN ui.elements,
             ui' = [ui EXCEPT !.elements = els, !.selectedIds = ids]
      PROVE  EditorShape(ui') /\ ui'.loading = ui.loading /\ ui'.elements = els
             /\ ui'.selectedIds = ids
  BY <1>0, <1>t DEF EditorShape, EditorFields
<1>1. ASSUME NEW e, NEW b, LabelEditor!handlePointerDown(e, b) PROVE Goal
  <2> DEFINE clicked == LabelEditor!expandSelectionWithGroups(ui.elements, {e})
             sel     == ui.selectedIds
  <2>1. net' = net /\ ~ui.loading /\ e \in DOMAIN ui.elements
    BY <1>1 DEF LabelEditor!handlePointerDown, LabelEditor!Ready, LabelEditor!Ids
  <2>2. PICK ids \in {sel, clicked, sel \ clicked, sel \cup clicked} : ui' = [ui EXCEPT !.selectedIds = ids]
    BY <1>1 DEF LabelEditor!handlePointerDown, LabelEditor!resolveClickSelection
  <2>3. /\ clicked \subseteq DOMAIN ui.elements /\ e \in clicked
        /\ \A f \in DOMAIN ui.elements : f \in clicked <=>
              f = e \/ (ui.elements[f].groupId = ui.elements[e].groupId /\ ui.elements[e].groupId # 0)
    BY <2>1 DEF LabelEditor!expandSelectionWithGroups, LabelEditor!groupOf, LabelEditor!NoGroup
  <2> HIDE DEF clicked
  <2>4. EditorShape(ui') /\ ui'.loading = ui.loading /\ ui'.elements = ui.elements
        /\ ui'.selectedIds = ids
    BY <1>s, <2>2
  <2>5. Sound
    <3> SUFFICES ASSUME LabelEditor!Whole(ui) PROVE LabelEditor!Whole(ui') OBVIOUS
    <3>1. /\ sel \subseteq DOMAIN ui.elements
          /\ \A x \in DOMAIN ui.elements, f \in sel :
                ui.elements[x].groupId = ui.elements[f].groupId /\ ui.elements[f].groupId # 0
                => x \in sel
      BY WholeMeans
    <3>2. ids \subseteq DOMAIN ui.elements BY <2>2, <2>3, <3>1
    <3>3. ASSUME NEW x \in DOMAIN ui.elements, NEW f \in ids,
                 ui.elements[x].groupId = ui.elements[f].groupId, ui.elements[f].groupId # 0
          PROVE  x \in ids
      <4>1. f \in DOMAIN ui.elements BY <3>2, <3>3
      <4>2. f \in clicked <=> x \in clicked BY <2>3, <3>3, <4>1
      <4>3. f \in sel <=> x \in sel BY <3>1, <3>3, <4>1
      <4> QED BY <2>2, <3>3, <4>2, <4>3
    <3> HIDE DEF sel
    <3> QED BY <2>4, <3>2, <3>3, WholeMeans
  <2> QED BY <1>e, <2>1, <2>4, <2>5
<1>2. ASSUME NEW e, LabelEditor!handleResizePointerDown(e) PROVE Goal
  <2>1. net' = net /\ ui' = ui /\ ~ui.loading
    BY <1>2 DEF LabelEditor!handleResizePointerDown, LabelEditor!Ready
  <2> QED BY <1>0, <1>e, <2>1
<1>n. ASSUME ui'.selectedIds = {} PROVE LabelEditor!Whole(ui')
  BY <1>n, WholeMeans
<1>3. CASE LabelEditor!handleGroupPointerDown
  <2>1. net' = net /\ ~ui.loading /\ ui' = [ui EXCEPT !.selectedIds = {}]
    BY <1>3 DEF LabelEditor!handleGroupPointerDown, LabelEditor!Ready
  <2> QED BY <1>e, <1>n, <1>s, <2>1
<1>4. ASSUME NEW k, LabelEditor!addElementAt(k) PROVE Goal
  <2>1. net' = net /\ ~ui.loading BY <1>4 DEF LabelEditor!addElementAt, LabelEditor!Ready
  <2>2. CASE ui' = [ui EXCEPT !.table = TRUE]
    <3>1. EditorShape(ui') /\ ui'.loading = ui.loading /\ ui'.elements = ui.elements
          /\ ui'.selectedIds = ui.selectedIds
      BY <1>0, <2>2 DEF EditorShape, EditorFields
    <3>2. Sound BY <3>1, WholeMeans
    <3> QED BY <1>e, <2>1, <3>1, <3>2
  <2>3. CASE ui' = LabelEditor!appendElement(ui, k)
    <3>1. EditorShape(ui') /\ LabelEditor!Whole(ui') /\ ui'.loading = ui.loading
      BY <1>0, <2>3, Appended
    <3> QED BY <1>e, <2>1, <3>1
  <2> QED BY <1>4, <2>2, <2>3 DEF LabelEditor!addElementAt
<1>5. CASE LabelEditor!confirmTableCreate
  <2> DEFINE r == LabelEditor!appendElement(ui, "table")
  <2>1. net' = net /\ ~ui.loading /\ ui' = [r EXCEPT !.table = FALSE]
    BY <1>5 DEF LabelEditor!confirmTableCreate, LabelEditorInv
  <2>2. EditorShape(r) /\ LabelEditor!Whole(r) /\ r.loading = ui.loading BY <1>0, Appended
  <2> HIDE DEF r
  <2>3. EditorShape(ui') /\ ui'.loading = ui.loading /\ ui'.elements = r.elements
        /\ ui'.selectedIds = r.selectedIds
    BY <2>1, <2>2 DEF EditorShape, EditorFields
  <2>4. LabelEditor!Whole(ui') BY <2>2, <2>3, WholeMeans
  <2> QED BY <1>e, <2>1, <2>3, <2>4
<1>6. CASE LabelEditor!cancelTable
  <2>1. net' = net /\ ~ui.loading /\ ui' = [ui EXCEPT !.table = FALSE]
    BY <1>6 DEF LabelEditor!cancelTable, LabelEditorInv
  <2>2. EditorShape(ui') /\ ui'.loading = ui.loading /\ ui'.elements = ui.elements
        /\ ui'.selectedIds = ui.selectedIds
    BY <1>0, <2>1 DEF EditorShape, EditorFields
  <2>3. Sound BY <2>2, WholeMeans
  <2> QED BY <1>e, <2>1, <2>2, <2>3
<1>7. CASE LabelEditor!deleteSelected
  <2> DEFINE els == LabelEditor!Restrict(ui.elements, LabelEditor!Ids \ ui.selectedIds)
  <2>1. /\ net' = net /\ ~ui.loading
        /\ ui' = [ui EXCEPT !.elements = els, !.selectedIds = {}]
    BY <1>7 DEF LabelEditor!deleteSelected
  <2>2. DOMAIN els \subseteq DOMAIN ui.elements BY DEF LabelEditor!Restrict, LabelEditor!Ids
  <2> HIDE DEF els
  <2> QED BY <1>e, <1>n, <1>t, <2>1, <2>2
<1>8. CASE LabelEditor!groupSelected
  <2> DEFINE next == LabelEditor!groupLabelElements(ui.elements, ui.selectedIds)
             ids  == LabelEditor!expandSelectionWithGroups(next, ui.selectedIds)
  <2>1. /\ net' = net /\ ~ui.loading
        /\ ui' = [ui EXCEPT !.elements = next, !.selectedIds = ids]
    BY <1>8 DEF LabelEditor!groupSelected
  <2>2. DOMAIN next = DOMAIN ui.elements BY DEF LabelEditor!groupLabelElements, LabelEditor!SetGroup
  <2> HIDE DEF next
  <2>3. EditorShape(ui') /\ ui'.loading = ui.loading /\ ui'.elements = next /\ ui'.selectedIds = ids
    BY <1>t, <2>1, <2>2
  <2>4. Sound
    <3> SUFFICES ASSUME LabelEditor!Whole(ui) PROVE LabelEditor!Whole(ui') OBVIOUS
    <3>1. ui.selectedIds \subseteq DOMAIN ui'.elements BY <2>2, <2>3, WholeMeans
    <3> QED BY <2>3, <3>1, Expanded
  <2> QED BY <1>e, <2>1, <2>3, <2>4
<1>9. CASE LabelEditor!ungroupSelected
  <2> DEFINE els == LabelEditor!ungroupLabelElements(ui.elements, ui.selectedIds)
  <2>1. net' = net /\ ~ui.loading /\ ui' = [ui EXCEPT !.elements = els]
    BY <1>9 DEF LabelEditor!ungroupSelected
  <2>2. /\ DOMAIN els = DOMAIN ui.elements
        /\ \A e \in DOMAIN ui.elements \cap ui.selectedIds :
              els[e].groupId = 0
    BY DEF LabelEditor!ungroupLabelElements, LabelEditor!SetGroup, LabelEditor!Element,
           LabelEditor!NoGroup
  <2> HIDE DEF els
  <2>3. EditorShape(ui') /\ ui'.loading = ui.loading /\ ui'.elements = els
        /\ ui'.selectedIds = ui.selectedIds
    BY <1>0, <2>1, <2>2 DEF EditorShape, EditorFields
  <2>4. Sound
    <3> SUFFICES ASSUME LabelEditor!Whole(ui) PROVE LabelEditor!Whole(ui') OBVIOUS
    <3>1. ui.selectedIds \subseteq DOMAIN ui.elements BY WholeMeans
    <3> QED BY <2>2, <2>3, <3>1, WholeMeans
  <2> QED BY <1>e, <2>1, <2>3, <2>4
<1>10. CASE LabelEditor!ElementProperties
  BY <1>7, <1>8, <1>9, <1>10 DEF LabelEditor!ElementProperties
<1>11. CASE LabelEditor!onKeyDown BY <1>7, <1>8, <1>9, <1>11 DEF LabelEditor!onKeyDown
<1>12. ASSUME NEW op, op # "get", NEW arg, LabelEditor!Post(op, arg), ~ui.loading,
              \/ ui' = [ui EXCEPT !.uploadingImage = TRUE] \/ ui' = [ui EXCEPT !.saving = TRUE]
       PROVE  Goal
  <2>1. IsSeq(<<LabelEditor!Call(op, arg)>>) /\ Free(<<LabelEditor!Call(op, arg)>>, {"get"})
    BY <1>12, Literal DEF LabelEditor!Call
  <2>2. Follows(net', net, {}, <<LabelEditor!Call(op, arg)>>)
    BY <1>0, <1>12, <2>1, LabelEditorPosts DEF LabelEditor!Post
  <2>3. IsSeq(net') /\ Single(net', {"get"}) /\ Free(net', {"get"})
    BY <1>12, <2>1, <2>2 DEF Follows, LabelEditorInv
  <2>4. EditorShape(ui') /\ ui'.loading = ui.loading /\ ui'.elements = ui.elements
        /\ ui'.selectedIds = ui.selectedIds
    BY <1>0, <1>12 DEF EditorShape, EditorFields
  <2>5. Sound BY <2>4, WholeMeans
  <2> QED BY <1>12, <2>3, <2>4, <2>5 DEF LabelEditorInv, LabelEditor!SelectionWhole
<1>13. CASE LabelEditor!handleCanvasImageDrop
  BY <1>12, <1>13 DEF LabelEditor!handleCanvasImageDrop, LabelEditor!uploadImageFile, LabelEditor!Ready
<1>14. CASE LabelEditor!handleSelectedImageFile
  BY <1>12, <1>14 DEF LabelEditor!handleSelectedImageFile, LabelEditor!uploadImageFile, LabelEditor!Ready
<1>15. CASE LabelEditor!saveTemplate
  BY <1>12, <1>15 DEF LabelEditor!saveTemplate, LabelEditor!Ready
<1>16. ASSUME NEW i, LabelEditor!loadTemplate(i) PROVE Goal
  <2>1. i \in DOMAIN net /\ net[i].op = "get" /\ Follows(net', net, {i}, <<>>)
    BY <1>0, <1>16, Literal, LabelEditorAnswers DEF LabelEditor!loadTemplate, LabelEditor!Ends
  <2>2. ui.loading /\ ui.selectedIds = {} /\ ~ui.table /\ Free(net, {"image", "save"})
    BY <2>1 DEF LabelEditorInv, Free
  <2>3. IsSeq(net') /\ Single(net', {"get"}) /\ Free(net', {"get"}) /\ Free(net', {"image", "save"})
    BY <2>1, <2>2, Literal DEF Follows, LabelEditorInv
  <2>4. CASE ui' = ui
    BY <1>0, <2>2, <2>3, <2>4 DEF LabelEditorInv, LabelEditor!SelectionWhole
  <2>5. CASE \E n \in Nat : \E els : /\ DOMAIN els = 1 .. n
                                     /\ ui' = [ui EXCEPT !.loading = FALSE, !.made = n, !.elements = els]
    <3>0. PICK n \in Nat : \E els :
             /\ DOMAIN els = 1 .. n
             /\ ui' = [ui EXCEPT !.loading = FALSE, !.made = n, !.elements = els]
      BY <2>5
    <3>1. PICK els : /\ DOMAIN els = 1 .. n
                     /\ ui' = [ui EXCEPT !.loading = FALSE, !.made = n, !.elements = els]
      BY <3>0
    <3>2. EditorShape(ui') /\ ~ui'.loading /\ ui'.selectedIds = {}
      BY <1>0, <2>2, <3>1 DEF EditorShape, EditorFields
    <3> QED BY <1>n, <2>3, <3>2 DEF LabelEditorInv, LabelEditor!SelectionWhole
  <2>6. ASSUME ui' # ui
        PROVE  \E n \in Nat : \E els : /\ DOMAIN els = 1 .. n
                                       /\ ui' = [ui EXCEPT !.loading = FALSE, !.made = n, !.elements = els]
    <3>1. PICK n \in 0 .. 2, g \in {LabelEditor!NoGroup, 1}, k \in {"image", "text"} :
             ui' = [ui EXCEPT !.loading = FALSE, !.made = n,
                              !.elements = [e \in 1 .. n |-> LabelEditor!Element(k, g)]]
      BY <1>16, <2>6 DEF LabelEditor!loadTemplate
    <3> DEFINE els == [e \in 1 .. n |-> LabelEditor!Element(k, g)]
    <3>2. DOMAIN els = 1 .. n /\ n \in Nat OBVIOUS
    <3>3. ui' = [ui EXCEPT !.loading = FALSE, !.made = n, !.elements = els] BY <3>1
    <3> HIDE DEF els
    <3> QED BY <3>2, <3>3
  <2> QED BY <2>4, <2>5, <2>6
<1>17. ASSUME NEW i \in DOMAIN net, LabelEditor!insertImageAt(i) PROVE Goal
  <2>1. net[i].op = "image" /\ Follows(net', net, {i}, <<>>)
    BY <1>0, <1>17, Literal, LabelEditorAnswers DEF LabelEditor!insertImageAt, LabelEditor!Ends
  <2>2. ~ui.loading /\ Free(net, {"get"}) BY <2>1 DEF LabelEditorInv, Free
  <2>3. IsSeq(net') /\ Single(net', {"get"}) /\ Free(net', {"get"})
    BY <2>1, <2>2, Literal DEF Follows, LabelEditorInv
  <2> DEFINE s == [ui EXCEPT !.uploadingImage = FALSE]
  <2>4. EditorShape(s) /\ s.loading = ui.loading BY <1>0 DEF EditorShape, EditorFields
  <2>5. /\ EditorShape(LabelEditor!appendElement(s, "image"))
        /\ LabelEditor!appendElement(s, "image").loading = ui.loading
    BY <2>4, Appended
  <2>6. \/ ui' = s \/ \E ids : ui' = [s EXCEPT !.selectedIds = ids]
        \/ ui' = LabelEditor!appendElement(s, "image")
    BY <1>17 DEF LabelEditor!insertImageAt
  <2> HIDE DEF s
  <2>7. EditorShape(ui') /\ ui'.loading = ui.loading
    <3>1. ASSUME NEW ids, ui' = [s EXCEPT !.selectedIds = ids] PROVE EditorShape(ui') /\ ui'.loading = ui.loading
      BY <2>4, <3>1 DEF EditorShape, EditorFields
    <3> QED BY <2>4, <2>5, <2>6, <3>1
  <2> QED BY <1>17, <2>2, <2>3, <2>7 DEF LabelEditorInv, LabelEditor!SelectionWhole
<1>18. ASSUME NEW i, LabelEditor!Saved(i) PROVE Goal
  <2>1. i \in DOMAIN net /\ net[i].op = "save" /\ Follows(net', net, {i}, <<>>)
    BY <1>0, <1>18, Literal, LabelEditorAnswers DEF LabelEditor!Saved, LabelEditor!Ends
  <2>2. ~ui.loading /\ Free(net, {"get"}) BY <2>1 DEF LabelEditorInv, Free
  <2>3. IsSeq(net') /\ Single(net', {"get"}) /\ Free(net', {"get"})
    BY <2>1, <2>2, Literal DEF Follows, LabelEditorInv
  <2>4. EditorShape(ui') /\ ui'.loading = ui.loading /\ ui'.elements = ui.elements
        /\ ui'.selectedIds = ui.selectedIds
    BY <1>0, <1>18 DEF EditorShape, EditorFields, LabelEditor!Saved
  <2>5. Sound BY <2>4, WholeMeans
  <2> QED BY <2>2, <2>3, <2>4, <2>5 DEF LabelEditorInv, LabelEditor!SelectionWhole
<1> QED BY <1>1, <1>2, <1>3, <1>4, <1>5, <1>6, <1>10, <1>11, <1>13, <1>14, <1>15, <1>16, <1>17,
           <1>18 DEF LabelEditor!Next

(***************************************************************************)
(* The agent's page and the server behind it                               *)
(***************************************************************************)
(* The server's part of a step is a step of AgentTasks, whose invariant is *)
(* proved in AgentTasks.                                                   *)
Tasks == INSTANCE AgentTasks WITH tasks <- world

(* A call that the server takes, or has taken, names the task it is about. *)
AgentCall(x) ==
    /\ DOMAIN x = {"op", "arg", "all"} /\ DOMAIN x.arg = {"stage", "task", "origin"}
    /\ x.op \in Agent!Press3 => x.arg.task \in Tasks!Task
    /\ x.op = "create" => /\ x.arg.origin \in {"server", "pc"}
                          /\ x.arg.stage = "handled" => x.arg.task \in Tasks!Task

AgentCalls == IsSeq(net) /\ \A x \in On(net) : AgentCall(x)
AgentInv   == AgentCalls /\ Tasks!Inv

LEMMA AgentMounts ==
    ASSUME Agent!Mount
    PROVE  AgentInv'
<1>1. /\ net' = <<Agent!Call("access", Agent!Ask)>>
      /\ world' = [t \in Tasks!Task |-> Tasks!NoTask]
  BY DEF Agent!Mount, Agent!Task, Agent!Server!Task, Tasks!Task, Agent!Server!NoTask, Tasks!NoTask
<1>2. AgentCall(Agent!Call("access", Agent!Ask))
  BY DEF AgentCall, Agent!Call, Agent!Ask, Agent!Sent, Agent!Press3
<1>3. AgentCalls' BY <1>1, <1>2, Literal DEF AgentCalls
<1>4. Tasks!NoTask \in Tasks!Row /\ Tasks!Good(Tasks!NoTask)
  BY DEF Tasks!NoTask, Tasks!Row, Tasks!Good, Tasks!Cleared, Tasks!Status, Tasks!ActiveStatus
<1> QED BY <1>1, <1>3, <1>4 DEF AgentInv, Tasks!Inv, Tasks!TypeOK

(* The server of the page is that of AgentTasks.                           *)
LEMMA ServerIs ==
    /\ Agent!Server!ServerStops => Tasks!ServerStops
    /\ Agent!Task = Tasks!Task
    /\ \A t : Agent!Server!Work(t) => Tasks!Work(t)
    /\ \A t, o : Agent!Server!AgentTaskCreate(t, o) => Tasks!AgentTaskCreate(t, o)
    /\ \A t : Agent!Server!AgentTasksCreate(t) => Tasks!AgentTasksCreate(t)
    /\ \A t : Agent!Server!AgentTasksApproveTest(t) => Tasks!AgentTasksApproveTest(t)
    /\ \A t : Agent!Server!AgentTasksApproveProd(t) => Tasks!AgentTasksApproveProd(t)
    /\ \A t : Agent!Server!ApproveTestSet(t) => Tasks!ApproveTestSet(t)
    /\ \A t : Agent!Server!ApproveProdSet(t) => Tasks!ApproveProdSet(t)
    /\ \A t : Agent!Server!AgentTasksReject(t) => Tasks!AgentTasksReject(t)
<1> USE DEF Agent!Server!Task, Tasks!Task, Agent!Server!ActiveStatus, Tasks!ActiveStatus,
            Agent!Server!NoTask, Tasks!NoTask, Agent!Server!Goes, Tasks!Goes
<1>1. Agent!Server!ServerStops => Tasks!ServerStops BY DEF Agent!Server!ServerStops, Tasks!ServerStops
<1>2. Agent!Task = Tasks!Task BY DEF Agent!Task
<1>3. ASSUME NEW t, Agent!Server!Work(t) PROVE Tasks!Work(t)
  <2>1. Agent!Server!AgentTaskInsert(t) => Tasks!AgentTaskInsert(t)
    BY DEF Agent!Server!AgentTaskInsert, Tasks!AgentTaskInsert
  <2>2. Agent!Server!claimNext(t) => Tasks!claimNext(t)
    BY DEF Agent!Server!claimNext, Tasks!claimNext, Agent!Server!Queued, Tasks!Queued
  <2>3. Agent!Server!processOne(t) => Tasks!processOne(t)
    BY DEF Agent!Server!processOne, Tasks!processOne
  <2>4. Agent!Server!WorkerStops(t) => Tasks!WorkerStops(t)
    BY DEF Agent!Server!WorkerStops, Tasks!WorkerStops
  <2>5. Agent!Server!agentRunDeployTest(t) => Tasks!agentRunDeployTest(t)
    BY DEF Agent!Server!agentRunDeployTest, Tasks!agentRunDeployTest
  <2>6. Agent!Server!TestBuilt(t) => Tasks!TestBuilt(t)
    BY DEF Agent!Server!TestBuilt, Tasks!TestBuilt
  <2>7. Agent!Server!agentRunDeployProd(t) => Tasks!agentRunDeployProd(t)
    BY DEF Agent!Server!agentRunDeployProd, Tasks!agentRunDeployProd
  <2> QED BY <1>3, <2>1, <2>2, <2>3, <2>4, <2>5, <2>6, <2>7 DEF Agent!Server!Work, Tasks!Work
<1>4. \A t, o : Agent!Server!AgentTaskCreate(t, o) => Tasks!AgentTaskCreate(t, o)
  BY DEF Agent!Server!AgentTaskCreate, Tasks!AgentTaskCreate, Agent!Server!AgentTaskHasActive,
         Tasks!AgentTaskHasActive
<1>5. \A t : Agent!Server!AgentTasksCreate(t) => Tasks!AgentTasksCreate(t)
  BY DEF Agent!Server!AgentTasksCreate, Tasks!AgentTasksCreate
<1>6. \A t, j : Agent!Server!Approve(t, j) => Tasks!Approve(t, j)
  <2>1. Agent!Server!Jobs = Tasks!Jobs
    BY DEF Agent!Server!Jobs, Tasks!Jobs, Agent!Server!TestJob, Tasks!TestJob, Agent!Server!ProdJob,
           Tasks!ProdJob
  <2>2. Agent!Server!Cardinality(Agent!Server!Jobs) = Tasks!Cardinality(Tasks!Jobs)
    BY <2>1 DEF Agent!Server!Cardinality, Tasks!Cardinality
  <2> QED BY <2>2 DEF Agent!Server!Approve, Tasks!Approve
<1>7. \A t : Agent!Server!AgentTasksApproveTest(t) => Tasks!AgentTasksApproveTest(t)
  BY <1>6 DEF Agent!Server!AgentTasksApproveTest, Tasks!AgentTasksApproveTest, Agent!Server!ForTest,
              Tasks!ForTest
<1>8. \A t : Agent!Server!AgentTasksApproveProd(t) => Tasks!AgentTasksApproveProd(t)
  BY <1>6 DEF Agent!Server!AgentTasksApproveProd, Tasks!AgentTasksApproveProd, Agent!Server!ForProd,
              Tasks!ForProd
<1>9. \A t : Agent!Server!ApproveTestSet(t) => Tasks!ApproveTestSet(t)
  BY DEF Agent!Server!ApproveTestSet, Tasks!ApproveTestSet
<1>10. \A t : Agent!Server!ApproveProdSet(t) => Tasks!ApproveProdSet(t)
  BY DEF Agent!Server!ApproveProdSet, Tasks!ApproveProdSet
<1>11. \A t : Agent!Server!AgentTasksReject(t) => Tasks!AgentTasksReject(t)
  BY DEF Agent!Server!AgentTasksReject, Tasks!AgentTasksReject
<1> QED BY <1>1, <1>2, <1>3, <1>4, <1>5, <1>7, <1>8, <1>9, <1>10, <1>11

(* What a handler makes of its call.                                       *)
LEMMA CallBecomes ==
    ASSUME AgentCalls, NEW i \in DOMAIN net, NEW stage, NEW t, Agent!Becomes(i, stage, t),
           net[i].op \in Agent!Press3 \/ stage = "handled" => t \in Tasks!Task
    PROVE  AgentCalls'
<1> DEFINE y == [net[i] EXCEPT !.arg.stage = stage, !.arg.task = t]
<1>1. net' = [net EXCEPT ![i] = y] BY DEF Agent!Becomes
<1>2. AgentCall(net[i]) BY SeqFacts DEF AgentCalls
<1>3. /\ DOMAIN y = {"op", "arg", "all"} /\ DOMAIN y.arg = {"stage", "task", "origin"}
      /\ y.op = net[i].op /\ y.arg.stage = stage /\ y.arg.task = t /\ y.arg.origin = net[i].arg.origin
  BY <1>2 DEF AgentCall
<1> HIDE DEF y
<1>4. AgentCall(y) BY <1>2, <1>3 DEF AgentCall
<1>5. Len(net) \in Nat /\ DOMAIN net = 1 .. Len(net) /\ net \in Seq(On(net) \cup {y})
  BY SeqFacts DEF AgentCalls
<1>6. net' \in Seq(On(net) \cup {y}) BY <1>1, <1>5, ExceptSeq
<1> QED BY <1>4, <1>6, SeqOfMembers DEF AgentCalls

LEMMA AgentAnswers ==
    ASSUME AgentCalls, NEW i, NEW op, NEW c, IsSeq(c), \A x \in On(c) : AgentCall(x),
           Agent!Answered(i, op, c)
    PROVE  AgentCalls'
<1>1. Follows(net', net, {i}, c) BY Answering DEF AgentCalls, Agent!Answered, Agent!Others
<1> QED BY <1>1 DEF AgentCalls, Follows

LEMMA AgentPosts ==
    ASSUME AgentCalls, NEW op, NEW a, AgentCall(Agent!Call(op, a)), Agent!Post(op, a)
    PROVE  AgentCalls'
<1> DEFINE c == <<Agent!Call(op, a)>>
<1>1. IsSeq(c) /\ On(c) = {Agent!Call(op, a)} BY Literal
<1> HIDE DEF c
<1>2. Follows(net', net, {}, c) BY <1>1, Posting DEF AgentCalls, Agent!Post, Agent!Posts, c
<1> QED BY <1>1, <1>2 DEF AgentCalls, Follows

LEMMA AgentKeeps ==
    ASSUME AgentInv, Agent!Next
    PROVE  AgentInv'
<1>0. AgentCalls /\ Tasks!Inv BY DEF AgentInv
<1>u. world' = world => Tasks!Inv' BY <1>0 DEF Tasks!Inv, Tasks!TypeOK
<1>o. ASSUME NEW t \in Tasks!Task, Tasks!Owner(t) PROVE Tasks!Inv'
  BY <1>0, <1>o, Tasks!OwnerKeepsInv
<1>k. AgentCall(Agent!Call("tasks", Agent!Ask))
  BY DEF AgentCall, Agent!Call, Agent!Ask, Agent!Sent, Agent!Press3
<1>l. LET c == <<Agent!Call("tasks", Agent!Ask)>> IN IsSeq(c) /\ \A x \in On(c) : AgentCall(x)
  BY <1>k, Literal
<1>e. IsSeq(<<>>) /\ \A x \in On(<<>>) : AgentCall(x) BY Literal
<1>1. CASE Agent!loadTasks
  <2>1. AgentCalls' BY <1>0, <1>1, <1>k, AgentPosts DEF Agent!loadTasks
  <2> QED BY <1>1, <1>u, <2>1 DEF AgentInv, Agent!loadTasks
<1>2. CASE Agent!ServerStops
  <2>1. Tasks!ServerStops BY <1>2, ServerIs DEF Agent!ServerStops
  <2>2. Tasks!Inv' BY <1>0, <2>1, Tasks!StopKeepsInv
  <2> DEFINE F(x) == [x EXCEPT !.arg.stage = "failed"]
             S    == {F(x) : x \in On(net)}
  <2>3. net' = [i \in DOMAIN net |-> F(net[i])] BY <1>2 DEF Agent!ServerStops
  <2>4. ASSUME NEW x \in On(net) PROVE AgentCall(F(x))
    <3> DEFINE y == F(x)
    <3>1. AgentCall(x) BY <1>0 DEF AgentCalls
    <3>2. /\ DOMAIN y = {"op", "arg", "all"} /\ DOMAIN y.arg = {"stage", "task", "origin"}
          /\ y.op = x.op /\ y.arg.stage = "failed" /\ y.arg.task = x.arg.task
          /\ y.arg.origin = x.arg.origin
      BY <3>1 DEF AgentCall
    <3> HIDE DEF y
    <3>3. AgentCall(y) BY <3>1, <3>2 DEF AgentCall
    <3> QED BY <3>3 DEF y
  <2>5. Len(net) \in Nat /\ DOMAIN net = 1 .. Len(net) /\ \A i \in DOMAIN net : net[i] \in On(net)
    BY <1>0, SeqFacts DEF AgentCalls
  <2>6. \A i \in DOMAIN net : F(net[i]) \in S BY <2>5
  <2>7. \A y \in S : AgentCall(y) BY <2>4
  <2> HIDE DEF F, S
  <2>8. net' \in [1 .. Len(net) -> S] BY <2>3, <2>5, <2>6
  <2>9. net' \in Seq(S) BY <2>5, <2>8, SeqDef
  <2>10. AgentCalls' BY <2>7, <2>9, SeqOfMembers DEF AgentCalls
  <2> QED BY <2>2, <2>10 DEF AgentInv
<1>3. ASSUME NEW o \in {"server", "pc"}, Agent!handleCreate(o) PROVE AgentInv'
  <2>1. AgentCall(Agent!Call("create", Agent!Sent(0, o)))
    BY DEF AgentCall, Agent!Call, Agent!Sent, Agent!Press3
  <2>2. AgentCalls' BY <1>0, <1>3, <2>1, AgentPosts DEF Agent!handleCreate
  <2> QED BY <1>3, <1>u, <2>2 DEF AgentInv, Agent!handleCreate
<1>4. ASSUME NEW op \in Agent!Press3, NEW t \in Agent!Task, Agent!Press(op, t) PROVE AgentInv'
  <2>1. t \in Tasks!Task BY ServerIs
  <2>2. AgentCall(Agent!Call(op, Agent!Sent(t, "none")))
    BY <2>1 DEF AgentCall, Agent!Call, Agent!Sent, Agent!Press3
  <2>3. AgentCalls' BY <1>0, <1>4, <2>2, AgentPosts DEF Agent!Press
  <2> QED BY <1>4, <1>u, <2>3 DEF AgentInv, Agent!Press
<1>5. ASSUME NEW i, Agent!loadAccess(i) PROVE AgentInv'
  <2>1. AgentCalls' BY <1>0, <1>5, <1>e, <1>l, AgentAnswers DEF Agent!loadAccess, Agent!Ends
  <2> QED BY <1>5, <1>u, <2>1 DEF AgentInv, Agent!loadAccess
<1>6. ASSUME NEW i, Agent!TasksLoaded(i) PROVE AgentInv'
  <2>1. AgentCalls' BY <1>0, <1>6, <1>e, AgentAnswers DEF Agent!TasksLoaded, Agent!Ends
  <2> QED BY <1>6, <1>u, <2>1 DEF AgentInv, Agent!TasksLoaded
<1>7. ASSUME NEW i \in DOMAIN net, Agent!Handle(i) PROVE AgentInv'
  <2> DEFINE t == net[i].arg.task
  <2>0. AgentCall(net[i]) BY <1>0, SeqFacts DEF AgentCalls
  <2>p. net[i].op \in Agent!Press3 => t \in Tasks!Task BY <2>0 DEF AgentCall
  <2>1. CASE Agent!Stage(i, "create", "sent")
    <3>0. net[i].op \notin Agent!Press3 BY <2>1 DEF Agent!Stage, Agent!Press3
    <3>1. CASE UNCHANGED world /\ Agent!Becomes(i, "failed", t)
      BY <1>0, <1>u, <2>p, <3>1, CallBecomes DEF AgentInv
    <3>2. ASSUME NEW u \in Agent!Task, Agent!Server!AgentTaskCreate(u, net[i].arg.origin),
                 Agent!Becomes(i, "handled", u)
          PROVE  AgentInv'
      <4>1. u \in Tasks!Task /\ Tasks!AgentTaskCreate(u, net[i].arg.origin) BY <3>2, ServerIs
      <4>2. net[i].arg.origin \in {"server", "pc"} BY <2>0, <2>1 DEF AgentCall, Agent!Stage
      <4>3. Tasks!Inv' BY <1>o, <4>1, <4>2 DEF Tasks!Owner
      <4>4. AgentCalls' BY <1>0, <3>2, <4>1, CallBecomes
      <4> QED BY <4>3, <4>4 DEF AgentInv
    <3> QED BY <1>7, <2>1, <3>1, <3>2 DEF Agent!Handle, Agent!Stage
  <2>2. CASE Agent!Stage(i, "approveTest", "sent")
    <3>0. t \in Tasks!Task BY <2>2, <2>p DEF Agent!Stage, Agent!Press3
    <3>1. PICK s : Agent!Becomes(i, s, t)
      BY <1>7, <2>2 DEF Agent!Handle, Agent!Stage
    <3>2. UNCHANGED world \/ Agent!Server!AgentTasksApproveTest(t)
      BY <1>7, <2>2 DEF Agent!Handle, Agent!Stage
    <3>3. Tasks!Inv' BY <1>o, <1>u, <3>0, <3>2, ServerIs DEF Tasks!Owner
    <3>4. AgentCalls' BY <1>0, <3>0, <3>1, CallBecomes
    <3> QED BY <3>3, <3>4 DEF AgentInv
  <2>3. CASE Agent!Stage(i, "approveProd", "sent")
    <3>0. t \in Tasks!Task BY <2>3, <2>p DEF Agent!Stage, Agent!Press3
    <3>1. PICK s : Agent!Becomes(i, s, t)
      BY <1>7, <2>3 DEF Agent!Handle, Agent!Stage
    <3>2. UNCHANGED world \/ Agent!Server!AgentTasksApproveProd(t)
      BY <1>7, <2>3 DEF Agent!Handle, Agent!Stage
    <3>3. Tasks!Inv' BY <1>o, <1>u, <3>0, <3>2, ServerIs DEF Tasks!Owner
    <3>4. AgentCalls' BY <1>0, <3>0, <3>1, CallBecomes
    <3> QED BY <3>3, <3>4 DEF AgentInv
  <2>4. CASE Agent!Stage(i, "reject", "sent") /\ Agent!Server!AgentTasksReject(t) /\ Agent!Becomes(i, "done", t)
    <3>0. t \in Tasks!Task BY <2>4, <2>p DEF Agent!Stage, Agent!Press3
    <3>3. Tasks!Inv' BY <1>o, <2>4, <3>0, ServerIs DEF Tasks!Owner
    <3>4. AgentCalls' BY <1>0, <2>4, <3>0, CallBecomes
    <3> QED BY <3>3, <3>4 DEF AgentInv
  <2> QED BY <1>7, <2>1, <2>2, <2>3, <2>4 DEF Agent!Handle
<1>8. ASSUME NEW i \in DOMAIN net, Agent!Finish(i) PROVE AgentInv'
  <2> DEFINE t == net[i].arg.task
  <2>0. AgentCall(net[i]) BY <1>0, SeqFacts DEF AgentCalls
  <2>1. t \in Tasks!Task
    BY <1>8, <2>0 DEF Agent!Finish, Agent!Stage, AgentCall, Agent!Press3
  <2>2. Agent!Becomes(i, "done", t) BY <1>8 DEF Agent!Finish
  <2>3. Tasks!Owner(t) BY <1>8, ServerIs DEF Agent!Finish, Tasks!Owner
  <2>4. Tasks!Inv' BY <1>o, <2>1, <2>3
  <2>5. AgentCalls' BY <1>0, <2>1, <2>2, CallBecomes
  <2> QED BY <2>4, <2>5 DEF AgentInv
<1>9. ASSUME NEW i, NEW op, Agent!Settle(i, op) PROVE AgentInv'
  <2>1. /\ UNCHANGED world
        /\ Agent!Answered(i, op, <<>>) \/ Agent!Answered(i, op, <<Agent!Call("tasks", Agent!Ask)>>)
    BY <1>9 DEF Agent!Settle, Agent!Ends
  <2>2. AgentCalls' BY <1>0, <1>e, <1>l, <2>1, AgentAnswers
  <2> QED BY <1>u, <2>1, <2>2 DEF AgentInv
<1>10. ASSUME NEW t \in Agent!Task, Agent!Server!Work(t), UNCHANGED <<ui, net>> PROVE AgentInv'
  <2>1. Tasks!Inv' BY <1>0, <1>10, ServerIs, Tasks!WorkKeepsInv
  <2> QED BY <1>0, <1>10, <2>1 DEF AgentInv, AgentCalls
<1> QED BY <1>1, <1>2, <1>3, <1>4, <1>5, <1>6, <1>7, <1>8, <1>9, <1>10 DEF Agent!Next

LEMMA AgentBuilt == AgentInv => Agent!PromotedWasBuilt
<1>1. Agent!PromotedWasBuilt <=> Tasks!PromotedWasBuilt
  BY DEF Agent!PromotedWasBuilt, Agent!Server!PromotedWasBuilt, Tasks!PromotedWasBuilt,
         Agent!Server!ProdJob, Tasks!ProdJob, Agent!Server!Task, Tasks!Task
<1> QED BY <1>1 DEF AgentInv, Tasks!Inv, Tasks!Good, Tasks!Cleared, Tasks!PromotedWasBuilt

(***************************************************************************)
(* The session                                                             *)
(***************************************************************************)
(* A form that waits is on the login route; past it, the calls on the way  *)
(* are of the account that is logged in, and without one what the storage  *)
(* says of the agent is of that account.                                   *)
SessionInv ==
    /\ SessionTypeOK
    /\ login # Nobody => page = "login" /\ leaving = ""
    /\ page # "login" /\ leaving = "" =>
          /\ access.by = stored.user
          /\ access.calls = 0 /\ stored.agentAllowed => stored.user \in AgentOwner

SessionKept == UNCHANGED <<stored, login, access, leaving>>

(* A page is opened from home by mounting it, is left for home, and else   *)
(* makes its own steps.                                                    *)
LEMMA Opens ==
    ASSUME OpenPage
    PROVE  /\ page = "home" /\ page' \in Pages /\ SessionKept
           /\ page' = "balance" =>
                 Balance!MountLine \/ Balance!MountProduct \/ Balance!MountReport
           /\ page' = "wareoutcome" => WareOutcome!Mount
           /\ page' = "writeoff" => WriteoffId!Mount
           /\ page' = "plan" => Plan!Mount
           /\ page' = "labeleditor" => LabelEditor!Mount
           /\ page' = "agent" => Agent!Mount
BY DEF OpenPage, Open, Pages, SessionKept

LEMMA Steps ==
    ASSUME PageNext
    PROVE  /\ page = "balance" => Balance!Next
           /\ page = "wareoutcome" => WareOutcome!Next
           /\ page = "writeoff" => WriteoffId!Next
           /\ page = "plan" => Plan!Next
           /\ page = "labeleditor" => LabelEditor!Next
           /\ page = "agent" => Agent!Next
BY DEF PageNext

LEMMA SessionSteps ==
    ASSUME ClientAssumption, SessionInv, page \notin Pages, SessionNext
    PROVE  SessionInv' /\ page' \notin Pages
<1>0. MaxAccess \in Nat /\ MaxAccess >= 1 /\ {0, 1} \subseteq 0 .. MaxAccess
  <2>1. MaxAccess \in Nat \ {0} BY DEF ClientAssumption
  <2> QED BY <2>1
<1>8. page' \in {page, "home", "login", "dashboard"}
  BY DEF SessionNext, handleLogin, LoginAnswered, AccessAnswered, handleLogout, Reload,
         ToDashboard, FromDashboard
<1>9. page' \notin Pages BY <1>8 DEF Pages
<1> SUFFICES SessionInv' BY <1>9
<1>1. CASE handleLogin
  BY <1>1 DEF handleLogin, SessionInv, SessionTypeOK
<1>2. CASE LoginAnswered
  <2>1. stored' \in [user: User \cup {Nobody}, agentAllowed: BOOLEAN] /\ leaving' \in {"", "login", "home"}
    BY <1>2 DEF LoginAnswered, SessionInv, SessionTypeOK
  <2>2. login' = Nobody /\ page' = page /\ access' = access /\ page = "login"
    BY <1>2 DEF LoginAnswered, SessionInv
  <2> QED BY <2>1, <2>2 DEF SessionInv, SessionTypeOK
<1>3. CASE AccessAnswered
  <2>1. PICK allowed \in BOOLEAN :
           (allowed => access.by \in AgentOwner) /\ stored' = [stored EXCEPT !.agentAllowed = allowed]
    BY <1>3 DEF AccessAnswered
  <2>2. /\ access' = [access EXCEPT !.calls = @ - 1] /\ access.calls > 0
        /\ page' = page /\ login' = login /\ leaving' = leaving
    BY <1>3 DEF AccessAnswered
  <2>3. access' \in [by: User \cup {Nobody}, calls: 0 .. MaxAccess]
    <3>1. access.calls \in 0 .. MaxAccess /\ access \in [by: User \cup {Nobody}, calls: 0 .. MaxAccess]
      BY DEF SessionInv, SessionTypeOK
    <3>2. access.calls - 1 \in 0 .. MaxAccess BY <1>0, <2>2, <3>1
    <3> QED BY <2>2, <3>1, <3>2
  <2>5. SessionTypeOK'
    <3>1. allowed \in BOOLEAN OBVIOUS
    <3>2. stored \in [user: User \cup {Nobody}, agentAllowed: BOOLEAN] BY DEF SessionInv, SessionTypeOK
    <3>3. stored' \in [user: User \cup {Nobody}, agentAllowed: BOOLEAN] BY <2>1, <3>1, <3>2
    <3> QED BY <2>2, <2>3, <3>3 DEF SessionInv, SessionTypeOK
  <2>4. /\ access'.by = access.by /\ stored'.user = stored.user
        /\ stored'.agentAllowed => access.by \in AgentOwner
    BY <2>1, <2>2 DEF SessionInv, SessionTypeOK
  <2> QED BY <2>2, <2>4, <2>5 DEF SessionInv
<1>4. CASE handleLogout
  BY <1>4 DEF handleLogout, clearUserData, SessionInv, SessionTypeOK, Layout
<1>5. CASE Reload
  <2> DEFINE n == IF isAuth THEN 1 ELSE 0
  <2>1. access' = [by |-> stored.user, calls |-> n] /\ n \in 0 .. MaxAccess /\ (isAuth => n = 1)
    BY <1>0, <1>5 DEF Reload
  <2>2. /\ stored' = stored /\ login' = login /\ leaving' = "" /\ leaving # ""
        /\ page' = IF isAuth THEN "home" ELSE "login"
    BY <1>5 DEF Reload
  <2>3. access' \in [by: User \cup {Nobody}, calls: 0 .. MaxAccess]
    BY <2>1 DEF SessionInv, SessionTypeOK
  <2>4. access'.by = stored.user /\ (isAuth => access'.calls # 0) BY <2>1
  <2>5. SessionTypeOK' BY <2>2, <2>3 DEF SessionInv, SessionTypeOK
  <2>6. login' = Nobody /\ (page' # "login" => isAuth) BY <2>2 DEF SessionInv
  <2>7. access'.by = stored'.user /\ (page' # "login" => access'.calls # 0)
    <3>1. isAuth => access'.calls # 0 BY <2>4
    <3>2. page' # "login" => isAuth BY <2>6
    <3> QED BY <2>2, <2>4, <3>1, <3>2
  <2> QED BY <2>2, <2>5, <2>6, <2>7 DEF SessionInv
<1>6. CASE ToDashboard
  BY <1>6 DEF ToDashboard, SessionInv, SessionTypeOK, Pages
<1>7. CASE FromDashboard
  <2>1. /\ access' = [access EXCEPT !.calls = @ + 1] /\ access.calls < MaxAccess
        /\ page = "dashboard" /\ page' = "home"
        /\ stored' = stored /\ login' = login /\ leaving' = leaving
    BY <1>7 DEF FromDashboard
  <2>2. access.calls \in 0 .. MaxAccess /\ access \in [by: User \cup {Nobody}, calls: 0 .. MaxAccess]
    BY DEF SessionInv, SessionTypeOK
  <2>3. access.calls + 1 \in 0 .. MaxAccess /\ access.calls + 1 # 0 BY <1>0, <2>1, <2>2
  <2>4. /\ access' \in [by: User \cup {Nobody}, calls: 0 .. MaxAccess]
        /\ access'.by = access.by /\ access'.calls # 0
    BY <2>1, <2>2, <2>3
  <2>5. SessionTypeOK' BY <2>1, <2>4 DEF SessionInv, SessionTypeOK
  <2> QED BY <2>1, <2>4, <2>5 DEF SessionInv
<1> QED BY <1>1, <1>2, <1>3, <1>4, <1>5, <1>6, <1>7 DEF SessionNext

LEMMA SessionKeeps ==
    ASSUME ClientAssumption, SessionInv, [Next]_vars
    PROVE  SessionInv'
<1>1. ASSUME SessionKept, page # "login", page' # "login" PROVE SessionInv'
  BY <1>1 DEF SessionInv, SessionTypeOK, SessionKept
<1>2. CASE page \notin Pages /\ SessionNext BY <1>2, SessionSteps
<1>3. CASE OpenPage
  <2>1. "login" \notin Pages BY DEF Pages
  <2> QED BY <1>1, <1>3, <2>1, Opens
<1>4. CASE LeavePage BY <1>1, <1>4 DEF LeavePage, SessionKept, Pages
<1>5. CASE UNCHANGED svars BY <1>5 DEF svars, SessionInv, SessionTypeOK
<1> QED BY <1>2, <1>3, <1>4, <1>5 DEF Next, vars, svars
 
LEMMA SessionStarts ==
    ASSUME ClientAssumption, Init
    PROVE  SessionInv /\ page \notin Pages
<1>1. MaxAccess \in Nat \ {0} BY DEF ClientAssumption
<1>2. access \in [by: User \cup {Nobody}, calls: 0 .. MaxAccess]
  <2>1. 0 \in 0 .. MaxAccess BY <1>1
  <2> QED BY <2>1 DEF Init, SessionInit
<1> QED BY <1>2 DEF Init, SessionInit, SessionInv, SessionTypeOK, Pages

LEMMA SessionSettles == SessionInv => AgentMenuSettles
BY DEF SessionInv, AgentMenuSettles, AgentMenu, Layout


(***************************************************************************)
(* The client: the session and the page that is shown                      *)
(***************************************************************************)
ClientInv ==
    /\ SessionInv
    /\ page = "balance" => BalanceInv
    /\ page = "wareoutcome" => WareOutcomeInv
    /\ page = "writeoff" => WriteoffIdInv
    /\ page = "plan" => PlanInv
    /\ page = "labeleditor" => LabelEditorInv
    /\ page = "agent" => AgentInv

(* What a step does to the page that is shown after it.                    *)
LEMMA Turns ==
    ASSUME ClientAssumption, SessionInv, Next
    PROVE  \/ page' \notin Pages
           \/ OpenPage
           \/ page' = page /\ PageNext
<1>1. CASE page \notin Pages /\ SessionNext BY <1>1, SessionSteps
<1>2. CASE LeavePage BY <1>2 DEF LeavePage, Pages
<1>3. CASE PageNext /\ UNCHANGED svars BY <1>3 DEF svars
<1> QED BY <1>1, <1>2, <1>3 DEF Next

LEMMA ClientStarts ==
    ASSUME ClientAssumption, Init
    PROVE  ClientInv
<1>1. page \notin Pages BY SessionStarts
<1> QED BY <1>1, SessionStarts DEF ClientInv, Pages

LEMMA ClientStep ==
    ASSUME ClientAssumption, ClientInv, Next
    PROVE  /\ ClientInv'
           /\ page = "wareoutcome" /\ page' = page => WareOutcome!DeletedStaysGone
           /\ page = "labeleditor" /\ page' = page => LabelEditor!SelectionWhole
<1>0. SessionInv /\ SessionInv' BY SessionKeeps DEF ClientInv
<1>1. CASE page' \notin Pages
  <2>1. \A p \in Pages : page' # p BY <1>1
  <2> QED BY <1>0, <2>1 DEF ClientInv, Pages
<1>2. CASE OpenPage
  <2>1. page = "home" /\ "home" \notin Pages /\ page' \in Pages BY <1>2, Opens DEF Pages
  <2>2. page' = "balance" => BalanceInv' BY <1>2, Opens, BalanceMounts
  <2>3. page' = "wareoutcome" => WareOutcomeInv' BY <1>2, Opens, WareOutcomeMounts
  <2>4. page' = "writeoff" => WriteoffIdInv' BY <1>2, Opens, WriteoffIdMounts
  <2>5. page' = "plan" => PlanInv' BY <1>2, Opens, PlanMounts
  <2>6. page' = "labeleditor" => LabelEditorInv' BY <1>2, Opens, LabelEditorMounts
  <2>7. page' = "agent" => AgentInv' BY <1>2, Opens, AgentMounts
  <2>8. page' # page BY <2>1
  <2> QED BY <1>0, <2>2, <2>3, <2>4, <2>5, <2>6, <2>7, <2>8 DEF ClientInv
<1>3. CASE page' = page /\ PageNext
  <2>1. None \notin Line BY DEF ClientAssumption
  <2>2. page = "balance" => BalanceInv' BY <1>3, <2>1, Steps, BalanceKeeps DEF ClientInv
  <2>3. page = "wareoutcome" => WareOutcomeInv' /\ WareOutcome!DeletedStaysGone
    BY <1>3, Steps, WareOutcomeKeeps DEF ClientInv
  <2>4. page = "writeoff" => WriteoffIdInv' BY <1>3, Steps, WriteoffIdKeeps DEF ClientInv
  <2>5. page = "plan" => PlanInv' BY <1>3, Steps, PlanKeeps DEF ClientInv
  <2>6. page = "labeleditor" => LabelEditorInv' /\ LabelEditor!SelectionWhole
    BY <1>3, Steps, LabelEditorKeeps DEF ClientInv
  <2>7. page = "agent" => AgentInv' BY <1>3, Steps, AgentKeeps DEF ClientInv
  <2> QED BY <1>0, <1>3, <2>2, <2>3, <2>4, <2>5, <2>6, <2>7 DEF ClientInv
<1> QED BY <1>0, <1>1, <1>2, <1>3, Turns

LEMMA ClientStutters ==
    ASSUME ClientInv, UNCHANGED vars
    PROVE  ClientInv'
<1>1. page' = page /\ ui' = ui /\ net' = net /\ world' = world /\ UNCHANGED svars
  BY DEF vars, svars
<1>2. SessionInv' BY <1>1 DEF ClientInv, SessionInv, SessionTypeOK, svars
<1>3. page = "balance" => BalanceInv' BY <1>1 DEF ClientInv, BalanceInv
<1>4. page = "wareoutcome" => WareOutcomeInv' BY <1>1 DEF ClientInv, WareOutcomeInv
<1>5. page = "writeoff" => WriteoffIdInv'
  BY <1>1 DEF ClientInv, WriteoffIdInv, WriteoffIdShape, WriteoffId!CatalogRetried,
              WriteoffId!Waiting
<1>6. page = "plan" => PlanInv' BY <1>1 DEF ClientInv, PlanInv, PlanShape, Plan!OnTheWay
<1>7. page = "labeleditor" => LabelEditorInv' BY <1>1 DEF ClientInv, LabelEditorInv
<1>8. page = "agent" => AgentInv'
  BY <1>1 DEF ClientInv, AgentInv, AgentCalls, Tasks!Inv, Tasks!TypeOK
<1> QED BY <1>1, <1>2, <1>3, <1>4, <1>5, <1>6, <1>7, <1>8 DEF ClientInv

LEMMA ClientKeeps ==
    ASSUME ClientAssumption, ClientInv, [Next]_vars
    PROVE  ClientInv'
BY ClientStep, ClientStutters

LEMMA ClientAlways == Spec => []ClientInv
<1>1. Init => ClientInv BY ClientAssumption, ClientStarts
<1>2. ClientInv /\ [Next]_vars => ClientInv' BY ClientAssumption, ClientKeeps
<1> QED BY <1>1, <1>2, PTL DEF Spec

(* However many accounts use a terminal, in whatever order their answers   *)
(* come: once they are in, the agent's menu is of the account, a catalogue *)
(* that could not be loaded will be asked for again, and the plan is       *)
(* compared with the rows of its own line.                                 *)
THEOREM LoadsAlwaysSettle == Spec => []LoadsSettle
<1>1. ClientInv => LoadsSettle
  BY SessionSettles, WriteoffIdShows, PlanSettles DEF ClientInv, LoadsSettle
<1> QED BY <1>1, ClientAlways, PTL

(* However many lines there are and calls on the way, and in whatever order*)
(* they are answered: what is shown as loaded is what is selected, and a   *)
(* sheet named after a line holds the rows of that line.                   *)
THEOREM LatestWins == Spec => [](page = "balance" => Balance!LatestShown)
<1>1. ClientInv => (page = "balance" => Balance!LatestShown)
  BY BalanceShows DEF ClientInv
<1> QED BY <1>1, ClientAlways, PTL

(* No answer, however late, brings back a deleted line of a delivery note, *)
(* of any number of lines with any number of calls on the way.             *)
THEOREM LateAnswersNeverHarm == Spec => LateAnswersHarmless
<1> DEFINE Step == page = "wareoutcome" /\ page' = page => WareOutcome!DeletedStaysGone
<1>1. ClientInv /\ [Next]_vars => [Step]_vars BY ClientAssumption, ClientStep
<1>2. Spec => [][Step]_vars
  <2> HIDE DEF Step
  <2> QED BY <1>1, ClientAlways, PTL DEF Spec
<1> QED BY <1>2 DEF LateAnswersHarmless

(* What is selected in the editor of labels, of any number of elements, is *)
(* whole groups of elements that are there.                                *)
THEOREM SelectionStaysWhole == Spec => SelectionWhole
<1> DEFINE Step == page = "labeleditor" /\ page' = page => LabelEditor!SelectionWhole
<1>1. ClientInv /\ [Next]_vars => [Step]_vars BY ClientAssumption, ClientStep
<1>2. Spec => [][Step]_vars
  <2> HIDE DEF Step
  <2> QED BY <1>1, ClientAlways, PTL DEF Spec
<1> QED BY <1>2 DEF SelectionWhole

(* Through the page or beside it, no task of the agent reaches production  *)
(* for which the script of the deploy for test never succeeded.            *)
THEOREM PromotedWasAlwaysBuilt == Spec => []PromotedWasBuilt
<1>1. ClientInv => PromotedWasBuilt BY AgentBuilt DEF ClientInv, PromotedWasBuilt
<1> QED BY <1>1, ClientAlways, PTL
=============================================================================
