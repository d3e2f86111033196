---------------------------- MODULE FastCgiProofs ----------------------------
(***************************************************************************)
(* The FastCGI host, for any number of requests under way, any content,    *)
(* any cutting of their streams into records and any sizes of the buffers: *)
(* the buffers are never overrun, and every request is answered exactly    *)
(* once and by the answer its own bytes call for.                          *)
(*                                                                         *)
(* FInv relates the three places that know about a request: the server's   *)
(* bookkeeping (sent, opener), the host's request_t and the records the    *)
(* server has got.  Openers says that an id in use stands for one request, *)
(* which is what the host relies on when it compares only ids; Gathered    *)
(* that request_t holds exactly what has been sent of the request under    *)
(* way; Answered that a request that is not new and not under way has its  *)
(* answer, unless the server has stopped reading.                          *)
(*                                                                         *)
(* The rest is about the operators: the decoder finds what the server      *)
(* encoded, the fields hold what the names say, and the records of an      *)
(* answer put together are the answer.                                     *)
(***************************************************************************)
EXTENDS FastCgi, SequenceTheorems, FiniteSetTheorems, WellFoundedInduction, TLAPS

\* What request_t holds once all of a request has arrived.
Whole(w) == [params |-> EncodeParams(w), body |-> w.body]

\* The answers the loop of main() may give to a request.
AnswersOf(w) ==
    {send_error(Messages.busy)}
    \cup {x \in {send_error(Messages.paramsLimit)} : Len(EncodeParams(w)) > MaxParams}
    \cup {x \in {send_error(Messages.bodyLimit)} : Len(w.body) > MaxBody}
    \cup {x \in {send_error(Messages.order)} : w.skip}
    \cup {x \in run_request(Whole(w)) : ~w.skip}

\* The request that request_t is about.
UnderWay(r) == request.active /\ request.id = work[r].id /\ opener[request.id] = r

Openers ==
    /\ \A i \in Ids : opener[i] # NoRequest => work[opener[i]].id = i
    /\ \A r \in Requests : sent[r].stage \in {"params", "stdin", "aborted"} =>
                              opener[work[r].id] = r

Gathered ==
    \A r \in Requests : UnderWay(r) =>
        /\ sent[r].stage \in {"params", "stdin", "aborted"}
        /\ reply[r] = << >>
        /\ sent[r].stage = "params" =>
              /\ request.params = SubSeq(EncodeParams(work[r]), 1, sent[r].at)
              /\ request.body = << >> /\ ~request.complete
        /\ sent[r].stage = "stdin" =>
              /\ request.params = EncodeParams(work[r])
              /\ request.body = SubSeq(work[r].body, 1, sent[r].at)
              /\ request.complete <=> ~work[r].skip

Answered ==
    \A r \in Requests :
        /\ reply[r] = << >> \/ reply[r] \in AnswersOf(work[r])
        /\ sent[r].stage = "new" => reply[r] = << >>
        /\ reading /\ sent[r].stage # "new" /\ ~UnderWay(r) => reply[r] # << >>

Positions ==
    \A r \in Requests :
        /\ sent[r].stage = "params" => sent[r].at <= Len(EncodeParams(work[r]))
        /\ sent[r].stage = "stdin" => sent[r].at <= Len(work[r].body)

ActiveIsOpen == request.active => opener[request.id] # NoRequest

RequestType == request \in [id : Ids, active : BOOLEAN, complete : BOOLEAN,
                            params : Seq(Byte), body : Seq(Byte)]

Protocol == Openers /\ ActiveIsOpen /\ Positions /\ Gathered /\ Answered

FInv == TypeOK /\ RequestType /\ Protocol
----------------------------------------------------------------------------
(* Induction over naturals.                                                *)

LEMMA Least ==
    ASSUME NEW T \in SUBSET Nat, T # {}
    PROVE  \E x \in T : \A y \in T : x <= y
<1> DEFINE F == {0 .. x : x \in T}
           R == StrictSubsetOrdering(Nat)
           B == FiniteSubsetsOf(Nat)
<1>1. \A x \in T : 0 .. x \in B
  <2> SUFFICES ASSUME NEW x \in T PROVE 0 .. x \in B
    OBVIOUS
  <2>1. x \in Int /\ 0 \in Int
    OBVIOUS
  <2>2. IsFiniteSet(0 .. x)
    BY <2>1, FS_Interval
  <2> QED BY <2>2 DEF FiniteSubsetsOf
<1>2. F \subseteq B /\ F # {}
  BY <1>1
<1>3. IsWellFoundedOn(R, B)
  BY FS_StrictSubsetOrderingWellFounded
<1>4. \E s \in F : \A r \in F : ~(<<r, s>> \in R)
  <2> HIDE DEF F, R, B
  <2> QED BY <1>2, <1>3, WFMin
<1>5. PICK x \in T : \A y \in T : ~(<<0 .. y, 0 .. x>> \in R)
  BY <1>4
<1>6. ASSUME NEW y \in T, ~(x <= y) PROVE FALSE
  <2>1. 0 .. y \subseteq 0 .. x /\ 0 .. y # 0 .. x
    <3>1. x \in 0 .. x /\ x \notin 0 .. y
      BY <1>6
    <3> QED BY <3>1, <1>6
  <2>2. <<0 .. y, 0 .. x>> \in R
    BY <2>1, <1>1 DEF StrictSubsetOrdering
  <2> QED BY <1>5, <2>2
<1> QED BY <1>6

\* A nonempty bounded set of naturals has a greatest element, and Max is it.
LEMMA Greatest ==
    ASSUME NEW N \in Nat, NEW T \in SUBSET (0 .. N), T # {}
    PROVE  Max(T) \in T /\ \A y \in T : y <= Max(T)
<1> DEFINE U == {n \in Nat : N - n \in T}
<1>1. U \in SUBSET Nat /\ U # {}
  <2>1. PICK y \in T : TRUE
    OBVIOUS
  <2>2. N - y \in Nat /\ N - (N - y) = y
    BY <2>1
  <2>3. N - y \in U
    BY <2>1, <2>2
  <2> QED BY <2>3
<1>2. PICK x \in U : \A y \in U : x <= y
  <2> HIDE DEF U
  <2> QED BY <1>1, Least
<1>3. ASSUME NEW y \in T PROVE y <= N - x
  <2>1. N - y \in Nat /\ N - (N - y) = y
    OBVIOUS
  <2>2. N - y \in U
    BY <2>1
  <2>3. x <= N - y
    BY <1>2, <2>2
  <2> QED BY <2>3, <1>2
<1>4. \E m \in T : \A y \in T : m >= y
  <2>1. N - x \in T
    BY <1>2
  <2>2. \A y \in T : N - x >= y
    BY <1>2, <1>3
  <2> QED BY <2>1, <2>2
<1>5. Max(T) \in T /\ \A y \in T : Max(T) >= y
  BY <1>4 DEF Max
<1> QED BY <1>5


\* What holds of 0 and of n + 1 when it holds of n holds up to N.
LEMMA Reaches ==
    ASSUME NEW N \in Nat, NEW S, 0 \in S,
           \A n \in 0 .. (N - 1) : n \in S => n + 1 \in S
    PROVE  0 .. N \subseteq S
<1> DEFINE T == (0 .. N) \ S
<1> SUFFICES ASSUME T # {} PROVE FALSE
  OBVIOUS
<1>1. T \in SUBSET Nat
  OBVIOUS
<1>2. PICK x \in T : \A y \in T : x <= y
  <2> HIDE DEF T
  <2> QED
    BY <1>1, Least
<1>3. x # 0 /\ x - 1 \in 0 .. (N - 1)
  BY <1>2
<1>4. x - 1 \in S
  BY <1>2, <1>3
<1> QED
  BY <1>2, <1>3, <1>4
----------------------------------------------------------------------------
(* Concatenation of many sequences.                                        *)

\* FlattenSeq appends one sequence after the other.
Joins(f, s, S) ==
    /\ f \in [0 .. Len(s) -> Seq(S)]
    /\ f[0] = << >>
    /\ \A i \in 1 .. Len(s) : f[i] = f[i - 1] \o s[i]

\* The recursive definition in FlattenSeq has a solution.
LEMMA FlattenFacts ==
    ASSUME NEW S, NEW s \in Seq(Seq(S))
    PROVE  \E f : Joins(f, s, S) /\ FlattenSeq(s) = f[Len(s)]
<1> DEFINE n == Len(s)
           B(g) == [i \in 1 .. n |-> IF i = 1 THEN s[i] ELSE g[i - 1] \o s[i]]
           Good(g, m) == \A i \in 1 .. m : g[i] = IF i = 1 THEN s[i] ELSE g[i - 1] \o s[i]
           h == CHOOSE g : g = B(g)
<1>1. n \in Nat /\ \A i \in 1 .. n : s[i] \in Seq(S)
  OBVIOUS
<1>2. \E g : g = B(g)
  <2> DEFINE T == {m \in 0 .. n : \E g : DOMAIN g = 1 .. n /\ g = [i \in 1 .. n |-> g[i]] /\ Good(g, m)}
  <2>1. 0 \in T
    <3> DEFINE g == [i \in 1 .. n |-> << >>]
    <3>1. DOMAIN g = 1 .. n /\ g = [i \in 1 .. n |-> g[i]] /\ Good(g, 0)
      BY <1>1
    <3> QED BY <1>1, <3>1
  <2>2. ASSUME NEW m \in 0 .. (n - 1), m \in T PROVE m + 1 \in T
    <3>1. PICK g : DOMAIN g = 1 .. n /\ g = [i \in 1 .. n |-> g[i]] /\ Good(g, m)
      BY <2>2
    <3> DEFINE k == [i \in 1 .. n |-> IF i = m + 1 THEN (IF i = 1 THEN s[i] ELSE g[i - 1] \o s[i])
                                       ELSE g[i]]
    <3>2. \A i \in 1 .. n : i # m + 1 => k[i] = g[i]
      OBVIOUS
    <3>3. k[m + 1] = IF m + 1 = 1 THEN s[m + 1] ELSE g[m + 1 - 1] \o s[m + 1]
      BY <1>1
    <3>4. DOMAIN k = 1 .. n /\ k = [i \in 1 .. n |-> k[i]]
      OBVIOUS
    <3> HIDE DEF k
    <3>5. ASSUME NEW i \in 1 .. (m + 1)
          PROVE  k[i] = IF i = 1 THEN s[i] ELSE k[i - 1] \o s[i]
      <4>1. i # 1 => i - 1 \in 1 .. n /\ i - 1 # m + 1
        BY <1>1
      <4>2. i # 1 => k[i - 1] = g[i - 1]
        BY <3>2, <4>1
      <4>3. CASE i = m + 1
        BY <3>3, <4>2, <4>3
      <4>4. CASE i # m + 1
        <5>1. i \in 1 .. m /\ i \in 1 .. n
          BY <1>1, <4>4
        <5> QED BY <3>1, <3>2, <4>2, <4>4, <5>1
      <4> QED BY <4>3, <4>4
    <3>6. m + 1 \in 0 .. n
      BY <1>1
    <3> QED BY <3>4, <3>5, <3>6
  <2>3. n \in T
    <3> HIDE DEF T, n
    <3>1. 0 .. n \subseteq T
      BY <1>1, <2>1, <2>2, Reaches
    <3> QED BY <1>1, <3>1
  <2>4. PICK g : DOMAIN g = 1 .. n /\ g = [i \in 1 .. n |-> g[i]] /\ Good(g, n)
    BY <2>3
  <2>5. g = B(g)
    BY <2>4
  <2> QED BY <2>5
<1>3. h = B(h)
  <2> HIDE DEF B
  <2> QED BY <1>2
<1>4. FlattenSeq(s) = IF n = 0 THEN s ELSE h[n]
  BY DEF FlattenSeq
<1>5. \A i \in 1 .. n : h[i] = IF i = 1 THEN s[i] ELSE h[i - 1] \o s[i]
  <2> HIDE DEF h
  <2> QED BY <1>3
<1> HIDE DEF h, B
<1> DEFINE T == {m \in 0 .. n : m > 0 => h[m] \in Seq(S)}
<1>6. \A m \in 1 .. n : h[m] \in Seq(S)
  <2>1. ASSUME NEW m \in 0 .. (n - 1), m \in T PROVE m + 1 \in T
    <3>1. m + 1 \in 1 .. n /\ m + 1 \in 0 .. n /\ s[m + 1] \in Seq(S)
      BY <1>1
    <3>2. CASE m = 0
      <4>1. h[m + 1] = s[m + 1]
        BY <1>5, <3>1, <3>2
      <4> QED BY <3>1, <4>1
    <3>3. CASE m # 0
      <4>1. m + 1 # 1 /\ (m + 1) - 1 = m /\ m > 0
        BY <3>3
      <4>2. h[m + 1] = h[m] \o s[m + 1] /\ h[m] \in Seq(S)
        BY <1>5, <2>1, <3>1, <4>1
      <4>3. h[m + 1] \in Seq(S)
        BY <3>1, <4>2, ConcatProperties
      <4> QED BY <3>1, <4>3
    <3> QED BY <3>2, <3>3
  <2>2. 0 \in T
    BY <1>1
  <2>3. 0 .. n \subseteq T
    <3> HIDE DEF T, n
    <3> QED BY <1>1, <2>1, <2>2, Reaches
  <2>4. ASSUME NEW m \in 1 .. n PROVE h[m] \in Seq(S)
    <3>1. m \in 0 .. n /\ m > 0
      BY <1>1
    <3>2. m \in T
      BY <2>3, <3>1
    <3> QED BY <3>1, <3>2
  <2> QED BY <2>4
<1> DEFINE f == [i \in 0 .. n |-> IF i = 0 THEN << >> ELSE h[i]]
<1>7. f \in [0 .. n -> Seq(S)] /\ f[0] = << >>
  BY <1>1, <1>6
<1>8. ASSUME NEW i \in 1 .. n PROVE f[i] = f[i - 1] \o s[i]
  <2>1. i \in 0 .. n /\ i - 1 \in 0 .. n /\ i # 0 /\ s[i] \in Seq(S)
    BY <1>1
  <2>2. CASE i = 1
    <3>1. f[i] = s[i] /\ f[i - 1] = << >>
      BY <1>5, <2>1, <2>2
    <3>2. << >> \o s[i] = s[i]
      BY <2>1, ConcatEmptySeq
    <3> QED BY <3>1, <3>2
  <2>3. CASE i # 1
    <3>1. i - 1 # 0
      BY <2>3
    <3> QED BY <1>5, <2>1, <2>3, <3>1
  <2> QED BY <2>2, <2>3
<1>9. Joins(f, s, S)
  BY <1>7, <1>8 DEF Joins
<1>10. FlattenSeq(s) = f[n]
  <2>1. CASE n = 0
    <3>1. s = << >>
      BY <2>1
    <3> QED BY <1>4, <1>7, <2>1, <3>1
  <2>2. CASE n # 0
    BY <1>1, <1>4, <2>2
  <2> QED BY <2>1, <2>2
<1> HIDE DEF f
<1> QED BY <1>9, <1>10

\* A sequence has the elements of x after its first o ones.
Holds(t, o, x) == \A j \in 1 .. Len(x) : t[o + j] = x[j]

\* Each sequence keeps its elements, behind those of the sequences before it.
LEMMA JoinsPlaces ==
    ASSUME NEW S, NEW s \in Seq(Seq(S)), NEW f, Joins(f, s, S)
    PROVE  \A k \in 1 .. Len(s) : \A e \in k .. Len(s) :
           /\ Len(f[k - 1]) \in Nat /\ Len(f[k]) \in Nat /\ Len(s[k]) \in Nat
           /\ Len(f[k]) = Len(f[k - 1]) + Len(s[k])
           /\ Len(f[k]) <= Len(f[e])
           /\ Holds(f[e], Len(f[k - 1]), s[k])
<1> TAKE k \in 1 .. Len(s)
<1> TAKE e \in k .. Len(s)
<1> DEFINE n == Len(s)
           L(i) == Len(f[i])
           W(i) == Len(s[i])
<1>1. n \in Nat /\ \A i \in 1 .. n : s[i] \in Seq(S) /\ W(i) \in Nat
  OBVIOUS
<1>2. \A i \in 0 .. n : f[i] \in Seq(S) /\ L(i) \in Nat
  <2>1. f \in [0 .. n -> Seq(S)]
    BY DEF Joins
  <2> HIDE DEF n
  <2>2. ASSUME NEW i \in 0 .. n PROVE f[i] \in Seq(S) /\ Len(f[i]) \in Nat
    <3>1. f[i] \in Seq(S)
      BY <2>1
    <3> QED BY <3>1, LenProperties
  <2> QED BY <2>2
<1>3. ASSUME NEW i \in 1 .. n
      PROVE  /\ i - 1 \in 0 .. n /\ i \in 0 .. n
             /\ L(i) = L(i - 1) + W(i)
             /\ \A j \in 1 .. L(i) :
                  f[i][j] = IF j <= L(i - 1) THEN f[i - 1][j] ELSE s[i][j - L(i - 1)]
  <2>1. i - 1 \in 0 .. n /\ i \in 0 .. n
    BY <1>1
  <2>2. f[i] = f[i - 1] \o s[i]
    BY DEF Joins
  <2> DEFINE x == f[i - 1]
             y == s[i]
  <2>3. x \in Seq(S) /\ y \in Seq(S) /\ f[i] = x \o y
    BY <1>1, <1>2, <2>1, <2>2
  <2> HIDE DEF x, y
  <2>4. /\ Len(f[i]) = Len(x) + Len(y)
        /\ \A j \in 1 .. Len(x) + Len(y) : f[i][j] = IF j <= Len(x) THEN x[j] ELSE y[j - Len(x)]
    BY <2>3, ConcatProperties
  <2> QED BY <2>1, <2>4 DEF x, y
<1> HIDE DEF L, W
<1> DEFINE P(m) == \A i \in 1 .. m :
                     /\ L(i) <= L(m)
                     /\ \A j \in 1 .. W(i) : f[m][L(i - 1) + j] = s[i][j]
           T == {m \in 0 .. n : P(m)}
<1>4. 0 \in T
  BY <1>1
<1>5. ASSUME NEW m \in 0 .. (n - 1), m \in T PROVE m + 1 \in T
  <2>1. m + 1 \in 1 .. n /\ (m + 1) - 1 = m /\ m \in 0 .. n /\ m + 1 \in 0 .. n
    BY <1>1
  <2>2. L(m + 1) = L(m) + W(m + 1)
    BY <1>3, <2>1
  <2>3. \A j \in 1 .. L(m + 1) :
          f[m + 1][j] = IF j <= L(m) THEN f[m][j] ELSE s[m + 1][j - L(m)]
    BY <1>3, <2>1
  <2>4. ASSUME NEW i \in 1 .. (m + 1)
        PROVE  /\ L(i) <= L(m + 1)
               /\ \A j \in 1 .. W(i) : f[m + 1][L(i - 1) + j] = s[i][j]
    <3>1. CASE i = m + 1
      <4>1. L(i) <= L(m + 1)
        BY <1>2, <2>1, <3>1
      <4>2. ASSUME NEW j \in 1 .. W(i) PROVE f[m + 1][L(i - 1) + j] = s[i][j]
        <5>1. i - 1 = m /\ L(m) \in Nat /\ W(m + 1) \in Nat /\ j \in Nat
          BY <1>1, <1>2, <2>1, <3>1
        <5>2. L(m) + j \in 1 .. L(m + 1) /\ ~(L(m) + j <= L(m))
              /\ (L(m) + j) - L(m) = j
          BY <2>2, <3>1, <5>1, SMTT(30)
        <5> QED BY <2>3, <3>1, <5>1, <5>2
      <4> QED BY <4>1, <4>2
    <3>2. CASE i # m + 1
      <4>1. i \in 1 .. m /\ i \in 1 .. n /\ i \in 0 .. n /\ i - 1 \in 0 .. n
        BY <1>1, <3>2
      <4>2. /\ L(i) <= L(m)
            /\ \A j \in 1 .. W(i) : f[m][L(i - 1) + j] = s[i][j]
        BY <1>5, <4>1
      <4>3. /\ L(i) \in Nat /\ L(i - 1) \in Nat /\ W(i) \in Nat
            /\ L(m) \in Nat /\ L(m + 1) \in Nat /\ W(m + 1) \in Nat
            /\ L(i) = L(i - 1) + W(i)
        BY <1>1, <1>2, <1>3, <2>1, <4>1
      <4>4. L(i) <= L(m + 1)
        <5> DEFINE a == L(i)
                   b == L(m)
                   c == L(m + 1)
                   w == W(m + 1)
        <5>1. a \in Nat /\ b \in Nat /\ w \in Nat /\ c = b + w /\ a <= b
          BY <2>2, <4>2, <4>3
        <5> HIDE DEF a, b, c, w
        <5>2. a <= c
          BY <5>1
        <5> QED BY <5>2 DEF a, c
      <4>5. ASSUME NEW j \in 1 .. W(i) PROVE f[m + 1][L(i - 1) + j] = s[i][j]
        <5>0. j \in Nat /\ 1 <= j /\ j <= W(i)
          BY <4>3
        <5>1. L(i - 1) + j \in 1 .. L(m + 1) /\ L(i - 1) + j <= L(m)
          <6> DEFINE p == L(i - 1)
          <6> HIDE DEF p
          <6>1. p \in Nat /\ L(i) = p + W(i)
            BY <4>3 DEF p
          <6>2. p + j <= L(m) /\ p + j >= 1 /\ p + j \in Nat
            <7> DEFINE a == L(i)
                       b == L(m)
                       w == W(i)
            <7>1. a \in Nat /\ b \in Nat /\ w \in Nat
              BY <4>3
            <7>2. a <= b /\ a = p + w /\ j <= w
              BY <4>2, <5>0, <6>1
            <7> HIDE DEF a, b, w
            <7>3. p + j <= b /\ p + j >= 1 /\ p + j \in Nat
              BY <5>0, <6>1, <7>1, <7>2
            <7> QED BY <7>3 DEF b
          <6>3. p + j <= L(m + 1)
            <7> DEFINE a == p + j
                       b == L(m)
                       c == L(m + 1)
                       w == W(m + 1)
            <7>1. a \in Nat /\ b \in Nat /\ w \in Nat /\ c = b + w /\ a <= b
              BY <2>2, <4>3, <6>2
            <7> HIDE DEF a, b, c, w
            <7>2. a <= c
              BY <7>1
            <7> QED BY <7>2 DEF a, c
          <6> QED BY <4>3, <6>2, <6>3 DEF p
        <5>2. f[m + 1][L(i - 1) + j] = f[m][L(i - 1) + j]
          BY <2>3, <5>1
        <5> QED BY <4>2, <5>2
      <4> QED BY <4>4, <4>5
    <3> QED BY <3>1, <3>2
  <2> QED BY <2>1, <2>4
<1>6. e \in T
  <2>0. e \in 0 .. n
    BY <1>1
  <2> HIDE DEF T, n
  <2>1. 0 .. n \subseteq T
    BY <1>1, <1>4, <1>5, Reaches
  <2> QED BY <2>0, <2>1
<1>7. P(e)
  BY <1>6
<1> HIDE DEF P, T
<1>8. k \in 1 .. n /\ k \in 0 .. n /\ k - 1 \in 0 .. n /\ k \in 1 .. e
  BY <1>1
<1> QED BY <1>1, <1>2, <1>3, <1>7, <1>8 DEF P, L, W, Holds
----------------------------------------------------------------------------
(* Parts of a sequence.                                                    *)

\* The n elements after the a-th,
LEMMA SegmentFacts ==
    ASSUME NEW S, NEW s \in Seq(S), NEW a \in Nat, NEW n \in Nat, a + n <= Len(s)
    PROVE  /\ SubSeq(s, a + 1, a + n) \in Seq(S) /\ Len(SubSeq(s, a + 1, a + n)) = n
           /\ \A i \in 1 .. n : SubSeq(s, a + 1, a + n)[i] = s[a + i]
<1> DEFINE x == SubSeq(s, a + 1, a + n)
           l == Len(s)
<1>1. l \in Nat /\ a + n <= l /\ \A i \in 1 .. l : s[i] \in S
  BY LenProperties
<1> HIDE DEF l
<1>2. a + 1 \in Int /\ a + n \in Int /\ \A i \in a + 1 .. a + n : i \in 1 .. l
  BY <1>1
<1>3. \A i \in a + 1 .. a + n : s[i] \in S
  BY <1>1, <1>2
<1>4. /\ x \in Seq(S)
      /\ Len(x) = IF a + 1 <= a + n THEN (a + n) - (a + 1) + 1 ELSE 0
      /\ \A i \in 1 .. (a + n) - (a + 1) + 1 : x[i] = s[(a + 1) + i - 1]
  BY <1>2, <1>3, SubSeqProperties, SMTT(30)
<1> HIDE DEF x
<1>5. /\ (IF a + 1 <= a + n THEN (a + n) - (a + 1) + 1 ELSE 0) = n
      /\ (a + n) - (a + 1) + 1 = n
      /\ \A i \in 1 .. n : (a + 1) + i - 1 = a + i
  OBVIOUS
<1>6. x \in Seq(S) /\ Len(x) = n /\ \A i \in 1 .. n : x[i] = s[a + i]
  BY <1>4, <1>5
<1> QED BY <1>6 DEF x

\* and the first n.
LEMMA PrefixFacts ==
    ASSUME NEW S, NEW s \in Seq(S), NEW n \in Nat, n <= Len(s)
    PROVE  /\ SubSeq(s, 1, n) \in Seq(S) /\ Len(SubSeq(s, 1, n)) = n
           /\ \A i \in 1 .. n : SubSeq(s, 1, n)[i] = s[i]
<1>1. 0 \in Nat /\ 0 + n <= Len(s) /\ 0 + 1 = 1 /\ 0 + n = n /\ \A i \in 1 .. n : 0 + i = i
  OBVIOUS
<1>2. /\ SubSeq(s, 0 + 1, 0 + n) \in Seq(S) /\ Len(SubSeq(s, 0 + 1, 0 + n)) = n
      /\ \A i \in 1 .. n : SubSeq(s, 0 + 1, 0 + n)[i] = s[0 + i]
  BY <1>1, SegmentFacts
<1> QED BY <1>1, <1>2
----------------------------------------------------------------------------
(* Lengths and pairs.                                                      *)

Bytes(long) == IF long THEN 4 ELSE 1

Fits(n, long) == (IF long THEN ((n \div 256) \div 256) \div 256 ELSE n) < 128

LEMMA ByteShift ==
    ASSUME NEW x \in Nat
    PROVE  x \div 256 \in Nat /\ (x \div 256) * 256 + (x % 256) = x
BY Z3

\* What a length is encoded as.
LEMMA LengthForm ==
    ASSUME NEW n \in Nat, NEW long \in BOOLEAN, Fits(n, long)
    PROVE  /\ EncodeLength(n, long) \in Seq(Byte) /\ Len(EncodeLength(n, long)) = Bytes(long)
           /\ ~long => EncodeLength(n, long)[1] = n /\ n < 128
           /\ long =>
                /\ EncodeLength(n, long)[1] >= 128
                /\ (((EncodeLength(n, long)[1] - 128) * 256 + EncodeLength(n, long)[2]) * 256
                     + EncodeLength(n, long)[3]) * 256 + EncodeLength(n, long)[4] = n
<1>1. CASE ~long
  <2>1. EncodeLength(n, long) = <<n>> /\ n \in Byte /\ n < 128
    BY <1>1 DEF EncodeLength, Fits, Byte
  <2> QED BY <1>1, <2>1 DEF Bytes
<1>2. CASE long
  <2> DEFINE a == ((n \div 256) \div 256) \div 256
             b == ((n \div 256) \div 256) % 256
             c == (n \div 256) % 256
             d == n % 256
  <2>1. EncodeLength(n, long) = <<128 + a, b, c, d>>
    BY <1>2 DEF EncodeLength
  <2>2. a < 128
    BY <1>2 DEF Fits
  <2>3. a \in Nat /\ 128 + a \in Byte /\ b \in Byte /\ c \in Byte /\ d \in Byte
    BY <2>2, Z3 DEF Byte
  <2>4. ((a * 256 + b) * 256 + c) * 256 + d = n
    <3> DEFINE x == n \div 256
               y == x \div 256
    <3>1. x \in Nat /\ x * 256 + d = n
      BY ByteShift
    <3>2. y \in Nat /\ y * 256 + c = x
      BY <3>1, ByteShift
    <3>3. a * 256 + b = y
      <4>1. (y \div 256) * 256 + (y % 256) = y
        <5> HIDE DEF x, y
        <5> QED BY <3>2, ByteShift
      <4> QED BY <4>1, Zenon
    <3> HIDE DEF a, b, c, d, x, y
    <3> QED BY <3>1, <3>2, <3>3
  <2> HIDE DEF a, b, c, d
  <2>5. (128 + a) - 128 = a /\ 128 + a >= 128
    BY <2>3
  <2> DEFINE z == 128 + a
             t == <<z, b, c, d>>
  <2>6. z \in Byte /\ z >= 128 /\ z - 128 = a
    BY <2>3, <2>5
  <2> HIDE DEF z
  <2>7. t \in Seq(Byte) /\ Len(t) = 4 /\ t[1] = z /\ t[2] = b /\ t[3] = c /\ t[4] = d
    BY <2>3, <2>6
  <2>8. EncodeLength(n, long) = t
    BY <2>1 DEF z
  <2> HIDE DEF t
  <2>9. Len(t) = Bytes(long)
    BY <1>2, <2>7 DEF Bytes
  <2>10. (((t[1] - 128) * 256 + t[2]) * 256 + t[3]) * 256 + t[4] = n
    BY <2>4, <2>6, <2>7
  <2> QED BY <1>2, <2>6, <2>7, <2>8, <2>9, <2>10
<1> QED BY <1>1, <1>2

\* The first byte tells the form.
LEMMA LeadByte ==
    ASSUME NEW n \in Nat, NEW long \in BOOLEAN, Fits(n, long), long
    PROVE  EncodeLength(n, long)[1] \in Byte /\ EncodeLength(n, long)[1] >= 128
<1> DEFINE e == EncodeLength(n, long)
<1>1. e \in Seq(Byte) /\ Len(e) = 4 /\ e[1] >= 128
  <2>1. /\ e \in Seq(Byte) /\ Len(e) = Bytes(long)
        /\ long => e[1] >= 128
    BY LengthForm, Zenon
  <2>2. Bytes(long) = 4
    BY Zenon DEF Bytes
  <2> QED BY <2>1, <2>2, Zenon
<1> HIDE DEF e
<1>2. 1 \in 1 .. Len(e)
  BY <1>1
<1>3. e[1] \in Byte
  BY <1>1, <1>2, ElementOfSeq
<1> QED BY <1>1, <1>3 DEF e

\* decode_length returns what was encoded and stops behind it.
LEMMA LengthDecoded ==
    ASSUME NEW n \in Nat, NEW long \in BOOLEAN, Fits(n, long),
           NEW data \in Seq(Byte), NEW o \in Nat, o + Bytes(long) <= Len(data),
           \A j \in 1 .. Bytes(long) : data[o + j] = EncodeLength(n, long)[j]
    PROVE  decode_length(data, o) = [ok |-> TRUE, value |-> n, next |-> o + Bytes(long)]
<1> DEFINE e == EncodeLength(n, long)
           l == Len(data)
<1>1. /\ ~long => e[1] = n /\ n < 128
      /\ long => /\ e[1] >= 128
                 /\ (((e[1] - 128) * 256 + e[2]) * 256 + e[3]) * 256 + e[4] = n
  BY LengthForm
<1>2. l \in Nat
  OBVIOUS
<1> HIDE DEF e, l
<1>3. CASE ~long
  <2>1. o + 1 <= l /\ data[o + 1] = e[1] /\ ~(o >= l)
    BY <1>2, <1>3 DEF Bytes, e, l
  <2> QED BY <1>1, <1>3, <2>1 DEF decode_length, Bytes, l
<1>4. CASE long
  <2>1. o + 4 <= l /\ ~(o >= l) /\ ~(l - (o + 1) < 3)
    BY <1>2, <1>4 DEF Bytes, e, l
  <2>2. data[o + 1] = e[1] /\ data[o + 2] = e[2] /\ data[o + 3] = e[3] /\ data[o + 4] = e[4]
    <3>1. Bytes(long) = 4
      BY <1>4 DEF Bytes
    <3>2. \A j \in 1 .. 4 : data[o + j] = e[j]
      BY <3>1 DEF e
    <3> QED BY <3>2
  <2>3. ~(data[o + 1] < 128)
    <3> DEFINE x == e[1]
    <3>1. x \in Byte /\ x >= 128
      BY <1>4, LeadByte DEF e
    <3>2. ~(x < 128)
      <4> HIDE DEF x
      <4> QED BY <3>1 DEF Byte
    <3> QED BY <2>2, <3>2
  <2>4. decode_length(data, o) =
          [ok |-> TRUE,
           value |-> (((data[o + 1] - 128) * 256 + data[o + 2]) * 256
                         + data[o + 3]) * 256 + data[o + 4],
           next |-> o + 4]
    BY <2>1, <2>3, Zenon DEF decode_length, l
  <2>5. (((e[1] - 128) * 256 + e[2]) * 256 + e[3]) * 256 + e[4] = n
    BY <1>1, <1>4, Zenon
  <2>6. Bytes(long) = 4
    BY <1>4, Zenon DEF Bytes
  <2> QED BY <2>2, <2>4, <2>5, <2>6, ZenonT(40)
<1> QED BY <1>3, <1>4

\* decode_length notices that the length is not complete.
LEMMA LengthCut ==
    ASSUME NEW n \in Nat, NEW long \in BOOLEAN, Fits(n, long),
           NEW data \in Seq(Byte), NEW o \in Nat, o <= Len(data), Len(data) < o + Bytes(long),
           \A j \in 1 .. Len(data) - o : data[o + j] = EncodeLength(n, long)[j]
    PROVE  decode_length(data, o).ok = FALSE
<1> DEFINE l == Len(data)
           e == EncodeLength(n, long)
<1>1. l \in Nat
  OBVIOUS
<1>2. CASE o >= l
  BY <1>2 DEF decode_length, NoLength
<1>3. CASE ~(o >= l)
  <2>1. long /\ l - (o + 1) < 3 /\ 1 \in 1 .. l - o
    BY <1>1, <1>3 DEF Bytes
  <2> DEFINE x == e[1]
  <2>2. data[o + 1] = x /\ x \in Byte /\ x >= 128
    BY <2>1, LeadByte
  <2> HIDE DEF x
  <2>3. ~(x < 128)
    BY <2>2 DEF Byte
  <2>4. ~(data[o + 1] < 128)
    BY <2>2, <2>3
  <2> QED BY <1>3, <2>1, <2>4 DEF decode_length, NoLength
<1> QED BY <1>2, <1>3

\* decode_length stays inside the data.
LEMMA LengthBounds ==
    ASSUME NEW data \in Seq(Byte), NEW o \in Nat, decode_length(data, o).ok
    PROVE  decode_length(data, o).value \in Nat /\ decode_length(data, o).next \in (o + 1) .. Len(data)
<1> DEFINE l == Len(data)
<1>1. l \in Nat /\ \A i \in 1 .. l : data[i] \in Byte
  OBVIOUS
<1>2. ~(o >= l)
  BY DEF decode_length, NoLength
<1>3. o + 1 \in 1 .. l /\ data[o + 1] \in Byte
  BY <1>1, <1>2
<1>4. CASE data[o + 1] < 128
  <2>1. decode_length(data, o) = [ok |-> TRUE, value |-> data[o + 1], next |-> o + 1]
    BY <1>2, <1>4 DEF decode_length
  <2>2. \A x \in Byte : x \in Nat
    BY DEF Byte
  <2>3. o + 1 \in (o + 1) .. l
    BY <1>3
  <2> QED BY <1>3, <2>1, <2>2, <2>3
<1>5. CASE ~(data[o + 1] < 128)
  <2>1. ~(l - (o + 1) < 3)
    BY <1>2, <1>5 DEF decode_length, NoLength
  <2> DEFINE v == (((data[o + 1] - 128) * 256 + data[o + 2]) * 256 + data[o + 3]) * 256
                    + data[o + 4]
  <2>2. decode_length(data, o) = [ok |-> TRUE, value |-> v, next |-> o + 4]
    BY <1>2, <1>5, <2>1 DEF decode_length
  <2>3. o + 2 \in 1 .. l /\ o + 3 \in 1 .. l /\ o + 4 \in 1 .. l /\ o + 4 \in (o + 1) .. l
    BY <1>1, <2>1
  <2>4. data[o + 2] \in Byte /\ data[o + 3] \in Byte /\ data[o + 4] \in Byte
    BY <1>1, <2>3
  <2>5. v \in Nat
    <3> DEFINE a == data[o + 1]
               b == data[o + 2]
               c == data[o + 3]
               d == data[o + 4]
    <3>1. a \in Byte /\ ~(a < 128) /\ b \in Byte /\ c \in Byte /\ d \in Byte
      BY <1>3, <1>5, <2>4
    <3> HIDE DEF a, b, c, d
    <3>2. a - 128 \in Nat /\ b \in Nat /\ c \in Nat /\ d \in Nat
      BY <3>1 DEF Byte
    <3>3. \A x, y \in Nat : x * 256 + y \in Nat
      OBVIOUS
    <3>4. (a - 128) * 256 + b \in Nat
      BY <3>2, <3>3
    <3> DEFINE e == (a - 128) * 256 + b
               f == e * 256 + c
    <3> HIDE DEF e
    <3>5. f \in Nat
      BY <3>2, <3>3, <3>4 DEF e
    <3> HIDE DEF f
    <3>6. f * 256 + d \in Nat
      BY <3>2, <3>3, <3>5
    <3> QED BY <3>6 DEF e, f, a, b, c, d
  <2> HIDE DEF v
  <2> QED BY <2>2, <2>3, <2>5
<1> QED BY <1>4, <1>5

\* The parts of an encoded pair: two lengths, the name, the value.
LEMMA PairForm ==
    ASSUME NEW p \in Pairs, Encodable(p)
    PROVE  LET l == Bytes(p.long)
               N == Len(p.name)
               V == Len(p.value)
               e == EncodePair(p)
           IN  /\ l \in {1, 4} /\ N \in Nat /\ V \in Nat /\ Fits(N, p.long) /\ Fits(V, p.long)
               /\ e \in Seq(Byte) /\ Len(e) = l + l + N + V
               /\ \A j \in 1 .. l : e[j] = EncodeLength(N, p.long)[j]
               /\ \A j \in 1 .. l : e[l + j] = EncodeLength(V, p.long)[j]
               /\ \A j \in 1 .. N : e[l + l + j] = p.name[j]
               /\ \A j \in 1 .. V : e[l + l + N + j] = p.value[j]
<1> DEFINE l == Bytes(p.long)
           N == Len(p.name)
           V == Len(p.value)
           a == EncodeLength(N, p.long)
           b == EncodeLength(V, p.long)
           c == p.name
           d == p.value
<1>1. c \in Seq(Byte) /\ d \in Seq(Byte) /\ p.long \in BOOLEAN
  BY DEF Pairs
<1>2. N \in Nat /\ V \in Nat /\ Fits(N, p.long) /\ Fits(V, p.long)
  <2>1. Fits(N, p.long) /\ Fits(V, p.long)
    BY Zenon DEF Encodable, Fits
  <2> QED BY <1>1, <2>1
<1>3. a \in Seq(Byte) /\ b \in Seq(Byte) /\ Len(a) = l /\ Len(b) = l
  BY <1>1, <1>2, LengthForm
<1>4. l \in {1, 4}
  BY DEF Bytes
<1>5. EncodePair(p) = ((a \o b) \o c) \o d
  BY DEF EncodePair
<1>6. N = Len(c) /\ V = Len(d)
  OBVIOUS
<1> HIDE DEF a, b, c, d, N, V, l
<1> DEFINE x == a \o b
           y == x \o c
           z == y \o d
<1>7. /\ x \in Seq(Byte) /\ Len(x) = l + l
      /\ \A j \in 1 .. l : x[j] = a[j] /\ x[l + j] = b[j]
  <2>1. x \in Seq(Byte) /\ Len(x) = l + l
        /\ \A i \in 1 .. l + l : x[i] = IF i <= l THEN a[i] ELSE b[i - l]
    <3>1. /\ x \in Seq(Byte) /\ Len(x) = Len(a) + Len(b)
          /\ \A i \in 1 .. Len(a) + Len(b) :
                x[i] = IF i <= Len(a) THEN a[i] ELSE b[i - Len(a)]
      BY <1>3, ConcatProperties
    <3> HIDE DEF x
    <3> QED
      BY <1>3, <3>1
  <2> HIDE DEF x
  <2>2. ASSUME NEW j \in 1 .. l PROVE x[j] = a[j] /\ x[l + j] = b[j]
    <3>1. j \in 1 .. l + l /\ l + j \in 1 .. l + l /\ j <= l /\ ~(l + j <= l) /\ (l + j) - l = j
      BY <1>4
    <3> QED BY <2>1, <3>1
  <2> QED BY <2>1, <2>2
<1> HIDE DEF x
<1>8. /\ y \in Seq(Byte) /\ Len(y) = l + l + N
      /\ \A j \in 1 .. l + l : y[j] = x[j]
      /\ \A j \in 1 .. N : y[l + l + j] = c[j]
  <2>1. y \in Seq(Byte) /\ Len(y) = l + l + N
        /\ \A i \in 1 .. l + l + N : y[i] = IF i <= l + l THEN x[i] ELSE c[i - (l + l)]
    <3>1. y \in Seq(Byte) /\ Len(y) = Len(x) + Len(c)
          /\ \A i \in 1 .. Len(x) + Len(c) : y[i] = IF i <= Len(x) THEN x[i] ELSE c[i - Len(x)]
      BY <1>1, <1>7, ConcatProperties
    <3> QED BY <1>6, <1>7, <3>1, Zenon
  <2> HIDE DEF y
  <2>2. ASSUME NEW j \in 1 .. l + l PROVE y[j] = x[j]
    <3>1. j \in 1 .. l + l + N /\ j <= l + l
      BY <1>2, <1>4
    <3> QED BY <2>1, <3>1
  <2>3. ASSUME NEW j \in 1 .. N PROVE y[l + l + j] = c[j]
    <3>1. l + l + j \in 1 .. l + l + N /\ ~(l + l + j <= l + l) /\ (l + l + j) - (l + l) = j
      BY <1>2, <1>4
    <3> QED BY <2>1, <3>1
  <2> QED BY <2>1, <2>2, <2>3
<1> HIDE DEF y
<1>9. /\ z \in Seq(Byte) /\ Len(z) = l + l + N + V
      /\ \A j \in 1 .. l + l + N : z[j] = y[j]
      /\ \A j \in 1 .. V : z[l + l + N + j] = d[j]
  <2>1. z \in Seq(Byte) /\ Len(z) = l + l + N + V
        /\ \A i \in 1 .. l + l + N + V : z[i] = IF i <= l + l + N THEN y[i] ELSE d[i - (l + l + N)]
    <3>1. z \in Seq(Byte) /\ Len(z) = Len(y) + Len(d)
          /\ \A i \in 1 .. Len(y) + Len(d) : z[i] = IF i <= Len(y) THEN y[i] ELSE d[i - Len(y)]
      BY <1>1, <1>8, ConcatProperties
    <3> QED BY <1>6, <1>8, <3>1, Zenon
  <2> HIDE DEF z
  <2>2. ASSUME NEW j \in 1 .. l + l + N PROVE z[j] = y[j]
    <3>1. j \in 1 .. l + l + N + V /\ j <= l + l + N
      BY <1>2, <1>4
    <3> QED BY <2>1, <3>1
  <2>3. ASSUME NEW j \in 1 .. V PROVE z[l + l + N + j] = d[j]
    <3>1. l + l + N + j \in 1 .. l + l + N + V /\ ~(l + l + N + j <= l + l + N)
          /\ (l + l + N + j) - (l + l + N) = j
      BY <1>2, <1>4
    <3> QED BY <2>1, <3>1
  <2> QED BY <2>1, <2>2, <2>3
<1>10. EncodePair(p) = z
  BY <1>5 DEF x, y
<1> HIDE DEF z
<1>11. ASSUME NEW j \in 1 .. l PROVE z[j] = a[j] /\ z[l + j] = b[j]
  <2>1. j \in 1 .. l + l /\ l + j \in 1 .. l + l /\ j \in 1 .. l + l + N /\ l + j \in 1 .. l + l + N
    BY <1>2, <1>4
  <2> QED BY <1>7, <1>8, <1>9, <2>1
<1>12. ASSUME NEW j \in 1 .. N PROVE z[l + l + j] = c[j]
  <2>1. l + l + j \in 1 .. l + l + N
    BY <1>2, <1>4
  <2> QED BY <1>8, <1>9, <2>1
<1> QED
  BY <1>2, <1>4, <1>9, <1>10, <1>11, <1>12 DEF a, b, c, d, N, V, l

\* The bytes of data behind an offset are those of a sequence, as far as both go.
Carries(data, o, e) == \A j \in 1 .. Len(e) : o + j <= Len(data) => data[o + j] = e[j]

\* The two lengths of a pair, when they are there.
LEMMA PairLengths ==
    ASSUME NEW p \in Pairs, Encodable(p), NEW data \in Seq(Byte), NEW o \in Nat, o <= Len(data),
           Carries(data, o, EncodePair(p))
    PROVE  LET l == Bytes(p.long)
           IN  /\ o + l <= Len(data) =>
                    decode_length(data, o) = [ok |-> TRUE, value |-> Len(p.name), next |-> o + l]
               /\ ~(o + l <= Len(data)) => decode_length(data, o).ok = FALSE
               /\ o + l + l <= Len(data) =>
                    decode_length(data, o + l) =
                        [ok |-> TRUE, value |-> Len(p.value), next |-> o + l + l]
               /\ o + l <= Len(data) /\ ~(o + l + l <= Len(data)) =>
                    decode_length(data, o + l).ok = FALSE
<1> DEFINE l == Bytes(p.long)
           N == Len(p.name)
           V == Len(p.value)
           e == EncodePair(p)
           L == Len(data)
<1>1. /\ l \in {1, 4} /\ N \in Nat /\ V \in Nat /\ Fits(N, p.long) /\ Fits(V, p.long)
      /\ Len(e) = l + l + N + V
      /\ \A j \in 1 .. l : e[j] = EncodeLength(N, p.long)[j]
      /\ \A j \in 1 .. l : e[l + j] = EncodeLength(V, p.long)[j]
  BY PairForm
<1>2. L \in Nat /\ p.long \in BOOLEAN
  BY DEF Pairs
<1>3. \A j \in 1 .. Len(e) : o + j <= L => data[o + j] = e[j]
  BY DEF Carries
<1> HIDE DEF l, N, V, e, L
<1>4. ASSUME NEW j \in 1 .. l, o + j <= L PROVE data[o + j] = EncodeLength(N, p.long)[j]
  <2>1. j \in 1 .. Len(e)
    BY <1>1
  <2> QED BY <1>1, <1>3, <1>4, <2>1
<1>5. ASSUME NEW j \in 1 .. l, (o + l) + j <= L PROVE data[(o + l) + j] = EncodeLength(V, p.long)[j]
  <2>1. l + j \in 1 .. Len(e) /\ o + (l + j) = (o + l) + j
    BY <1>1
  <2>2. data[o + (l + j)] = e[l + j]
    BY <1>3, <1>5, <2>1
  <2> QED BY <1>1, <2>1, <2>2
<1>6. ASSUME o + l <= L
      PROVE  decode_length(data, o) = [ok |-> TRUE, value |-> N, next |-> o + l]
  <2>1. \A j \in 1 .. l : o + j <= L
    BY <1>1, <1>2, <1>6
  <2>2. \A j \in 1 .. l : data[o + j] = EncodeLength(N, p.long)[j]
    BY <1>4, <2>1
  <2> QED BY <1>1, <1>2, <1>6, <2>2, LengthDecoded DEF l, L
<1>7. ASSUME ~(o + l <= L) PROVE decode_length(data, o).ok = FALSE
  <2>1. L < o + l /\ o <= L
    BY <1>1, <1>2, <1>7 DEF L
  <2>2. \A j \in 1 .. L - o : j \in 1 .. l /\ o + j <= L
    BY <1>1, <1>2, <2>1
  <2>3. \A j \in 1 .. L - o : data[o + j] = EncodeLength(N, p.long)[j]
    BY <1>4, <2>2
  <2> QED BY <1>1, <1>2, <2>1, <2>3, LengthCut DEF l, L
<1>8. ASSUME o + l + l <= L
      PROVE  decode_length(data, o + l) = [ok |-> TRUE, value |-> V, next |-> o + l + l]
  <2>0. o \in Nat /\ l \in Nat /\ L \in Nat
    BY <1>1, <1>2
  <2>1. (o + l) + l <= L /\ o + l \in Nat /\ \A j \in 1 .. l : (o + l) + j <= L
    BY <1>8, <2>0
  <2>2. \A j \in 1 .. l : data[(o + l) + j] = EncodeLength(V, p.long)[j]
    BY <1>5, <2>1
  <2> QED BY <1>1, <1>2, <2>1, <2>2, LengthDecoded DEF l, L
<1>9. ASSUME o + l <= L, ~(o + l + l <= L) PROVE decode_length(data, o + l).ok = FALSE
  <2>1. L < (o + l) + l /\ o + l <= L /\ o + l \in Nat
    BY <1>1, <1>2, <1>9
  <2>2. \A j \in 1 .. L - (o + l) : j \in 1 .. l /\ (o + l) + j <= L
    BY <1>1, <1>2, <2>1
  <2>3. \A j \in 1 .. L - (o + l) : data[(o + l) + j] = EncodeLength(V, p.long)[j]
    BY <1>5, <2>2
  <2> QED BY <1>1, <1>2, <2>1, <2>3, LengthCut DEF l, L
<1> QED BY <1>6, <1>7, <1>8, <1>9 DEF l, N, V, L

\* A round of the loop reads the pair that was written there, and stops behind it.
LEMMA PairDecoded ==
    ASSUME NEW p \in Pairs, Encodable(p), NEW data \in Seq(Byte), NEW o \in Nat,
           o + Len(EncodePair(p)) <= Len(data), Carries(data, o, EncodePair(p))
    PROVE  DecodePair(data, o) = [ok |-> TRUE, name |-> p.name, value |-> p.value,
                                  next |-> o + Len(EncodePair(p))]
<1> DEFINE l == Bytes(p.long)
           N == Len(p.name)
           V == Len(p.value)
           e == EncodePair(p)
           L == Len(data)
           at == o + l + l
<1>1. /\ l \in {1, 4} /\ N \in Nat /\ V \in Nat
      /\ Len(e) = l + l + N + V
      /\ \A j \in 1 .. N : e[l + l + j] = p.name[j]
      /\ \A j \in 1 .. V : e[l + l + N + j] = p.value[j]
  BY PairForm
<1>2. L \in Nat /\ p.name \in Seq(Byte) /\ p.value \in Seq(Byte)
      /\ \A i \in 1 .. L : data[i] \in Byte
  BY DEF Pairs
<1>3. o + Len(e) <= L /\ \A j \in 1 .. Len(e) : o + j <= L => data[o + j] = e[j]
  BY DEF Carries
<1>4. /\ o + l <= L =>
           decode_length(data, o) = [ok |-> TRUE, value |-> N, next |-> o + l]
      /\ o + l + l <= L =>
           decode_length(data, o + l) = [ok |-> TRUE, value |-> V, next |-> at]
  <2>1. o <= L
    <3> HIDE DEF L, e, l, N, V
    <3> QED BY <1>1, <1>2, <1>3
  <2> QED BY <2>1, PairLengths
<1> HIDE DEF l, N, V, e, L
<1>5. /\ o + l <= L /\ o + l + l <= L /\ ~(N > L - at) /\ ~(V > L - at - N)
      /\ at \in Nat /\ at + N + V = o + Len(e) /\ at + N + V <= L
  BY <1>1, <1>2, <1>3
<1>6. decode_length(data, o) = [ok |-> TRUE, value |-> N, next |-> o + l]
      /\ decode_length(data, o + l) = [ok |-> TRUE, value |-> V, next |-> at]
  BY <1>4, <1>5
<1>7. \A j \in 1 .. N : data[at + j] = p.name[j]
  <2> SUFFICES ASSUME NEW j \in 1 .. N PROVE data[at + j] = p.name[j]
    OBVIOUS
  <2>1. l + l + j \in 1 .. Len(e) /\ o + (l + l + j) = at + j
    BY <1>1
  <2>2. at + j <= L
    <3> HIDE DEF at
    <3> QED BY <1>1, <1>2, <1>5
  <2> QED BY <1>1, <1>3, <2>1, <2>2
<1>8. \A j \in 1 .. V : data[(at + N) + j] = p.value[j]
  <2> SUFFICES ASSUME NEW j \in 1 .. V PROVE data[(at + N) + j] = p.value[j]
    OBVIOUS
  <2>1. l + l + N + j \in 1 .. Len(e) /\ o + (l + l + N + j) = (at + N) + j /\ (at + N) + j <= L
    BY <1>1, <1>2, <1>5
  <2> QED BY <1>1, <1>3, <2>1
<1> HIDE DEF at
<1>9. SubSeq(data, at + 1, at + N) = p.name
  <2> DEFINE s == SubSeq(data, at + 1, at + N)
  <2>0. N \in Nat /\ V \in Nat /\ L \in Nat
    BY <1>1, <1>2
  <2>a. at \in Nat /\ at + N + V <= L
    BY <1>5
  <2> HIDE DEF at
  <2>1. at \in Nat /\ N \in Nat /\ at + N <= L
    BY <2>0, <2>a
  <2>2. s \in Seq(Byte) /\ Len(s) = N /\ \A i \in 1 .. N : s[i] = data[at + i]
    BY <2>1, SegmentFacts DEF L
  <2> HIDE DEF s
  <2>3. \A i \in 1 .. N : s[i] = p.name[i]
    BY <1>7, <2>2
  <2>4. s = p.name
    BY <1>2, <2>2, <2>3, SeqEqual DEF N
  <2> QED BY <2>4 DEF s
<1>10. SubSeq(data, (at + N) + 1, (at + N) + V) = p.value
  <2> DEFINE b == at + N
  <2>0. N \in Nat /\ V \in Nat
    BY <1>1
  <2>1. b \in Nat /\ V \in Nat /\ b + V <= L
    BY <1>5, <2>0
  <2>2. \A j \in 1 .. V : data[b + j] = p.value[j]
    BY <1>8
  <2> HIDE DEF b
  <2> DEFINE s == SubSeq(data, b + 1, b + V)
  <2>3. s \in Seq(Byte) /\ Len(s) = V /\ \A i \in 1 .. V : s[i] = data[b + i]
    BY <2>1, SegmentFacts DEF L
  <2> HIDE DEF s
  <2>4. \A i \in 1 .. V : s[i] = p.value[i]
    BY <2>2, <2>3
  <2>5. s = p.value
    BY <1>2, <2>3, <2>4, SeqEqual DEF V
  <2> QED BY <2>5 DEF s, b
<1>11. DecodePair(data, o) = [ok |-> TRUE, name |-> SubSeq(data, at + 1, at + N),
                              value |-> SubSeq(data, (at + N) + 1, (at + N) + V),
                              next |-> (at + N) + V]
  <2> DEFINE nl == decode_length(data, o)
             vl == decode_length(data, nl.next)
  <2>1. nl.ok /\ nl.value = N /\ nl.next = o + l
    BY <1>6
  <2>2. vl.ok /\ vl.value = V /\ vl.next = at
    BY <1>6, <2>1
  <2>3. DecodePair(data, o) =
          IF ~nl.ok \/ ~vl.ok \/ nl.value > L - vl.next \/ vl.value > L - vl.next - nl.value
          THEN NoPair
          ELSE [ok |-> TRUE, name |-> SubSeq(data, vl.next + 1, vl.next + nl.value),
                value |-> SubSeq(data, (vl.next + nl.value) + 1, (vl.next + nl.value) + vl.value),
                next |-> (vl.next + nl.value) + vl.value]
    BY Zenon DEF DecodePair, L
  <2> HIDE DEF nl, vl
  <2> QED BY <1>5, <2>1, <2>2, <2>3, Zenon
<1> QED BY <1>5, <1>9, <1>10, <1>11 DEF e

\* A round of the loop notices that the pair is not complete.
LEMMA PairCut ==
    ASSUME NEW p \in Pairs, Encodable(p), NEW data \in Seq(Byte), NEW o \in Nat,
           o <= Len(data), Len(data) < o + Len(EncodePair(p)), Carries(data, o, EncodePair(p))
    PROVE  DecodePair(data, o).ok = FALSE
<1> DEFINE l == Bytes(p.long)
           N == Len(p.name)
           V == Len(p.value)
           e == EncodePair(p)
           L == Len(data)
           at == o + l + l
<1>1. /\ l \in {1, 4} /\ N \in Nat /\ V \in Nat /\ Len(e) = l + l + N + V
  BY PairForm
<1>2. L \in Nat /\ L < o + Len(e)
  OBVIOUS
<1>3. /\ o + l <= L =>
           decode_length(data, o) = [ok |-> TRUE, value |-> N, next |-> o + l]
      /\ ~(o + l <= L) => decode_length(data, o).ok = FALSE
      /\ at <= L =>
           decode_length(data, o + l) = [ok |-> TRUE, value |-> V, next |-> at]
      /\ o + l <= L /\ ~(at <= L) => decode_length(data, o + l).ok = FALSE
  BY PairLengths
<1> HIDE DEF l, N, V, e, L
<1>4. CASE ~(o + l <= L)
  BY <1>3, <1>4 DEF DecodePair, NoPair
<1>5. CASE o + l <= L /\ ~(at <= L)
  BY <1>3, <1>5 DEF DecodePair, NoPair
<1>6. CASE at <= L
  <2>1. o + l <= L /\ (N > L - at \/ V > L - at - N)
    BY <1>1, <1>2, <1>6
  <2> HIDE DEF at
  <2> QED BY <1>3, <1>6, <2>1 DEF DecodePair, NoPair, L
<1> QED BY <1>1, <1>2, <1>4, <1>5, <1>6

\* A round of the loop goes forward and stays inside the data.
LEMMA PairBounds ==
    ASSUME NEW data \in Seq(Byte), NEW o \in Nat, DecodePair(data, o).ok
    PROVE  DecodePair(data, o).next \in (o + 1) .. Len(data)
<1> DEFINE L == Len(data)
           nl == decode_length(data, o)
           vl == decode_length(data, nl.next)
           a == nl.value
           b == vl.value
           x == nl.next
           y == vl.next
<1>1. L \in Nat
  OBVIOUS
<1>2. /\ nl.ok /\ vl.ok /\ ~(a > L - y) /\ ~(b > L - y - a)
      /\ DecodePair(data, o).next = (y + a) + b
  BY DEF DecodePair, NoPair
<1>3. a \in Nat /\ x \in (o + 1) .. L
  BY <1>2, LengthBounds
<1>4. x \in Nat
  BY <1>1, <1>3
<1>5. b \in Nat /\ y \in (x + 1) .. L
  BY <1>2, <1>4, LengthBounds
<1> HIDE DEF a, b, x, y, L
<1>6. (y + a) + b \in (o + 1) .. L
  BY <1>1, <1>2, <1>3, <1>4, <1>5
<1> QED BY <1>2, <1>6 DEF L
----------------------------------------------------------------------------
(* The loop of parse_params.                                               *)

\* What the loop comes to from an offset on, when g says what it comes to later.
Round(g, data, o) ==
    IF o = Len(data) THEN [ok |-> TRUE, pairs |-> << >>]
    ELSE IF ~DecodePair(data, o).ok THEN [ok |-> FALSE, pairs |-> << >>]
    ELSE [ok |-> g[DecodePair(data, o).next].ok,
          pairs |-> <<[name |-> DecodePair(data, o).name, value |-> DecodePair(data, o).value]>>
                        \o g[DecodePair(data, o).next].pairs]

\* It only looks at later offsets.
LEMMA RoundLooksAhead ==
    ASSUME NEW data \in Seq(Byte), NEW o \in 0 .. Len(data), NEW g, NEW h,
           \A x \in (o + 1) .. Len(data) : g[x] = h[x]
    PROVE  Round(g, data, o) = Round(h, data, o)
<1> DEFINE x == DecodePair(data, o).next
<1>1. DecodePair(data, o).ok => g[x] = h[x]
  <2>1. DecodePair(data, o).ok => x \in (o + 1) .. Len(data)
    BY PairBounds
  <2> HIDE DEF x
  <2> QED BY <2>1
<1> HIDE DEF x
<1> QED BY <1>1 DEF Round, x

\* The recursive definition in DecodePairs has a solution.
LEMMA LoopRuns ==
    ASSUME NEW data \in Seq(Byte)
    PROVE  \E g : DecodePairs(data) = g[0] /\ \A o \in 0 .. Len(data) : g[o] = Round(g, data, o)
<1> DEFINE L == Len(data)
           B(g) == [o \in 0 .. L |-> Round(g, data, o)]
           Good(g, m) == /\ g = [o \in 0 .. L |-> g[o]]
                         /\ \A o \in (L - m) .. L : g[o] = Round(g, data, o)
           T == {m \in 0 .. L : \E g : Good(g, m)}
<1>1. L \in Nat
  OBVIOUS
<1>2. 0 \in T
  <2> DEFINE g == [o \in 0 .. L |-> [ok |-> TRUE, pairs |-> << >>]]
  <2>1. g = [o \in 0 .. L |-> g[o]]
    OBVIOUS
  <2>2. ASSUME NEW o \in (L - 0) .. L PROVE g[o] = Round(g, data, o)
    <3>1. o = L /\ o \in 0 .. L
      BY <1>1
    <3> QED BY <3>1 DEF Round
  <2>3. Good(g, 0)
    BY <2>1, <2>2
  <2> HIDE DEF g, Good
  <2> QED BY <1>1, <2>3
<1>3. ASSUME NEW m \in 0 .. (L - 1), m \in T PROVE m + 1 \in T
  <2>1. PICK g : Good(g, m)
    BY <1>3
  <2> DEFINE p == L - (m + 1)
             h == [o \in 0 .. L |-> IF o = p THEN Round(g, data, p) ELSE g[o]]
  <2>2. p \in 0 .. L /\ m + 1 \in 0 .. L
    BY <1>1
  <2>3. h[p] = Round(g, data, p) /\ \A o \in 0 .. L : o # p => h[o] = g[o]
    BY <2>2
  <2>4. h = [o \in 0 .. L |-> h[o]]
    OBVIOUS
  <2> HIDE DEF h
  <2>5. ASSUME NEW o \in p .. L PROVE h[o] = Round(h, data, o)
    <3>1. o \in 0 .. L /\ \A x \in (o + 1) .. L : x \in 0 .. L /\ x # p
      BY <1>1, <2>2
    <3>2. \A x \in (o + 1) .. L : g[x] = h[x]
      BY <2>3, <3>1
    <3>3. Round(g, data, o) = Round(h, data, o)
      BY <3>1, <3>2, RoundLooksAhead
    <3>4. CASE o = p
      BY <2>3, <3>3, <3>4
    <3>5. CASE o # p
      <4>1. o \in (L - m) .. L
        BY <1>1, <3>5
      <4> QED BY <2>1, <2>3, <3>1, <3>3, <3>5, <4>1
    <3> QED BY <3>4, <3>5
  <2>6. Good(h, m + 1)
    BY <2>4, <2>5
  <2> HIDE DEF Good
  <2> QED BY <2>2, <2>6
<1>4. L \in T
  <2> HIDE DEF T, L
  <2>1. 0 .. L \subseteq T
    BY <1>1, <1>2, <1>3, Reaches
  <2> QED BY <1>1, <2>1
<1>5. \E g : g = B(g)
  <2>1. PICK g : Good(g, L)
    BY <1>4
  <2>2. \A o \in 0 .. L : g[o] = Round(g, data, o)
    BY <1>1, <2>1
  <2>3. g = [o \in 0 .. L |-> g[o]]
    BY <2>1
  <2>4. g = B(g)
    BY <2>2, <2>3
  <2> QED BY <2>4
<1> DEFINE h == CHOOSE g : g = B(g)
<1>6. h = B(h)
  <2> HIDE DEF B
  <2> QED BY <1>5
<1>7. DecodePairs(data) = h[0]
  BY Zenon DEF DecodePairs, Round
<1>8. \A o \in 0 .. L : h[o] = Round(h, data, o)
  <2> HIDE DEF h
  <2> QED BY <1>6
<1> HIDE DEF h
<1> QED BY <1>7, <1>8

\* Names and values as parse_params finds them.
Plain(p) == [name |-> p.name, value |-> p.value]

NameValues == [name : Seq(Byte), value : Seq(Byte)]

Encoded(w) == [i \in DOMAIN w.pairs |-> EncodePair(w.pairs[i])]

\* Where the pairs of a request lie in what is sent of it.
Lies(w, f) ==
    LET n    == Len(w.pairs)
        data == EncodeParams(w)
    IN  /\ n \in Nat /\ data \in Seq(Byte) /\ f[0] = 0
        /\ \A k \in 0 .. n : f[k] \in Nat
        /\ \A k \in 1 .. n : /\ f[k] = f[k - 1] + Len(EncodePair(w.pairs[k]))
                             /\ f[k - 1] < f[k]
                             /\ Carries(data, f[k - 1], EncodePair(w.pairs[k]))
                             /\ k < n => f[k] <= Len(data)
        /\ n > 0 => f[n - 1] < Len(data)
        /\ w.cut = 0 => f[n] = Len(data)
        /\ w.cut > 0 => n > 0 /\ Len(data) < f[n]

LEMMA PairsLie ==
    ASSUME NEW w, WellFormed(w)
    PROVE  \E f : Lies(w, f)
<1> DEFINE n == Len(w.pairs)
           s == Encoded(w)
           data == EncodeParams(w)
<1>1. w.pairs \in Seq(Pairs) /\ n \in Nat /\ DOMAIN w.pairs = 1 .. n /\ w.cut \in Nat
  BY DEF WellFormed
<1>2. ASSUME NEW k \in 1 .. n
      PROVE  w.pairs[k] \in Pairs /\ Encodable(w.pairs[k])
  BY <1>1 DEF WellFormed
<1>3. ASSUME NEW k \in 1 .. n
      PROVE  s[k] = EncodePair(w.pairs[k]) /\ s[k] \in Seq(Byte) /\ Len(s[k]) \in Nat /\ Len(s[k]) >= 2
  <2>1. s[k] = EncodePair(w.pairs[k])
    BY <1>1 DEF Encoded
  <2>2. w.pairs[k] \in Pairs /\ Encodable(w.pairs[k])
    BY <1>2
  <2> DEFINE p == w.pairs[k]
             e == EncodePair(p)
             l == Bytes(p.long)
             N == Len(p.name)
             V == Len(p.value)
  <2>3. e \in Seq(Byte) /\ Len(e) = l + l + N + V /\ l \in {1, 4} /\ N \in Nat /\ V \in Nat
    BY <2>2, PairForm
  <2> HIDE DEF e, l, N, V
  <2>4. Len(e) \in Nat /\ Len(e) >= 2
    BY <2>3
  <2> QED BY <2>1, <2>3, <2>4 DEF e
<1>4. s \in Seq(Seq(Byte)) /\ Len(s) = n
  <2>1. s = [i \in 1 .. n |-> EncodePair(w.pairs[i])]
    BY <1>1 DEF Encoded
  <2>2. \A i \in 1 .. n : EncodePair(w.pairs[i]) \in Seq(Byte)
    BY <1>3
  <2> HIDE DEF s, n
  <2> QED BY <1>1, <2>1, <2>2
<1>5. PICK g : Joins(g, s, Byte) /\ FlattenSeq(s) = g[n]
  BY <1>4, FlattenFacts
<1> DEFINE f == [k \in 0 .. n |-> Len(g[k])]
           W == Len(g[n])
<1> HIDE DEF s, n
<1>6. g[0] = << >> /\ \A k \in 0 .. n : g[k] \in Seq(Byte) /\ f[k] = Len(g[k]) /\ f[k] \in Nat
  <2>1. g \in [0 .. n -> Seq(Byte)] /\ g[0] = << >>
    BY <1>4, <1>5 DEF Joins
  <2> QED BY <2>1
<1>7. ASSUME NEW k \in 1 .. n, NEW e \in k .. n
      PROVE  /\ f[k] = f[k - 1] + Len(s[k]) /\ f[k] <= f[e]
             /\ \A j \in 1 .. Len(s[k]) : g[e][f[k - 1] + j] = s[k][j]
  <2>1. k \in 0 .. n /\ k - 1 \in 0 .. n /\ e \in 0 .. n
    BY <1>1
  <2>2. /\ Len(g[k]) = Len(g[k - 1]) + Len(s[k]) /\ Len(g[k]) <= Len(g[e])
        /\ \A j \in 1 .. Len(s[k]) : g[e][Len(g[k - 1]) + j] = s[k][j]
    <3>1. k \in 1 .. Len(s)
      BY <1>4
    <3>2. e \in k .. Len(s)
      BY <1>4
    <3>3. s \in Seq(Seq(Byte))
      BY <1>4
    <3>4. Joins(g, s, Byte)
      BY <1>5
    <3> HIDE DEF f, W
    <3>5. \A i \in 1 .. Len(s) : \A m \in i .. Len(s) :
          /\ Len(g[i - 1]) \in Nat /\ Len(g[i]) \in Nat /\ Len(s[i]) \in Nat
          /\ Len(g[i]) = Len(g[i - 1]) + Len(s[i])
          /\ Len(g[i]) <= Len(g[m])
          /\ Holds(g[m], Len(g[i - 1]), s[i])
      BY <3>3, <3>4, JoinsPlaces, Zenon
    <3> QED BY <3>1, <3>2, <3>5 DEF Holds
  <2>3. f[k] = Len(g[k]) /\ f[k - 1] = Len(g[k - 1]) /\ f[e] = Len(g[e])
    BY <1>6, <2>1
  <2> HIDE DEF f
  <2> QED BY <2>2, <2>3
<1>8. f[0] = 0 /\ W = f[n] /\ W \in Nat
  <2>1. 0 \in 0 .. n /\ n \in 0 .. n
    BY <1>1
  <2> QED BY <1>6, <2>1
<1> HIDE DEF f
<1>9. data = SubSeq(g[n], 1, W - w.cut)
  BY <1>5 DEF EncodeParams, Encoded, s
<1>10. w.cut > 0 => n > 0 /\ w.cut < Len(s[n])
  <2>1. w.cut > 0 => w.pairs # << >> /\ w.cut < Len(EncodePair(w.pairs[n]))
    BY DEF WellFormed, n
  <2>2. w.pairs # << >> => n > 0
    BY <1>1 DEF n
  <2>3. n > 0 => n \in 1 .. n
    BY <1>1
  <2> QED BY <1>3, <2>1, <2>2, <2>3
<1>11. w.cut <= W /\ (n > 0 => n \in 1 .. n /\ n - 1 \in 0 .. n /\ f[n] = f[n - 1] + Len(s[n]))
  <2>1. CASE n = 0
    BY <1>1, <1>8, <1>10, <2>1
  <2>2. CASE n # 0
    <3>1. n \in 1 .. n /\ n \in n .. n /\ n - 1 \in 0 .. n
      BY <1>1, <2>2
    <3>2. f[n] = f[n - 1] + Len(s[n]) /\ f[n - 1] \in Nat /\ Len(s[n]) \in Nat
      BY <1>3, <1>6, <1>7, <3>1
    <3> QED BY <1>1, <1>8, <1>10, <3>1, <3>2
  <2> QED BY <2>1, <2>2
<1>12. /\ data \in Seq(Byte) /\ Len(data) = W - w.cut
       /\ \A i \in 1 .. W - w.cut : data[i] = g[n][i]
  <2> DEFINE q == W - w.cut
             t == g[n]
  <2>1. q \in 0 .. W /\ t \in Seq(Byte) /\ Len(t) = W /\ n \in 0 .. n
    BY <1>1, <1>6, <1>8, <1>11
  <2>2. data = SubSeq(t, 1, q)
    BY <1>9
  <2> HIDE DEF q, t, W, data
  <2>3. \A i \in 1 .. q : t[i] \in Byte
    BY <2>1, <1>8
  <2>4. q \in Int /\ (IF 1 <= q THEN q - 1 + 1 ELSE 0) = q /\ q - 1 + 1 = q
        /\ \A i \in 1 .. q : 1 + i - 1 = i
    BY <1>8, <2>1
  <2>5. data \in Seq(Byte) /\ Len(data) = (IF 1 <= q THEN q - 1 + 1 ELSE 0)
        /\ \A i \in 1 .. q - 1 + 1 : data[i] = t[1 + i - 1]
    BY <2>2, <2>3, <2>4, SubSeqProperties
  <2> QED BY <2>4, <2>5 DEF q, t
<1> HIDE DEF data, W
<1>13. ASSUME NEW k \in 1 .. n
       PROVE  /\ f[k] = f[k - 1] + Len(EncodePair(w.pairs[k]))
              /\ f[k - 1] < f[k]
              /\ Carries(data, f[k - 1], EncodePair(w.pairs[k]))
              /\ k < n => f[k] <= Len(data)
  <2>1. n \in k .. n /\ k - 1 \in 0 .. n /\ k \in 0 .. n
    BY <1>1
  <2>2. s[k] = EncodePair(w.pairs[k]) /\ Len(s[k]) \in Nat /\ Len(s[k]) >= 2
    BY <1>3
  <2>3. f[k] = f[k - 1] + Len(s[k]) /\ f[k] \in Nat /\ f[k - 1] \in Nat
    BY <1>6, <1>7, <2>1
  <2>4. f[k - 1] < f[k]
    BY <2>2, <2>3
  <2>5. \A j \in 1 .. Len(s[k]) : g[n][f[k - 1] + j] = s[k][j]
    BY <1>7, <2>1
  <2>6. Carries(data, f[k - 1], s[k])
    <3> SUFFICES ASSUME NEW j \in 1 .. Len(s[k]), f[k - 1] + j <= Len(data)
                 PROVE  data[f[k - 1] + j] = s[k][j]
      BY DEF Carries
    <3>1. f[k - 1] \in Nat /\ j \in Nat /\ j >= 1 /\ Len(data) = W - w.cut /\ Len(data) \in Nat
      BY <1>12, <2>2, <2>3
    <3>2. f[k - 1] + j \in 1 .. W - w.cut
      <4> DEFINE a == f[k - 1]
                 b == Len(data)
      <4>1. a \in Nat /\ b \in Nat /\ a + j <= b /\ b = W - w.cut
        BY <3>1
      <4> HIDE DEF a, b
      <4>2. a + j \in 1 .. b
        BY <3>1, <4>1
      <4> QED BY <4>1, <4>2 DEF a
    <3> QED BY <1>12, <2>5, <3>2
  <2>7. ASSUME k < n PROVE f[k] <= Len(data)
    <3>1. n > 0 /\ n - 1 \in k .. n
      BY <1>1, <2>7
    <3>2. f[k] <= f[n - 1] /\ n \in 1 .. n /\ n - 1 \in 0 .. n
          /\ f[n] = f[n - 1] + Len(s[n]) /\ f[n - 1] \in Nat
      BY <1>6, <1>7, <1>11, <3>1
    <3>3. Len(s[n]) \in Nat /\ Len(s[n]) >= 2
      BY <1>3, <3>2
    <3>4. f[n - 1] <= W - w.cut
      BY <1>1, <1>8, <1>10, <3>2, <3>3
    <3> QED BY <1>1, <1>8, <1>12, <2>3, <3>2, <3>4
  <2> QED BY <2>2, <2>3, <2>4, <2>6, <2>7
<1>14. n > 0 => f[n - 1] < Len(data)
  <2> SUFFICES ASSUME n > 0 PROVE f[n - 1] < Len(data)
    OBVIOUS
  <2>1. n \in 1 .. n /\ n - 1 \in 0 .. n /\ f[n] = f[n - 1] + Len(s[n]) /\ f[n - 1] \in Nat
    BY <1>6, <1>11
  <2>2. Len(s[n]) \in Nat /\ Len(s[n]) >= 2
    BY <1>3, <2>1
  <2> DEFINE a == f[n - 1]
             x == Len(s[n])
             c == w.cut
             l == Len(data)
  <2>3. a \in Nat /\ x \in Nat /\ x >= 2 /\ W = a + x /\ W \in Nat
    BY <1>8, <2>1, <2>2
  <2>4. c \in Nat /\ l = W - c /\ (c > 0 => c < x)
    BY <1>1, <1>10, <1>12
  <2> HIDE DEF a, x, c, l
  <2>5. a < l
    BY <2>3, <2>4
  <2> QED BY <2>5 DEF a, l
<1>15. (w.cut = 0 => f[n] = Len(data)) /\ (w.cut > 0 => n > 0 /\ Len(data) < f[n])
  BY <1>1, <1>8, <1>10, <1>12
<1> QED BY <1>1, <1>6, <1>8, <1>12, <1>13, <1>14, <1>15 DEF Lies, n, data

\* parse_params finds the pairs that were sent, in their order, and notices when
\* the last one is cut.
THEOREM ParamsDecoded ==
    ASSUME NEW w, WellFormed(w)
    PROVE  /\ DecodePairs(EncodeParams(w)).ok <=> w.cut = 0
           /\ w.cut = 0 => DecodePairs(EncodeParams(w)).pairs =
                               [i \in 1 .. Len(w.pairs) |-> Plain(w.pairs[i])]
<1> DEFINE n == Len(w.pairs)
           data == EncodeParams(w)
           L == Len(data)
<1>1. PICK f : Lies(w, f)
  BY PairsLie
<1>2. n \in Nat /\ data \in Seq(Byte) /\ f[0] = 0 /\ L \in Nat /\ w.cut \in Nat
  BY <1>1 DEF Lies, WellFormed
<1>3. \A k \in 0 .. n : f[k] \in Nat
  BY <1>1 DEF Lies
<1>4. \A k \in 1 .. n : /\ f[k] = f[k - 1] + Len(EncodePair(w.pairs[k]))
                        /\ f[k - 1] < f[k]
                        /\ Carries(data, f[k - 1], EncodePair(w.pairs[k]))
                        /\ k < n => f[k] <= L
  BY <1>1 DEF Lies
<1>5. /\ n > 0 => f[n - 1] < L
      /\ w.cut = 0 => f[n] = L
      /\ w.cut > 0 => n > 0 /\ L < f[n]
  BY <1>1 DEF Lies
<1>6. ASSUME NEW k \in 1 .. n
      PROVE  w.pairs[k] \in Pairs /\ Encodable(w.pairs[k])
  BY DEF WellFormed
<1>7. PICK g : DecodePairs(data) = g[0] /\ \A o \in 0 .. L : g[o] = Round(g, data, o)
  BY <1>2, LoopRuns
<1> HIDE DEF n, data, L
\* Before a pair that is all there.
<1>8. ASSUME NEW k \in 1 .. n, f[k] <= L
      PROVE  /\ f[k - 1] \in 0 .. L
             /\ g[f[k - 1]] = [ok |-> g[f[k]].ok, pairs |-> <<Plain(w.pairs[k])>> \o g[f[k]].pairs]
  <2> DEFINE p == w.pairs[k]
             o == f[k - 1]
             d == DecodePair(data, o)
  <2>1. k - 1 \in 0 .. n /\ k \in 0 .. n
    BY <1>2
  <2>2. o \in Nat /\ o < f[k] /\ f[k] = o + Len(EncodePair(p)) /\ Carries(data, o, EncodePair(p))
        /\ f[k] \in Nat
    BY <1>3, <1>4, <2>1
  <2>3. o \in 0 .. L /\ o # L
    BY <1>2, <1>8, <2>2
  <2>4. d = [ok |-> TRUE, name |-> p.name, value |-> p.value, next |-> f[k]]
    <3>1. p \in Pairs /\ Encodable(p) /\ data \in Seq(Byte)
      BY <1>2, <1>6
    <3>2. o + Len(EncodePair(p)) <= Len(data) /\ o \in Nat
      BY <1>8, <2>2 DEF L
    <3>3. Carries(data, o, EncodePair(p))
      BY <2>2
    <3> HIDE DEF p, o
    <3>4. d = [ok |-> TRUE, name |-> p.name, value |-> p.value, next |-> o + Len(EncodePair(p))]
      BY <3>1, <3>2, <3>3, PairDecoded, Zenon
    <3> QED BY <2>2, <3>4 DEF o, p
  <2>5. d.ok /\ d.name = p.name /\ d.value = p.value /\ d.next = f[k]
    BY <2>4
  <2>6. g[o] = Round(g, data, o)
    BY <1>7, <2>3
  <2> HIDE DEF o, p, d
  <2>7. Round(g, data, o) = [ok |-> g[d.next].ok,
                             pairs |-> <<[name |-> d.name, value |-> d.value]>> \o g[d.next].pairs]
    BY <2>3, <2>5 DEF Round, d, L
  <2> QED BY <2>3, <2>5, <2>6, <2>7 DEF Plain, o, p
<1>9. ASSUME w.cut = 0
      PROVE  /\ DecodePairs(data).ok
             /\ DecodePairs(data).pairs = [i \in 1 .. n |-> Plain(w.pairs[i])]
  <2> DEFINE rest(m) == [i \in 1 .. m |-> Plain(w.pairs[(n - m) + i])]
             T == {m \in 0 .. n : g[f[n - m]].ok /\ g[f[n - m]].pairs = rest(m)}
  <2>1. 0 \in T
    <3>1. n - 0 = n /\ f[n] = L /\ L \in 0 .. L /\ 0 \in 0 .. n
      BY <1>2, <1>5, <1>9
    <3>2. g[L] = Round(g, data, L)
      BY <1>7, <3>1
    <3>3. g[L] = [ok |-> TRUE, pairs |-> << >>]
      BY <3>2 DEF Round, L
    <3>4. rest(0) = << >>
      OBVIOUS
    <3> HIDE DEF rest
    <3>5. g[f[n - 0]].ok /\ g[f[n - 0]].pairs = rest(0)
      BY <3>1, <3>3, <3>4
    <3> QED BY <3>1, <3>5
  <2>2. ASSUME NEW m \in 0 .. (n - 1), m \in T PROVE m + 1 \in T
    <3> DEFINE k == n - m
    <3>1. k \in 1 .. n /\ k - 1 = n - (m + 1) /\ m + 1 \in 0 .. n /\ m \in Nat
      BY <1>2
    <3>2. f[k] <= L
      <4>1. k = n \/ k < n
        BY <1>2, <3>1
      <4>2. CASE k = n
        BY <1>2, <1>5, <1>9, <4>2
      <4>3. CASE k < n
        BY <1>4, <3>1, <4>3
      <4> QED BY <4>1, <4>2, <4>3
    <3>3. g[f[k - 1]] = [ok |-> g[f[k]].ok, pairs |-> <<Plain(w.pairs[k])>> \o g[f[k]].pairs]
      BY <1>8, <3>1, <3>2
    <3>4. g[f[k]].ok /\ g[f[k]].pairs = rest(m)
      BY <2>2
    <3>5. <<Plain(w.pairs[k])>> \o rest(m) = rest(m + 1)
      <4>1. ASSUME NEW i \in 1 .. n PROVE Plain(w.pairs[i]) \in NameValues
        BY <1>6 DEF Plain, NameValues, Pairs
      <4> DEFINE a == <<Plain(w.pairs[k])>>
                 b == rest(m)
                 c == rest(m + 1)
      <4>2. a \in Seq(NameValues) /\ Len(a) = 1 /\ a[1] = Plain(w.pairs[k])
        BY <3>1, <4>1
      <4>3. \A i \in 1 .. m : (n - m) + i \in 1 .. n
        BY <1>2, <3>1
      <4>4. \A i \in 1 .. m + 1 : (n - (m + 1)) + i \in 1 .. n
        BY <1>2, <3>1
      <4>5. b \in Seq(NameValues) /\ Len(b) = m /\ \A i \in 1 .. m : b[i] = Plain(w.pairs[k + i])
        BY <3>1, <4>1, <4>3
      <4>6. c \in Seq(NameValues) /\ Len(c) = m + 1
            /\ \A i \in 1 .. m + 1 : c[i] = Plain(w.pairs[(k - 1) + i])
        BY <3>1, <4>1, <4>4
      <4> HIDE DEF a, b, c, k
      <4> DEFINE t == a \o b
      <4>7. t \in Seq(NameValues) /\ Len(t) = 1 + m
            /\ \A i \in 1 .. 1 + m : t[i] = IF i <= 1 THEN a[i] ELSE b[i - 1]
        <5>1. t \in Seq(NameValues) /\ Len(t) = Len(a) + Len(b)
              /\ \A i \in 1 .. Len(a) + Len(b) : t[i] = IF i <= Len(a) THEN a[i] ELSE b[i - Len(a)]
          BY <4>2, <4>5, ConcatProperties
        <5> QED BY <4>2, <4>5, <5>1, Zenon
      <4> HIDE DEF t
      <4>8. ASSUME NEW i \in 1 .. 1 + m PROVE t[i] = c[i]
        <5>1. i \in 1 .. m + 1 /\ i \in Nat
          BY <3>1
        <5>2. CASE i = 1
          <6>1. (k - 1) + i = k
            BY <1>2, <3>1, <5>2
          <6>2. t[i] = a[1] /\ c[i] = Plain(w.pairs[k])
            BY <4>6, <4>7, <5>1, <5>2, <6>1
          <6> QED BY <4>2, <6>2
        <5>3. CASE i # 1
          <6>1. ~(i <= 1) /\ i - 1 \in 1 .. m /\ (k - 1) + i = k + (i - 1)
            BY <1>2, <3>1, <5>1, <5>3
          <6>2. t[i] = b[i - 1] /\ c[i] = Plain(w.pairs[k + (i - 1)])
            BY <4>6, <4>7, <5>1, <6>1
          <6> QED BY <4>5, <6>1, <6>2
        <5> QED BY <5>2, <5>3
      <4>9. 1 + m = m + 1
        BY <3>1
      <4>10. t = c
        BY <4>6, <4>7, <4>8, <4>9, SeqEqual
      <4> QED BY <4>10 DEF t, a, b, c
    <3> HIDE DEF k, rest
    <3>6. g[f[k - 1]].ok /\ g[f[k - 1]].pairs = rest(m + 1)
      BY <3>3, <3>4, <3>5
    <3> QED BY <3>1, <3>6
  <2>3. n \in T
    <3> HIDE DEF T
    <3>1. 0 .. n \subseteq T
      BY <1>2, <2>1, <2>2, Reaches
    <3> QED BY <1>2, <3>1
  <2>4. f[n - n] = 0 /\ rest(n) = [i \in 1 .. n |-> Plain(w.pairs[i])]
    <3>1. n - n = 0 /\ \A i \in 1 .. n : (n - n) + i = i
      BY <1>2
    <3> QED BY <1>2, <3>1
  <2> HIDE DEF rest
  <2>5. g[0].ok /\ g[0].pairs = [i \in 1 .. n |-> Plain(w.pairs[i])]
    BY <2>3, <2>4
  <2> QED BY <1>7, <2>5
<1>10. ASSUME w.cut > 0 PROVE ~DecodePairs(data).ok
  <2> DEFINE T == {m \in 0 .. (n - 1) : ~g[f[(n - 1) - m]].ok}
  <2>0. n > 0 /\ n - 1 \in Nat /\ L < f[n]
    BY <1>2, <1>5, <1>10
  <2>1. 0 \in T
    <3> DEFINE o == f[n - 1]
               p == w.pairs[n]
    <3>1. (n - 1) - 0 = n - 1 /\ n - 1 \in 0 .. n /\ n \in 1 .. n /\ 0 \in 0 .. (n - 1)
      BY <1>2, <2>0
    <3>2. o \in Nat /\ o < L /\ f[n] = o + Len(EncodePair(p)) /\ Carries(data, o, EncodePair(p))
      BY <1>3, <1>4, <1>5, <2>0, <3>1
    <3>3. o <= L /\ o \in 0 .. L /\ o # L
      BY <1>2, <3>2
    <3>4. L < o + Len(EncodePair(p))
      BY <2>0, <3>2
    <3>5. DecodePair(data, o).ok = FALSE
      BY <1>2, <1>6, <3>1, <3>2, <3>3, <3>4, PairCut DEF L
    <3>6. g[o] = Round(g, data, o)
      BY <1>7, <3>3
    <3> HIDE DEF o
    <3>7. g[o] = [ok |-> FALSE, pairs |-> << >>]
      BY <3>3, <3>5, <3>6 DEF Round, L
    <3> QED BY <3>1, <3>7 DEF o
  <2>2. ASSUME NEW m \in 0 .. ((n - 1) - 1), m \in T PROVE m + 1 \in T
    <3> DEFINE k == (n - 1) - m
    <3>1. k \in 1 .. n /\ k < n /\ k - 1 = (n - 1) - (m + 1) /\ m + 1 \in 0 .. (n - 1)
      BY <1>2, <2>0
    <3>2. f[k] <= L
      BY <1>4, <3>1
    <3>3. g[f[k - 1]] = [ok |-> g[f[k]].ok, pairs |-> <<Plain(w.pairs[k])>> \o g[f[k]].pairs]
      BY <1>8, <3>1, <3>2
    <3>4. ~g[f[k]].ok
      BY <2>2
    <3> HIDE DEF k
    <3>5. ~g[f[k - 1]].ok
      BY <3>3, <3>4
    <3> QED BY <3>1, <3>5
  <2>3. n - 1 \in T
    <3> HIDE DEF T
    <3>1. 0 .. (n - 1) \subseteq T
      BY <2>0, <2>1, <2>2, Reaches
    <3> QED BY <2>0, <3>1
  <2>4. (n - 1) - (n - 1) = 0
    BY <1>2
  <2>5. ~g[0].ok
    BY <1>2, <2>3, <2>4
  <2> QED BY <1>7, <2>5
<1> QED BY <1>2, <1>9, <1>10 DEF n, data
----------------------------------------------------------------------------
(* What parse_params makes of the pairs.                                   *)

\* One step of the fold: the assignments of the greatest index of a set come
\* after those of the others.
Folded(g, s, T) == IF T = {} THEN NoFields ELSE Assign(g[T \ {Max(T)}], s[Max(T)])

\* The fields after each round of the loop.
Rounds(h, s) ==
    /\ h[0] = NoFields
    /\ \A k \in 1 .. Len(s) : h[k] = Assign(h[k - 1], s[k])

\* The recursive definition in FoldLeft has a solution, and it is the loop.
LEMMA FoldRuns ==
    ASSUME NEW S, NEW s \in Seq(S)
    PROVE  \E h : Rounds(h, s) /\ FoldLeft(Assign, NoFields, s) = h[Len(s)]
<1> DEFINE n == Len(s)
           D == SUBSET (1 .. n)
           iter == CHOOSE g : g = [T \in D |-> Folded(g, s, T)]
<1>1. n \in Nat /\ DOMAIN s = 1 .. n
  BY LenProperties
<1>2. FoldLeft(Assign, NoFields, s) = iter[1 .. n]
  BY <1>1 DEF FoldLeft, MapThenFoldSet, Folded
<1>3. ASSUME NEW m \in 1 .. n, NEW T \in SUBSET (1 .. m), m \in T PROVE Max(T) = m
  <2>1. m \in Nat /\ T \in SUBSET (0 .. m) /\ T # {}
    BY <1>1, <1>3
  <2>2. Max(T) \in T /\ \A y \in T : y <= Max(T)
    BY <2>1, Greatest
  <2>3. Max(T) \in 1 .. m /\ m <= Max(T)
    BY <1>3, <2>2
  <2> HIDE DEF n
  <2> QED BY <2>1, <2>3
<1> HIDE DEF n
<1>4. \E g : g = [T \in D |-> Folded(g, s, T)]
  <2> DEFINE Good(g, m) == /\ g = [T \in D |-> g[T]]
                           /\ \A T \in SUBSET (1 .. m) : g[T] = Folded(g, s, T)
             A == {m \in 0 .. n : \E g : Good(g, m)}
  <2>1. 0 \in A
    <3> DEFINE g == [T \in D |-> NoFields]
    <3>1. g = [T \in D |-> g[T]]
      OBVIOUS
    <3>2. ASSUME NEW T \in SUBSET (1 .. 0) PROVE T = {} /\ T \in D
      OBVIOUS
    <3>3. ASSUME NEW T \in SUBSET (1 .. 0) PROVE g[T] = Folded(g, s, T)
      BY <3>2 DEF Folded
    <3> HIDE DEF g
    <3>4. Good(g, 0)
      BY <3>1, <3>3
    <3> HIDE DEF Good
    <3> QED BY <1>1, <3>4
  <2>2. ASSUME NEW m \in 0 .. (n - 1), m \in A PROVE m + 1 \in A
    <3>1. PICK g : Good(g, m)
      BY <2>2
    <3> DEFINE v(T) == IF m + 1 \in T THEN Assign(g[T \ {m + 1}], s[m + 1]) ELSE g[T]
               k == [T \in D |-> v(T)]
    <3>2. m + 1 \in 1 .. n /\ m + 1 \in 0 .. n /\ m \in Nat
      BY <1>1
    <3>3. \A T \in D : k[T] = v(T)
      OBVIOUS
    <3>4. k = [T \in D |-> k[T]]
      OBVIOUS
    <3> HIDE DEF k
    <3>5. ASSUME NEW T \in SUBSET (1 .. (m + 1)) PROVE k[T] = Folded(k, s, T)
      <4>1. T \in D
        BY <1>1, <3>2
      <4>2. ASSUME NEW U \in SUBSET (1 .. (m + 1)), m + 1 \notin U
            PROVE  U \in SUBSET (1 .. m) /\ U \in D /\ k[U] = g[U]
        <5>1. \A i \in 1 .. (m + 1) : i # m + 1 => i \in 1 .. m
          BY <3>2
        <5>2. U \in SUBSET (1 .. m)
          BY <4>2, <5>1
        <5>3. U \in D
          BY <1>1, <3>2, <4>2
        <5> QED BY <3>3, <4>2, <5>2, <5>3
      <4>3. CASE m + 1 \in T
        <5>1. Max(T) = m + 1 /\ T # {}
          BY <1>3, <3>2, <4>3
        <5>2. T \ {m + 1} \in SUBSET (1 .. (m + 1)) /\ m + 1 \notin T \ {m + 1}
          OBVIOUS
        <5>3. k[T \ {m + 1}] = g[T \ {m + 1}]
          BY <4>2, <5>2
        <5>4. k[T] = Assign(g[T \ {m + 1}], s[m + 1])
          BY <3>3, <4>1, <4>3
        <5> QED BY <5>1, <5>3, <5>4 DEF Folded
      <4>4. CASE m + 1 \notin T
        <5>1. T \in SUBSET (1 .. m) /\ k[T] = g[T]
          BY <4>2, <4>4
        <5>2. g[T] = Folded(g, s, T)
          BY <3>1, <5>1
        <5>3. T \ {Max(T)} \in SUBSET (1 .. (m + 1)) /\ m + 1 \notin T \ {Max(T)}
          BY <4>4
        <5>4. k[T \ {Max(T)}] = g[T \ {Max(T)}]
          BY <4>2, <5>3
        <5> QED BY <5>1, <5>2, <5>4 DEF Folded
      <4> QED BY <4>3, <4>4
    <3>6. Good(k, m + 1)
      BY <3>4, <3>5
    <3> HIDE DEF Good
    <3> QED BY <3>2, <3>6
  <2>3. n \in A
    <3> HIDE DEF A
    <3>1. 0 .. n \subseteq A
      BY <1>1, <2>1, <2>2, Reaches
    <3> QED BY <1>1, <3>1
  <2>4. PICK g : Good(g, n)
    BY <2>3
  <2>5. g = [T \in D |-> Folded(g, s, T)]
    BY <2>4
  <2> QED BY <2>5
<1>5. iter = [T \in D |-> Folded(iter, s, T)]
  <2> DEFINE B(g) == [T \in D |-> Folded(g, s, T)]
             c == CHOOSE g : g = B(g)
  <2>1. \E g : g = B(g)
    BY <1>4
  <2>2. c = B(c)
    <3> HIDE DEF B
    <3> QED BY <2>1
  <2> QED BY <2>2
<1>6. \A T \in D : iter[T] = Folded(iter, s, T)
  <2> HIDE DEF iter
  <2> QED BY <1>5
<1> HIDE DEF iter
<1> DEFINE h == [k \in 0 .. n |-> iter[1 .. k]]
<1>7. h[0] = NoFields
  <2>1. 0 \in 0 .. n /\ 1 .. 0 = {} /\ 1 .. 0 \in D
    BY <1>1
  <2>2. iter[1 .. 0] = Folded(iter, s, 1 .. 0)
    BY <1>6, <2>1
  <2> QED BY <2>1, <2>2 DEF Folded
<1>8. ASSUME NEW k \in 1 .. n PROVE h[k] = Assign(h[k - 1], s[k])
  <2>1. k \in 0 .. n /\ k - 1 \in 0 .. n /\ k \in Nat
    BY <1>1
  <2> DEFINE T == 1 .. k
  <2>2. T \in D /\ T \in SUBSET (1 .. k) /\ k \in T
    BY <1>1, <2>1
  <2>3. T \ {k} = 1 .. (k - 1)
    <3>1. \A i : i \in T \ {k} <=> i \in 1 .. (k - 1)
      BY <2>1
    <3> QED BY <3>1
  <2> HIDE DEF T
  <2>4. Max(T) = k
    BY <1>3, <2>2
  <2>5. iter[T] = Folded(iter, s, T)
    BY <1>6, <2>2
  <2>6. iter[T] = Assign(iter[T \ {k}], s[k])
    BY <2>2, <2>4, <2>5 DEF Folded
  <2>7. h[k] = iter[T] /\ h[k - 1] = iter[1 .. (k - 1)]
    BY <2>1 DEF T
  <2> HIDE DEF h
  <2> QED BY <2>3, <2>6, <2>7
<1>9. h[n] = iter[1 .. n]
  BY <1>1
<1> HIDE DEF h
<1>10. Rounds(h, s)
  BY <1>7, <1>8 DEF Rounds, n
<1> QED BY <1>2, <1>9, <1>10 DEF n

Fields == [method : Seq(Byte), path : Seq(Byte), query : Seq(Byte)]

\* The C string in an array of bytes, and how parse_params tests for an empty
\* one.
LEMMA CStringFacts ==
    ASSUME NEW s \in Seq(Byte)
    PROVE  /\ Len(CString(s)) \in 0 .. Len(s)
           /\ CString(s) = SubSeq(s, 1, Len(CString(s)))
           /\ CString(s) \in Seq(Byte)
           /\ Empty(s) <=> CString(s) = << >>
<1> DEFINE I == {i \in 1 .. Len(s) : s[i] = 0}
           n == Len(s)
<1>0. n \in Nat /\ DOMAIN s = 1 .. n
  BY LenProperties
<1>1. ASSUME NEW m \in 0 .. n
      PROVE  LET t == SubSeq(s, 1, m) IN t \in Seq(Byte) /\ Len(t) = m
  <2>1. \A i \in 1 .. m : s[i] \in Byte
    BY <1>0
  <2> HIDE DEF n
  <2> QED BY <1>0, <2>1, SubSeqProperties
<1>2. CASE 0 \in Range(s)
  <2>1. I \in SUBSET Nat /\ I # {}
    BY <1>0, <1>2 DEF Range
  <2>2. \E x \in I : \A y \in I : x <= y
    BY <2>1, Least
  <2>3. Min(I) \in I /\ \A y \in I : Min(I) <= y
    BY <2>2 DEF Min
  <2> DEFINE a == Min(I)
             m == a - 1
             t == SubSeq(s, 1, m)
  <2>4. CString(s) = t
    BY <1>2, <2>1 DEF CString, SelectInSeq
  <2>5. a \in 1 .. n /\ s[a] = 0 /\ (1 \in I => a <= 1)
    BY <2>3
  <2> HIDE DEF a
  <2>6. m \in 0 .. n /\ n > 0 /\ m \in Nat
    BY <1>0, <2>5
  <2> HIDE DEF m
  <2>7. t \in Seq(Byte) /\ Len(t) = m
    BY <1>1, <2>6
  <2>8. Empty(s) <=> s[1] = 0
    BY <2>6 DEF Empty
  <2>9. s[1] = 0 <=> m = 0
    <3>1. s[1] = 0 <=> 1 \in I
      BY <1>0, <2>6
    <3>2. 1 \in I => a = 1
      BY <1>0, <2>5
    <3>3. a = 1 => s[1] = 0
      BY <2>5
    <3>4. a = 1 <=> m = 0
      BY <1>0, <2>5 DEF m
    <3> HIDE DEF I
    <3> QED BY <3>1, <3>2, <3>3, <3>4
  <2> HIDE DEF t
  <2>10. t = << >> <=> m = 0
    BY <2>7
  <2> QED BY <2>4, <2>6, <2>7, <2>8, <2>9, <2>10 DEF t
<1>3. CASE 0 \notin Range(s)
  <2>1. CString(s) = s
    BY <1>3 DEF CString
  <2>2. SubSeq(s, 1, Len(s)) = s
    BY <1>0, SubSeqProperties, SeqEqual
  <2>3. s # << >> => s[1] # 0
    BY <1>0, <1>3 DEF Range
  <2> QED BY <1>0, <2>1, <2>2, <2>3 DEF Empty
<1> QED BY <1>2, <1>3

\* copy_param keeps what the field holds.
LEMMA CopyParam ==
    ASSUME NEW v \in Seq(Byte)
    PROVE  copy_param(v) \in Seq(Byte) /\ CString(copy_param(v)) = Limited(v)
<1> DEFINE a == IF Len(v) < MaxField - 1 THEN Len(v) ELSE MaxField - 1
           b == IF Len(v) < MaxField THEN Len(v) ELSE MaxField - 1
<1>1. Len(v) \in Nat /\ MaxField \in Nat \ {0}
  BY FastCgiAssumption, LenProperties
<1>2. a = b /\ a \in 0 .. Len(v)
  BY <1>1
<1>3. copy_param(v) = SubSeq(v, 1, a) /\ Limited(v) = CString(SubSeq(v, 1, b))
  BY DEF copy_param, Limited
<1> HIDE DEF a, b
<1>4. \A i \in 1 .. a : v[i] \in Byte
  BY <1>1, <1>2
<1>5. SubSeq(v, 1, a) \in Seq(Byte)
  BY <1>1, <1>2, <1>4, SubSeqProperties
<1> QED BY <1>2, <1>3, <1>5

\* One round of the loop, by what the script gets to see of the fields.
LEMMA AssignFacts ==
    ASSUME NEW f \in Fields, NEW p \in NameValues
    PROVE  LET g == Assign(f, p)
               v == Limited(p.value)
           IN  /\ g \in Fields
               /\ CString(g.method) = IF p.name = REQUEST_METHOD THEN v ELSE CString(f.method)
               /\ CString(g.query) = IF p.name = QUERY_STRING THEN v ELSE CString(f.query)
               /\ CString(g.path) =
                    IF p.name = SCRIPT_NAME \/ (p.name = PATH_INFO /\ CString(f.path) = << >>)
                    THEN v ELSE CString(f.path)
<1> DEFINE c == copy_param(p.value)
           v == Limited(p.value)
           g == Assign(f, p)
<1>1. p.value \in Seq(Byte)
  BY DEF NameValues
<1>2. c \in Seq(Byte) /\ CString(c) = v
  BY <1>1, CopyParam
<1>3. Empty(f.path) <=> CString(f.path) = << >>
  BY CStringFacts DEF Fields
<1>4. /\ REQUEST_METHOD # SCRIPT_NAME /\ REQUEST_METHOD # PATH_INFO /\ REQUEST_METHOD # QUERY_STRING
      /\ SCRIPT_NAME # PATH_INFO /\ SCRIPT_NAME # QUERY_STRING /\ PATH_INFO # QUERY_STRING
  BY DEF REQUEST_METHOD, SCRIPT_NAME, PATH_INFO, QUERY_STRING
<1> HIDE DEF c, v
<1>5. CASE p.name = REQUEST_METHOD
  <2>1. g = [f EXCEPT !.method = c]
    BY <1>4, <1>5 DEF Assign, c
  <2>2. g \in Fields /\ g.method = c /\ g.path = f.path /\ g.query = f.query
    BY <1>2, <2>1 DEF Fields
  <2> HIDE DEF g
  <2> QED BY <1>2, <1>4, <1>5, <2>2, Zenon DEF g, v
<1>6. CASE p.name = SCRIPT_NAME
  <2>1. g = [f EXCEPT !.path = c]
    BY <1>4, <1>6 DEF Assign, c
  <2>2. g \in Fields /\ g.method = f.method /\ g.path = c /\ g.query = f.query
    BY <1>2, <2>1 DEF Fields
  <2> HIDE DEF g
  <2>3. p.name # REQUEST_METHOD /\ p.name # QUERY_STRING
    BY <1>4, <1>6
  <2>4. CString(g.method) = CString(f.method) /\ CString(g.query) = CString(f.query)
        /\ CString(g.path) = v
    BY <1>2, <2>2
  <2> QED BY <1>6, <2>2, <2>3, <2>4 DEF g, v
<1>7. CASE p.name = PATH_INFO
  <2>1. g = IF Empty(f.path) THEN [f EXCEPT !.path = c] ELSE f
    BY <1>4, <1>7 DEF Assign, c
  <2>2. g \in Fields /\ g.method = f.method /\ g.path = (IF Empty(f.path) THEN c ELSE f.path)
        /\ g.query = f.query
    BY <1>2, <2>1 DEF Fields
  <2> HIDE DEF g
  <2> QED BY <1>2, <1>3, <1>4, <1>7, <2>2, Zenon DEF g, v
<1>8. CASE p.name = QUERY_STRING
  <2>1. g = [f EXCEPT !.query = c]
    BY <1>4, <1>8 DEF Assign, c
  <2>2. g \in Fields /\ g.method = f.method /\ g.path = f.path /\ g.query = c
    BY <1>2, <2>1 DEF Fields
  <2> HIDE DEF g
  <2> QED BY <1>2, <1>4, <1>8, <2>2, Zenon DEF g, v
<1>9. CASE p.name \notin {REQUEST_METHOD, SCRIPT_NAME, PATH_INFO, QUERY_STRING}
  <2>1. g = f
    BY <1>9 DEF Assign
  <2> QED BY <1>9, <2>1
<1> QED BY <1>5, <1>6, <1>7, <1>8, <1>9

\* The C string in a field, round by round, that takes each value of a name.
TakesEach(y, w, name) ==
    /\ y[0] = << >>
    /\ \A k \in 1 .. Len(w.pairs) :
          y[k] = IF w.pairs[k].name = name THEN Limited(w.pairs[k].value) ELSE y[k - 1]

\* Such a field ends with the last of them.
LEMMA LastIsKept ==
    ASSUME NEW w, w.pairs \in Seq(Pairs), NEW name, NEW y, TakesEach(y, w, name)
    PROVE  y[Len(w.pairs)] = ValueOf(w, name)
<1> DEFINE n == Len(w.pairs)
           N(i) == w.pairs[i].name
           V(i) == Limited(w.pairs[i].value)
           P(k) == \/ y[k] = << >> /\ \A j \in 1 .. k : N(j) # name
                   \/ \E i \in 1 .. k : /\ N(i) = name /\ y[k] = V(i)
                                        /\ \A j \in 1 .. k : N(j) = name => j <= i
           T == {k \in 0 .. n : P(k)}
<1>1. n \in Nat /\ DOMAIN w.pairs = 1 .. n
  BY LenProperties
<1>2. y[0] = << >> /\ \A k \in 1 .. n : y[k] = IF N(k) = name THEN V(k) ELSE y[k - 1]
  BY DEF TakesEach
<1>3. ValueOf(w, name) = LET S == {i \in 1 .. n : N(i) = name}
                         IN  IF S = {} THEN << >> ELSE V(LastOf(S))
  BY <1>1 DEF ValueOf, Named
<1> HIDE DEF n, N, V
<1>4. 0 \in T
  BY <1>1, <1>2
<1>5. ASSUME NEW k \in 0 .. (n - 1), k \in T PROVE k + 1 \in T
  <2>1. k + 1 \in 1 .. n /\ (k + 1) - 1 = k /\ k + 1 \in 0 .. n /\ k \in Nat
    BY <1>1
  <2>2. y[k + 1] = IF N(k + 1) = name THEN V(k + 1) ELSE y[k]
    BY <1>2, <2>1
  <2>3. \A j \in 1 .. (k + 1) : j \in 1 .. k \/ j = k + 1
    BY <2>1
  <2>4. CASE N(k + 1) = name
    <3>1. k + 1 \in 1 .. (k + 1) /\ \A j \in 1 .. (k + 1) : j <= k + 1
      BY <2>1
    <3>2. P(k + 1)
      BY <2>2, <2>4, <3>1
    <3> QED BY <2>1, <3>2
  <2>5. CASE N(k + 1) # name
    <3>1. y[k + 1] = y[k]
      BY <2>2, <2>5
    <3>2. P(k)
      BY <1>5
    <3>3. \A j \in 1 .. k : j \in 1 .. (k + 1)
      BY <2>1
    <3>4. P(k + 1)
      BY <2>3, <2>5, <3>1, <3>2, <3>3
    <3> QED BY <2>1, <3>4
  <2> QED BY <2>4, <2>5
<1>6. P(n)
  <2>1. 0 .. n \subseteq T
    <3> HIDE DEF T
    <3> QED BY <1>1, <1>4, <1>5, Reaches
  <2> QED BY <1>1, <2>1
<1> DEFINE S == {i \in 1 .. n : N(i) = name}
<1>7. CASE y[n] = << >> /\ \A j \in 1 .. n : N(j) # name
  <2>1. S = {}
    BY <1>7
  <2> QED BY <1>3, <1>7, <2>1 DEF n
<1>8. ASSUME NEW i \in 1 .. n, N(i) = name, y[n] = V(i), \A j \in 1 .. n : N(j) = name => j <= i
      PROVE  y[n] = ValueOf(w, name)
  <2>1. i \in S /\ (\A j \in S : j <= i) /\ \A j \in S : j \in Nat
    BY <1>1, <1>8
  <2> HIDE DEF S
  <2>2. \A j \in S : (\A m \in S : m <= j) => j = i
    BY <2>1
  <2>3. LastOf(S) = i
    BY <2>1, <2>2 DEF LastOf
  <2> QED BY <1>3, <1>8, <2>1, <2>3 DEF S
<1> QED BY <1>6, <1>7, <1>8 DEF n

\* The same for the path.
TakesPath(y, w) ==
    /\ y[0] = << >>
    /\ \A k \in 1 .. Len(w.pairs) :
          y[k] = IF \/ w.pairs[k].name = SCRIPT_NAME
                    \/ w.pairs[k].name = PATH_INFO /\ y[k - 1] = << >>
                 THEN Limited(w.pairs[k].value) ELSE y[k - 1]

\* The path is the last SCRIPT_NAME, or the first PATH_INFO after it that is not
\* empty when it is.
LEMMA PathIsKept ==
    ASSUME NEW w, w.pairs \in Seq(Pairs), NEW y, TakesPath(y, w)
    PROVE  y[Len(w.pairs)] = PathOf(w)
<1> DEFINE n == Len(w.pairs)
           N(i) == w.pairs[i].name
           V(i) == Limited(w.pairs[i].value)
           E(k, i) == \A j \in 1 .. k : N(j) = SCRIPT_NAME => j <= i
           A(k, i) == i > 0 /\ V(i) # << >> /\ y[k] = V(i)
           B(k, i) == /\ i > 0 => V(i) = << >>
                      /\ y[k] = << >>
                      /\ \A j \in 1 .. k : i < j /\ N(j) = PATH_INFO => V(j) = << >>
           C(k, i) == /\ i > 0 => V(i) = << >>
                      /\ \E j \in 1 .. k :
                           /\ i < j /\ N(j) = PATH_INFO /\ V(j) # << >> /\ y[k] = V(j)
                           /\ \A m \in 1 .. k :
                                i < m /\ N(m) = PATH_INFO /\ V(m) # << >> => j <= m
           P(k) == \E i \in 0 .. k : /\ i > 0 => N(i) = SCRIPT_NAME
                                     /\ E(k, i)
                                     /\ A(k, i) \/ B(k, i) \/ C(k, i)
           T == {k \in 0 .. n : P(k)}
<1>1. n \in Nat /\ DOMAIN w.pairs = 1 .. n
  BY LenProperties
<1>2. /\ y[0] = << >>
      /\ \A k \in 1 .. n : y[k] = IF N(k) = SCRIPT_NAME \/ (N(k) = PATH_INFO /\ y[k - 1] = << >>)
                                  THEN V(k) ELSE y[k - 1]
  BY DEF TakesPath
<1> DEFINE S == {i \in 1 .. n : N(i) = SCRIPT_NAME}
           Q == {i \in 1 .. n : N(i) = PATH_INFO /\ V(i) # << >> /\ (S # {} => i > LastOf(S))}
<1>3. /\ ValueOf(w, SCRIPT_NAME) = IF S = {} THEN << >> ELSE V(LastOf(S))
      /\ PathOf(w) = IF ValueOf(w, SCRIPT_NAME) # << >> THEN ValueOf(w, SCRIPT_NAME)
                     ELSE IF Q = {} THEN << >> ELSE V(FirstOf(Q))
  <2>1. Named(w, {SCRIPT_NAME}) = S
    BY <1>1 DEF Named
  <2>2. {i \in Named(w, {PATH_INFO}) :
           Limited(w.pairs[i].value) # << >>
           /\ (Named(w, {SCRIPT_NAME}) # {} => i > LastOf(Named(w, {SCRIPT_NAME})))} = Q
    <3>1. Named(w, {PATH_INFO}) = {i \in 1 .. n : N(i) = PATH_INFO}
      BY <1>1 DEF Named
    <3> HIDE DEF n, S
    <3> QED BY <2>1, <3>1
  <2> HIDE DEF n, S, Q
  <2> QED BY <2>1, <2>2 DEF ValueOf, PathOf
<1>0. SCRIPT_NAME # PATH_INFO
  BY DEF SCRIPT_NAME, PATH_INFO
<1> HIDE DEF n, N, V
<1>4. 0 \in T
  <2>1. 0 \in 0 .. 0 /\ 0 \in 0 .. n /\ E(0, 0) /\ B(0, 0)
    BY <1>1, <1>2
  <2>2. P(0)
    BY <2>1
  <2> QED BY <2>1, <2>2
<1>5. ASSUME NEW k \in 0 .. (n - 1), k \in T PROVE k + 1 \in T
  <2>1. k + 1 \in 1 .. n /\ (k + 1) - 1 = k /\ k + 1 \in 0 .. n /\ k \in Nat
    BY <1>1
  <2>2. y[k + 1] = IF N(k + 1) = SCRIPT_NAME \/ (N(k + 1) = PATH_INFO /\ y[k] = << >>)
                   THEN V(k + 1) ELSE y[k]
    BY <1>2, <2>1
  <2>3. (\A j \in 1 .. (k + 1) : j \in 1 .. k \/ j = k + 1) /\ (\A j \in 1 .. k : j \in 1 .. (k + 1))
        /\ (\A j \in 1 .. k : j \in Nat /\ j < k + 1) /\ k + 1 \in 1 .. (k + 1)
    BY <2>1
  <2>4. CASE N(k + 1) = SCRIPT_NAME
    <3>1. k + 1 \in 0 .. (k + 1) /\ k + 1 > 0 /\ E(k + 1, k + 1)
          /\ \A j \in 1 .. (k + 1) : ~(k + 1 < j)
      BY <2>1
    <3>2. y[k + 1] = V(k + 1)
      BY <2>2, <2>4
    <3>3. A(k + 1, k + 1) \/ B(k + 1, k + 1)
      BY <3>1, <3>2
    <3>4. P(k + 1)
      <4> HIDE DEF A, B, C, E
      <4> QED BY <2>4, <3>1, <3>3
    <3> QED BY <2>1, <3>4
  <2>5. CASE N(k + 1) # SCRIPT_NAME
    <3>1. PICK i \in 0 .. k : (i > 0 => N(i) = SCRIPT_NAME) /\ E(k, i) /\ (A(k, i) \/ B(k, i) \/ C(k, i))
      BY <1>5
    <3>2. i \in 0 .. (k + 1) /\ i < k + 1 /\ i \in Nat
      BY <2>1
    <3>3. E(k + 1, i)
      BY <2>3, <2>5, <3>1
    <3>4. A(k + 1, i) \/ B(k + 1, i) \/ C(k + 1, i)
      <4>1. CASE A(k, i)
        <5>1. y[k + 1] = y[k]
          BY <2>2, <2>5, <4>1
        <5> QED BY <4>1, <5>1
      <4>2. CASE B(k, i) /\ N(k + 1) = PATH_INFO /\ V(k + 1) # << >>
        <5>1. y[k + 1] = V(k + 1)
          BY <2>2, <4>2
        <5>2. \A m \in 1 .. (k + 1) : i < m /\ N(m) = PATH_INFO /\ V(m) # << >> => k + 1 <= m
          <6> SUFFICES ASSUME NEW m \in 1 .. (k + 1), i < m, N(m) = PATH_INFO, V(m) # << >>
                       PROVE  k + 1 <= m
            OBVIOUS
          <6>1. m = k + 1
            BY <2>3, <4>2
          <6> QED BY <2>1, <6>1
        <5>3. C(k + 1, i)
          BY <2>3, <3>2, <4>2, <5>1, <5>2
        <5> QED BY <5>3
      <4>3. CASE B(k, i) /\ ~(N(k + 1) = PATH_INFO /\ V(k + 1) # << >>)
        <5>1. y[k + 1] = << >>
          BY <2>2, <2>5, <4>3
        <5>2. B(k + 1, i)
          BY <2>3, <4>3, <5>1
        <5> QED BY <5>2
      <4>4. CASE C(k, i)
        <5>1. PICK j \in 1 .. k : /\ i < j /\ N(j) = PATH_INFO /\ V(j) # << >> /\ y[k] = V(j)
                                  /\ \A m \in 1 .. k :
                                       i < m /\ N(m) = PATH_INFO /\ V(m) # << >> => j <= m
          BY <4>4
        <5>2. y[k + 1] = y[k]
          BY <2>2, <2>5, <5>1
        <5>3. j <= k + 1
          BY <2>1
        <5>4. \A m \in 1 .. (k + 1) : i < m /\ N(m) = PATH_INFO /\ V(m) # << >> => j <= m
          BY <2>3, <5>1, <5>3
        <5>5. C(k + 1, i)
          BY <2>3, <4>4, <5>1, <5>2, <5>4
        <5> QED BY <5>5
      <4> QED BY <3>1, <4>1, <4>2, <4>3, <4>4
    <3>5. P(k + 1)
      <4> HIDE DEF A, B, C, E
      <4> QED BY <3>1, <3>2, <3>3, <3>4
    <3> QED BY <2>1, <3>5
  <2> QED BY <2>4, <2>5
<1>6. P(n)
  <2>1. 0 .. n \subseteq T
    <3> HIDE DEF T
    <3> QED BY <1>1, <1>4, <1>5, Reaches
  <2> QED BY <1>1, <2>1
<1>7. PICK i \in 0 .. n : (i > 0 => N(i) = SCRIPT_NAME) /\ E(n, i) /\ (A(n, i) \/ B(n, i) \/ C(n, i))
  BY <1>6
<1>8. /\ S = {} <=> i = 0
      /\ i > 0 => LastOf(S) = i
  <2>1. i > 0 => i \in S
    BY <1>1, <1>7
  <2>2. \A j \in S : j <= i /\ j \in Nat /\ j > 0
    BY <1>1, <1>7
  <2> HIDE DEF S
  <2>3. i > 0 => LastOf(S) = i
    <3> SUFFICES ASSUME i > 0 PROVE LastOf(S) = i
      OBVIOUS
    <3>1. \A j \in S : (\A m \in S : m <= j) => j = i
      BY <2>1, <2>2
    <3> QED BY <2>1, <2>2, <3>1 DEF LastOf
  <2> QED BY <1>1, <2>1, <2>2, <2>3
<1>9. Q = {j \in 1 .. n : N(j) = PATH_INFO /\ V(j) # << >> /\ i < j}
  <2>1. \A j \in 1 .. n : (S # {} => j > LastOf(S)) <=> i < j
    <3> HIDE DEF S
    <3> QED BY <1>1, <1>8
  <2> QED BY <2>1
<1> HIDE DEF S, Q
<1>10. CASE A(n, i)
  BY <1>1, <1>3, <1>8, <1>10 DEF n
<1>11. CASE B(n, i)
  <2>1. Q = {}
    BY <1>9, <1>11
  <2> QED BY <1>1, <1>3, <1>8, <1>11, <2>1 DEF n
<1>12. CASE C(n, i)
  <2>1. PICK j \in 1 .. n : /\ i < j /\ N(j) = PATH_INFO /\ V(j) # << >> /\ y[n] = V(j)
                            /\ \A m \in 1 .. n :
                                 i < m /\ N(m) = PATH_INFO /\ V(m) # << >> => j <= m
    BY <1>12
  <2>2. j \in Q /\ (\A m \in Q : j <= m) /\ \A m \in Q : m \in Nat
    BY <1>1, <1>9, <2>1
  <2>3. \A k \in Q : (\A m \in Q : k <= m) => k = j
    BY <2>2
  <2>4. FirstOf(Q) = j /\ Q # {}
    BY <2>2, <2>3 DEF FirstOf
  <2>5. ValueOf(w, SCRIPT_NAME) = << >>
    BY <1>1, <1>3, <1>8, <1>12
  <2> QED BY <1>3, <2>1, <2>4, <2>5 DEF n
<1> QED BY <1>7, <1>10, <1>11, <1>12

\* parse_params finds the method, the path and the query string that were sent,
\* and accepts the parameters exactly when they are complete and there is a
\* method.
LEMMA ParamsRead ==
    ASSUME NEW w, WellFormed(w)
    PROVE  LET parsed == parse_params(EncodeParams(w))
           IN  /\ parsed.ok <=> ValidParams(w)
               /\ w.cut = 0 => /\ parsed.fields \in Fields
                               /\ CString(parsed.fields.method) = ValueOf(w, REQUEST_METHOD)
                               /\ CString(parsed.fields.path) = PathOf(w)
                               /\ CString(parsed.fields.query) = ValueOf(w, QUERY_STRING)
<1> DEFINE d == DecodePairs(EncodeParams(w))
           n == Len(w.pairs)
           s == [i \in 1 .. n |-> Plain(w.pairs[i])]
           parsed == parse_params(EncodeParams(w))
<1>1. (d.ok <=> w.cut = 0) /\ (w.cut = 0 => d.pairs = s)
  BY ParamsDecoded
<1>2. /\ parsed.ok <=> d.ok /\ ~Empty(parsed.fields.method)
      /\ parsed.fields = FoldLeft(Assign, NoFields, d.pairs)
  BY DEF parse_params
<1>3. w.pairs \in Seq(Pairs) /\ n \in Nat
  BY LenProperties DEF WellFormed
<1>4. ASSUME NEW i \in 1 .. n
      PROVE  /\ Plain(w.pairs[i]) \in NameValues
             /\ Plain(w.pairs[i]).name = w.pairs[i].name
             /\ Plain(w.pairs[i]).value = w.pairs[i].value
  <2>1. w.pairs[i] \in Pairs
    BY <1>3
  <2> QED BY <2>1 DEF Plain, NameValues, Pairs
<1>5. s \in Seq(NameValues) /\ Len(s) = n /\ \A i \in 1 .. n : s[i] = Plain(w.pairs[i])
  <2> HIDE DEF n
  <2> QED BY <1>3, <1>4
<1> HIDE DEF n, s, d, parsed
<1>6. ASSUME w.cut = 0
      PROVE  /\ parsed.fields \in Fields
             /\ CString(parsed.fields.method) = ValueOf(w, REQUEST_METHOD)
             /\ CString(parsed.fields.path) = PathOf(w)
             /\ CString(parsed.fields.query) = ValueOf(w, QUERY_STRING)
  <2>1. PICK h : Rounds(h, s) /\ FoldLeft(Assign, NoFields, s) = h[Len(s)]
    BY <1>5, FoldRuns
  <2>2. parsed.fields = h[n]
    BY <1>1, <1>2, <1>5, <1>6, <2>1
  <2>3. h[0] = NoFields /\ \A k \in 1 .. n : h[k] = Assign(h[k - 1], s[k])
    BY <1>5, <2>1 DEF Rounds
  <2> DEFINE T == {k \in 0 .. n : h[k] \in Fields}
  <2>4. NoFields \in Fields /\ CString(NoFields.method) = << >> /\ CString(NoFields.path) = << >>
        /\ CString(NoFields.query) = << >>
    <3>1. << >> \in Seq(Byte) /\ Empty(<< >>)
      BY DEF Empty
    <3>2. CString(<< >>) = << >>
      BY <3>1, CStringFacts
    <3>3. NoFields.method = << >> /\ NoFields.path = << >> /\ NoFields.query = << >>
      BY DEF NoFields
    <3>4. NoFields \in Fields
      BY <3>1 DEF NoFields, Fields
    <3> QED BY <3>2, <3>3, <3>4
  <2>5. 0 .. n \subseteq T
    <3>1. 0 \in T
      BY <1>3, <2>3, <2>4
    <3>2. ASSUME NEW k \in 0 .. (n - 1), k \in T PROVE k + 1 \in T
      <4>1. k + 1 \in 1 .. n /\ (k + 1) - 1 = k /\ k + 1 \in 0 .. n
        BY <1>3
      <4>2. h[k + 1] = Assign(h[k], s[k + 1]) /\ s[k + 1] \in NameValues
        BY <1>4, <1>5, <2>3, <4>1
      <4>3. h[k + 1] \in Fields
        BY <3>2, <4>2, AssignFacts
      <4> QED BY <4>1, <4>3
    <3> HIDE DEF T
    <3> QED BY <1>3, <3>1, <3>2, Reaches
  <2>6. \A k \in 0 .. n : h[k] \in Fields
    BY <2>5
  <2> DEFINE M == [k \in 0 .. n |-> CString(h[k].method)]
             P == [k \in 0 .. n |-> CString(h[k].path)]
             Q == [k \in 0 .. n |-> CString(h[k].query)]
  <2>7. \A k \in 0 .. n : M[k] = CString(h[k].method) /\ P[k] = CString(h[k].path)
                          /\ Q[k] = CString(h[k].query)
    OBVIOUS
  <2> HIDE DEF M, P, Q
  <2>8. M[0] = << >> /\ P[0] = << >> /\ Q[0] = << >>
    <3>1. 0 \in 0 .. n
      BY <1>3
    <3> QED BY <2>3, <2>4, <2>7, <3>1
  <2>9. ASSUME NEW k \in 1 .. n
        PROVE  LET p == w.pairs[k]
                   v == Limited(p.value)
               IN  /\ M[k] = IF p.name = REQUEST_METHOD THEN v ELSE M[k - 1]
                   /\ Q[k] = IF p.name = QUERY_STRING THEN v ELSE Q[k - 1]
                   /\ P[k] = IF \/ p.name = SCRIPT_NAME
                                \/ p.name = PATH_INFO /\ P[k - 1] = << >>
                             THEN v ELSE P[k - 1]
    <3> DEFINE f == h[k - 1]
               p == Plain(w.pairs[k])
               v == Limited(p.value)
               g == Assign(f, p)
    <3>1. k - 1 \in 0 .. n /\ k \in 0 .. n
      BY <1>3
    <3>2. h[k] = g /\ f \in Fields /\ p \in NameValues /\ p.name = w.pairs[k].name
          /\ p.value = w.pairs[k].value
      BY <1>4, <1>5, <2>3, <2>6, <3>1
    <3>3. /\ CString(g.method) = IF p.name = REQUEST_METHOD THEN v ELSE CString(f.method)
          /\ CString(g.query) = IF p.name = QUERY_STRING THEN v ELSE CString(f.query)
          /\ CString(g.path) =
               IF p.name = SCRIPT_NAME \/ (p.name = PATH_INFO /\ CString(f.path) = << >>)
               THEN v ELSE CString(f.path)
      BY <3>2, AssignFacts
    <3>4. M[k] = CString(g.method) /\ Q[k] = CString(g.query) /\ P[k] = CString(g.path)
      BY <2>7, <3>1, <3>2
    <3>5. M[k - 1] = CString(f.method) /\ Q[k - 1] = CString(f.query) /\ P[k - 1] = CString(f.path)
      BY <2>7, <3>1
    <3>6. v = Limited(w.pairs[k].value)
      BY <3>2
    <3> HIDE DEF f, p, v, g
    <3> QED BY <3>2, <3>3, <3>4, <3>5, <3>6
  <2>10. /\ TakesEach(M, w, REQUEST_METHOD) /\ TakesEach(Q, w, QUERY_STRING) /\ TakesPath(P, w)
    BY <2>8, <2>9 DEF TakesEach, TakesPath, n
  <2>11. /\ M[n] = ValueOf(w, REQUEST_METHOD) /\ Q[n] = ValueOf(w, QUERY_STRING) /\ P[n] = PathOf(w)
    BY <1>3, <2>10, LastIsKept, PathIsKept DEF n
  <2>12. n \in 0 .. n
    BY <1>3
  <2> QED BY <2>2, <2>6, <2>7, <2>11, <2>12
<1>7. parsed.ok <=> ValidParams(w)
  <2>1. CASE w.cut # 0
    BY <1>1, <1>2, <2>1 DEF ValidParams
  <2>2. CASE w.cut = 0
    <3>1. parsed.fields.method \in Seq(Byte)
      BY <1>6, <2>2 DEF Fields
    <3>2. Empty(parsed.fields.method) <=> ValueOf(w, REQUEST_METHOD) = << >>
      BY <1>6, <2>2, <3>1, CStringFacts
    <3> QED BY <1>1, <1>2, <2>2, <3>2 DEF ValidParams
  <2> QED BY <2>1, <2>2
<1> QED BY <1>6, <1>7 DEF parsed

\* A C string and the body arrive in the script as they are.
LEMMA StringArgs ==
    ASSUME NEW s \in Seq(Byte)
    PROVE  /\ wireToValue(gengo_wire_str(s)) = StringValue(CString(s))
           /\ wireToValue(gengo_wire_str_n(s, Len(s))) = StringValue(s)
<1>0. Len(s) \in Nat /\ DOMAIN s = 1 .. Len(s)
  BY LenProperties
<1>1. ASSUME NEW m \in 0 .. Len(s)
      PROVE  /\ SubSeq(SubSeq(s, 1, m), 1, m) = SubSeq(s, 1, m)
             /\ m = Len(s) => SubSeq(s, 1, m) = s
  <2> DEFINE t == SubSeq(s, 1, m)
  <2>1. \A i \in 1 .. m : s[i] \in Byte
    BY <1>0
  <2>2. t \in Seq(Byte) /\ Len(t) = m /\ \A i \in 1 .. m : t[i] = s[i]
    BY <1>0, <2>1, SubSeqProperties
  <2> HIDE DEF t
  <2>3. m = Len(s) => t = s
    BY <1>0, <2>2, SeqEqual
  <2>4. /\ SubSeq(t, 1, m) \in Seq(Byte) /\ Len(SubSeq(t, 1, m)) = m
        /\ \A i \in 1 .. m : SubSeq(t, 1, m)[i] = t[i]
    BY <1>0, <2>2, SubSeqProperties
  <2>5. SubSeq(t, 1, m) = t
    BY <2>2, <2>4, SeqEqual
  <2> QED BY <2>3, <2>5 DEF t
<1>2. ASSUME NEW m \in 0 .. Len(s)
      PROVE  wireToValue(gengo_wire_str_n(s, m)) = StringValue(SubSeq(s, 1, m))
  <2> DEFINE x == gengo_wire_str_n(s, m)
  <2>1. x.tag = TagString /\ x.data = SubSeq(s, 1, m) /\ x.len = m
    BY DEF gengo_wire_str_n, gengo_wire_null
  <2> HIDE DEF x
  <2>2. TagString # TagBoolean /\ TagString # TagNumber /\ TagString # TagError
    BY DEF TagString, TagBoolean, TagNumber, TagError
  <2>3. wireToValue(x) = StringValue(SubSeq(SubSeq(s, 1, m), 1, m))
    BY <2>1, <2>2 DEF wireToValue
  <2> QED BY <1>1, <2>3 DEF x
<1>3. Len(CString(s)) \in 0 .. Len(s) /\ CString(s) = SubSeq(s, 1, Len(CString(s)))
  BY CStringFacts
<1>4. wireToValue(gengo_wire_str(s)) = StringValue(CString(s))
  BY <1>2, <1>3 DEF gengo_wire_str
<1>5. Len(s) \in 0 .. Len(s)
  BY <1>0
<1> QED BY <1>1, <1>2, <1>4, <1>5

\* handle() is called with what the request says.
LEMMA HandlerGets ==
    ASSUME NEW w, WellFormed(w), ValidParams(w)
    PROVE  LET h == Handler(HandleArgs(parse_params(EncodeParams(w)).fields, w.body))
           IN  h = Expected(w) /\ h \in Seq(Nat)
<1> DEFINE f == parse_params(EncodeParams(w)).fields
           a == HandleArgs(f, w.body)
           m == ValueOf(w, REQUEST_METHOD)
           p == PathOf(w)
           q == ValueOf(w, QUERY_STRING)
<1>1. /\ f \in Fields /\ CString(f.method) = m /\ CString(f.path) = p /\ CString(f.query) = q
  BY ParamsRead DEF ValidParams
<1>2. f.method \in Seq(Byte) /\ f.path \in Seq(Byte) /\ f.query \in Seq(Byte) /\ w.body \in Seq(Byte)
  BY <1>1 DEF Fields, WellFormed
<1> HIDE DEF f, m, p, q
<1>3. m \in Seq(Byte) /\ p \in Seq(Byte) /\ q \in Seq(Byte)
  BY <1>1, <1>2, CStringFacts
<1> DEFINE x1 == gengo_wire_str(f.method)
           x2 == gengo_wire_str(f.path)
           x3 == gengo_wire_str(f.query)
           x4 == gengo_wire_str_n(w.body, Len(w.body))
<1>4. /\ wireToValue(x1) = StringValue(m) /\ wireToValue(x2) = StringValue(p)
      /\ wireToValue(x3) = StringValue(q) /\ wireToValue(x4) = StringValue(w.body)
  BY <1>1, <1>2, StringArgs
<1>5. a = [i \in DOMAIN <<x1, x2, x3, x4>> |-> wireToValue(<<x1, x2, x3, x4>>[i])]
  BY DEF HandleArgs
<1> HIDE DEF x1, x2, x3, x4, a
<1>6. a[1] = StringValue(m) /\ a[2] = StringValue(p) /\ a[3] = StringValue(q)
      /\ a[4] = StringValue(w.body)
  BY <1>4, <1>5
<1> DEFINE b == <<StringValue(m), StringValue(p), StringValue(q), StringValue(w.body)>>
<1>7. b[1] = StringValue(m) /\ b[2] = StringValue(p) /\ b[3] = StringValue(q)
      /\ b[4] = StringValue(w.body)
  OBVIOUS
<1> HIDE DEF b
<1>8. Handler(a) = Handler(b)
  BY <1>6, <1>7 DEF Handler
<1>9. Expected(w) = Handler(b)
  BY DEF Expected, b, m, p, q
<1>10. \A s : StringValue(s).data = s
  BY DEF StringValue, Value
<1>11. Handler(b) = m \o Separator \o p \o Separator \o q \o Separator \o w.body
  BY <1>7, <1>10 DEF Handler
<1>12. Handler(b) \in Seq(Nat)
  <2>1. Separator \in Seq(Nat) /\ Byte \subseteq Nat
    BY DEF Separator, Byte
  <2>2. m \in Seq(Nat) /\ p \in Seq(Nat) /\ q \in Seq(Nat) /\ w.body \in Seq(Nat)
    BY <1>2, <1>3, <2>1, SeqMonotonic
  <2> QED BY <1>11, <2>1, <2>2
<1> QED BY <1>8, <1>9, <1>12 DEF a, f
----------------------------------------------------------------------------
(* Output.                                                                 *)

\* The records of a stream that say something.
DataRecords ==
    {m \in [type : {"stdout", "stderr"}, data : Seq(Nat), pad : 0..7, status : {0}] :
        /\ m.data # << >> /\ Len(m.data) <= MaxRecord
        /\ (Len(m.data) + m.pad) % 8 = 0}

\* The division in write_record: the last record but one ends before the data.
LEMMA Division ==
    ASSUME NEW n \in Nat, NEW m \in Nat \ {0}, NEW i \in 1..((n + m - 1) \div m)
    PROVE  (i - 1) * m < n
<1> DEFINE q == (n + m - 1) \div m
<1>1. q \in Int /\ q * m <= n + m - 1
  BY Z3
<1>2. i \in Int /\ 1 <= i /\ i <= q
  BY <1>1
<1> HIDE DEF q
<1>3. (i - 1) * m <= (q - 1) * m
  BY <1>1, <1>2, Z3
<1>4. (q - 1) * m = q * m - m
  BY <1>1, Z3
<1>5. (i - 1) * m \in Int
  BY <1>2
<1> QED
  BY <1>1, <1>3, <1>4, <1>5, Z3

\* The padding completes a record to a multiple of eight.
LEMMA PaddingFacts ==
    ASSUME NEW n \in Nat
    PROVE  Padding(n) \in 0..7 /\ (n + Padding(n)) % 8 = 0
BY Z3 DEF Padding

\* The bounds of a record's piece of the data: not empty, inside the data, not
\* longer than a record.
LEMMA ChunkFacts ==
    ASSUME NEW n \in Nat, NEW m \in Nat \ {0}, NEW i \in 1..((n + m - 1) \div m)
    PROVE  LET a == (i - 1) * m + 1
               b == IF i * m < n THEN i * m ELSE n
           IN  a \in 1..n /\ b \in a..n /\ b - a + 1 \in 1..m
<1>1. (i - 1) * m < n
  BY Division
<1>2. i \in Nat \ {0} /\ (i - 1) * m \in Nat /\ i * m = (i - 1) * m + m
  BY Z3
<1> QED
  BY <1>1, <1>2, Z3

\* write_record cuts any data into records that fit their length field.
LEMMA WriteRecord ==
    ASSUME NEW type \in {"stdout", "stderr"}, NEW data \in Seq(Nat)
    PROVE  write_record(type, data) \in Seq(DataRecords)
<1> DEFINE q == (Len(data) + MaxRecord - 1) \div MaxRecord
           rec(i) == OutRecord(type, SubSeq(data, (i - 1) * MaxRecord + 1,
                       IF i * MaxRecord < Len(data) THEN i * MaxRecord ELSE Len(data)), 0)
<1>1. Len(data) \in Nat /\ MaxRecord \in Nat \ {0}
  BY FastCgiAssumption
<1>2. ASSUME NEW i \in 1..q PROVE rec(i) \in DataRecords
  <2> DEFINE a == (i - 1) * MaxRecord + 1
             b == IF i * MaxRecord < Len(data) THEN i * MaxRecord ELSE Len(data)
             part == SubSeq(data, a, b)
  <2>1. a \in 1..Len(data) /\ b \in a..Len(data) /\ b - a + 1 \in 1..MaxRecord
    BY <1>1, ChunkFacts
  <2> HIDE DEF a, b
  <2>2. part \in Seq(Nat) /\ Len(part) = b - a + 1
    BY <1>1, <2>1, SubSeqProperties
  <2>3. part # << >> /\ Len(part) \in 1..MaxRecord
    BY <2>1, <2>2
  <2>4. Len(part) \in Nat
    BY <2>2
  <2> HIDE DEF part
  <2>5. OutRecord(type, part, 0) \in DataRecords
    BY <1>1, <2>2, <2>3, <2>4, PaddingFacts DEF OutRecord, DataRecords
  <2> QED
    BY <2>5 DEF part, a, b
<1>3. q \in Nat
  BY <1>1, Z3
<1>4. write_record(type, data) = [i \in 1..q |-> rec(i)]
  BY DEF write_record
<1> HIDE DEF q, rec
<1> QED
  BY <1>2, <1>3, <1>4

\* What an answer looks like to the server: data, the record that ends STDOUT,
\* END_REQUEST.
Records == [type : {"stdout", "stderr", "end"}, data : Seq(Nat), pad : 0..7, status : {0, 1}]

Closing(st) ==
    <<[type |-> "stdout", data |-> << >>, pad |-> 0, status |-> 0],
      [type |-> "end", data |-> << >>, pad |-> 0, status |-> st]>>

IsAnswer(s) == \E b \in Seq(DataRecords), st \in {0, 1} : s = b \o Closing(st)

\* send_end writes the two closing records.
LEMMA SendEnd ==
    ASSUME NEW st \in {0, 1}
    PROVE  send_end(st) = Closing(st)
<1>1. Padding(Len(<< >>)) = 0 /\ Padding(8) = 0
  BY Z3 DEF Padding
<1> DEFINE e0 == [type |-> "stdout", data |-> << >>, pad |-> 0, status |-> 0]
           e1 == [type |-> "end", data |-> << >>, pad |-> 0, status |-> st]
<1>2. OutRecord("stdout", << >>, 0) = e0
  BY <1>1 DEF OutRecord
<1>3. [OutRecord("end", << >>, st) EXCEPT !.pad = Padding(8)] = e1
  BY <1>1 DEF OutRecord
<1>4. send_end(st) = <<e0>> \o <<e1>>
  BY <1>2, <1>3 DEF send_end, write_record_null
<1>5. Closing(st) = <<e0, e1>>
  BY DEF Closing
<1> HIDE DEF e0, e1
<1>6. <<e0>> \o <<e1>> = <<e0, e1>>
  <2> DEFINE S == {e0, e1}
  <2>1. <<e0>> \in Seq(S) /\ <<e1>> \in Seq(S) /\ <<e0, e1>> \in Seq(S)
    OBVIOUS
  <2>2. Len(<<e0>>) = 1 /\ Len(<<e1>>) = 1 /\ Len(<<e0, e1>>) = 2
    OBVIOUS
  <2> DEFINE t == <<e0>> \o <<e1>>
  <2>3. t \in Seq(S) /\ Len(t) = 2 /\ t[1] = e0 /\ t[2] = e1
    BY <2>1, <2>2, ConcatProperties
  <2>4. <<e0, e1>>[1] = e0 /\ <<e0, e1>>[2] = e1
    OBVIOUS
  <2> HIDE DEF t, S
  <2>5. \A i \in 1 .. Len(t) : t[i] = <<e0, e1>>[i]
    BY <2>3, <2>4
  <2>6. t = <<e0, e1>>
    BY <2>1, <2>2, <2>3, <2>5, SeqEqual
  <2> QED
    BY <2>6 DEF t
<1> QED
  BY <1>4, <1>5, <1>6

\* The two forms of an answer.
LEMMA DataAnswer ==
    ASSUME NEW data \in Seq(Nat)
    PROVE  IsAnswer(write_record("stdout", data) \o send_end(0))
<1>1. write_record("stdout", data) \in Seq(DataRecords)
  BY WriteRecord
<1> QED
  BY <1>1, SendEnd DEF IsAnswer

\* send_error writes an answer.
LEMMA ErrorAnswer ==
    ASSUME NEW message \in Seq(Nat)
    PROVE  IsAnswer(send_error(message))
<1> DEFINE w1 == write_record("stderr", message)
           w2 == write_record("stdout", PrefixText)
           w3 == write_record("stdout", message)
           w4 == write_record("stdout", NewlineText)
<1>1. PrefixText \in Seq(Nat) /\ NewlineText \in Seq(Nat)
  BY DEF PrefixText, NewlineText
<1>2. /\ w1 \in Seq(DataRecords) /\ w2 \in Seq(DataRecords)
      /\ w3 \in Seq(DataRecords) /\ w4 \in Seq(DataRecords)
  BY <1>1, WriteRecord
<1>3. send_error(message) = w1 \o w2 \o w3 \o w4 \o Closing(1)
  BY SendEnd DEF send_error
<1> HIDE DEF w1, w2, w3, w4
<1>4. w1 \o w2 \o w3 \o w4 \in Seq(DataRecords)
  BY <1>2
<1> QED
  BY <1>3, <1>4 DEF IsAnswer

\* The texts of send_error.
LEMMA MessagesAreTexts ==
    /\ Messages.busy \in Seq(Nat) /\ Messages.params \in Seq(Nat)
    /\ Messages.paramsLimit \in Seq(Nat) /\ Messages.order \in Seq(Nat)
    /\ Messages.bodyLimit \in Seq(Nat) /\ Messages.failed \in Seq(Nat)
    /\ Messages.notString \in Seq(Nat)
BY DEF Messages

\* What a returned value may come to on the wire, when it is a string at all.
LEMMA ReturnedStrings ==
    ASSUME NEW h \in Seq(Nat),
           NEW v \in {StringValue(h), StringValue(<< >>), NullValue},
           NEW w \in valueToWireWithScratch(v), w.tag = TagString
    PROVE  /\ w.data \in Seq(Nat) /\ w.len = Len(w.data)
           /\ w.data \in {<< >>} \cup setStringScratch(h)
<1>0. MaxStringScratch \in Nat \ {0} /\ Len(<< >>) = 0 /\ << >> \in Seq(Nat)
  BY WireAssumption, EmptySeq
<1>1. CASE v = NullValue
  <2>1. v.kind = "null"
    BY <1>1 DEF NullValue, Value
  <2>2. w = gengo_wire_null
    BY <2>1 DEF valueToWireWithScratch, valueToWire
  <2> QED
    BY <2>2 DEF gengo_wire_null, TagNull, TagString
<1>2. ASSUME NEW d \in Seq(Nat), v = StringValue(d)
      PROVE  w.data \in Seq(Nat) /\ w.len = Len(w.data) /\ w.data \in setStringScratch(d)
  <2>1. v.kind = "string" /\ v.data = d
    BY <1>2 DEF StringValue, Value
  <2>2. PICK t \in setStringScratch(d) : w = MakeWire(TagString, TRUE, t, Len(t))
    BY <2>1 DEF valueToWireWithScratch
  <2>3. w.data = t /\ w.len = Len(t)
    BY <2>2 DEF MakeWire, gengo_wire_null
  <2>4. t \in Seq(Nat)
    <3>1. Len(d) \in Nat
      BY LenProperties
    <3>2. CASE t = d
      BY <3>2
    <3>3. CASE t # d
      <4>1. Len(d) > MaxStringScratch /\ t = SubSeq(d, 1, MaxStringScratch)
        BY <1>0, <3>1, <3>3 DEF setStringScratch
      <4>2. \A i \in 1 .. MaxStringScratch : d[i] \in Nat
        BY <1>0, <3>1, <4>1, ElementOfSeq
      <4> QED
        BY <1>0, <3>1, <4>1, <4>2, SubSeqProperties
    <3> QED
      BY <3>2, <3>3
  <2> QED
    BY <2>2, <2>3, <2>4
<1>3. setStringScratch(<< >>) = {<< >>}
  BY <1>0 DEF setStringScratch
<1>4. CASE v = StringValue(h)
  BY <1>2, <1>4
<1>5. CASE v = StringValue(<< >>)
  <2>1. w.data \in Seq(Nat) /\ w.len = Len(w.data) /\ w.data \in setStringScratch(<< >>)
    BY <1>0, <1>2, <1>5
  <2> QED
    BY <1>3, <2>1
<1> QED
  BY <1>1, <1>4, <1>5

\* run_request writes one answer, whatever the script does.
LEMMA RunRequestAnswers ==
    ASSUME NEW rq, NEW answer \in run_request(rq),
           parse_params(rq.params).ok =>
               Handler(HandleArgs(parse_params(rq.params).fields, rq.body)) \in Seq(Nat)
    PROVE  IsAnswer(answer)
<1> DEFINE parsed == parse_params(rq.params)
           h == Handler(HandleArgs(parsed.fields, rq.body))
<1>1. CASE ~parsed.ok
  <2>1. answer = send_error(Messages.params)
    BY <1>1 DEF run_request
  <2> QED
    BY <2>1, ErrorAnswer, MessagesAreTexts
<1>2. CASE parsed.ok
  <2>1. PICK c \in CallOutcomes(HandleArgs(parsed.fields, rq.body)) :
          answer = IF c.rc # 0 THEN send_error(Messages.failed)
                   ELSE IF c.out.tag # TagString \/ ~c.out.ptr THEN send_error(Messages.notString)
                   ELSE write_record("stdout", SubSeq(c.out.data, 1, c.out.len)) \o send_end(0)
    BY <1>2 DEF run_request
  <2>2. CASE c.rc # 0 \/ c.out.tag # TagString \/ ~c.out.ptr
    BY <2>1, <2>2, ErrorAnswer, MessagesAreTexts
  <2>3. CASE ~(c.rc # 0 \/ c.out.tag # TagString \/ ~c.out.ptr)
    <3>1. PICK v \in {StringValue(h), StringValue(<< >>), NullValue} :
            c.out \in valueToWireWithScratch(v)
      <4> HIDE DEF h
      <4> QED
        BY <2>1, <2>3 DEF CallOutcomes, h
    <3>2. c.out.tag = TagString
      BY <2>3
    <3>3. c.out.data \in Seq(Nat) /\ c.out.len = Len(c.out.data)
      <4>1. h \in Seq(Nat)
        BY <1>2
      <4> HIDE DEF h
      <4> QED
        BY <3>1, <3>2, <4>1, ReturnedStrings
    <3>4. SubSeq(c.out.data, 1, c.out.len) = c.out.data
      BY <3>3, SubSeqFull
    <3>5. SubSeq(c.out.data, 1, c.out.len) \in Seq(Nat)
      BY <3>3, <3>4
    <3> QED
      BY <2>1, <2>3, <3>5, DataAnswer
  <2> QED
    BY <2>2, <2>3
<1> QED
  BY <1>1, <1>2

\* Every answer to a request of the workload is one.
LEMMA AnswersAreAnswers ==
    ASSUME NEW w \in Workloads, NEW r \in Requests, NEW x \in AnswersOf(w[r])
    PROVE  IsAnswer(x)
<1>1. CASE x \in run_request(Whole(w[r]))
  <2>1. Whole(w[r]).params = EncodeParams(w[r]) /\ Whole(w[r]).body = w[r].body
    BY DEF Whole
  <2>2. WellFormed(w[r])
    BY WorkloadAssumption
  <2>3. parse_params(Whole(w[r]).params).ok =>
          Handler(HandleArgs(parse_params(Whole(w[r]).params).fields, Whole(w[r]).body)) \in Seq(Nat)
    BY <2>1, <2>2, ParamsRead, HandlerGets
  <2> QED
    BY <1>1, <2>3, RunRequestAnswers
<1>2. CASE x \notin run_request(Whole(w[r]))
  <2>1. \/ x = send_error(Messages.busy) \/ x = send_error(Messages.paramsLimit)
        \/ x = send_error(Messages.bodyLimit) \/ x = send_error(Messages.order)
    BY <1>2 DEF AnswersOf
  <2> QED
    BY <2>1, ErrorAnswer, MessagesAreTexts
<1> QED
  BY <1>1, <1>2
----------------------------------------------------------------------------
(* What the server reads out of the records.                               *)

\* The parts of a stream, and the stream, that records carry.
PartsOf(b, type) == [i \in DOMAIN b |-> IF b[i].type = type THEN b[i].data ELSE << >>]
StreamOf(b, type) == FlattenSeq(PartsOf(b, type))

\* Concatenation of concatenations.
LEMMA FlattenConcat ==
    ASSUME NEW S, NEW x \in Seq(Seq(S)), NEW y \in Seq(Seq(S))
    PROVE  FlattenSeq(x \o y) = FlattenSeq(x) \o FlattenSeq(y)
<1> DEFINE m == Len(x)
           n == Len(y)
           z == x \o y
<1>1. m \in Nat /\ n \in Nat
  BY LenProperties
<1>2. /\ z \in Seq(Seq(S)) /\ Len(z) = m + n
      /\ \A i \in 1 .. m + n : z[i] = IF i <= m THEN x[i] ELSE y[i - m]
  BY ConcatProperties
<1>3. PICK f : Joins(f, x, S) /\ FlattenSeq(x) = f[m]
  BY FlattenFacts
<1>4. PICK g : Joins(g, y, S) /\ FlattenSeq(y) = g[n]
  BY FlattenFacts
<1> HIDE DEF z
<1>5. PICK h : Joins(h, z, S) /\ FlattenSeq(z) = h[m + n]
  BY <1>2, FlattenFacts
<1> HIDE DEF m, n
<1>6. /\ \A i \in 0 .. m : f[i] \in Seq(S)
      /\ \A i \in 0 .. n : g[i] \in Seq(S)
      /\ \A i \in 1 .. m : x[i] \in Seq(S)
      /\ \A i \in 1 .. n : y[i] \in Seq(S)
  <2>1. f \in [0 .. m -> Seq(S)] /\ g \in [0 .. n -> Seq(S)]
    BY <1>3, <1>4 DEF Joins, m, n
  <2>2. \A i \in 1 .. m : x[i] \in Seq(S)
    BY DEF m
  <2>3. \A i \in 1 .. n : y[i] \in Seq(S)
    BY DEF n
  <2> QED
    BY <2>1, <2>2, <2>3
<1>7. /\ f[0] = << >> /\ g[0] = << >> /\ h[0] = << >>
      /\ \A i \in 1 .. m : f[i] = f[i - 1] \o x[i]
      /\ \A i \in 1 .. n : g[i] = g[i - 1] \o y[i]
      /\ \A i \in 1 .. m + n : h[i] = h[i - 1] \o z[i]
  BY <1>2, <1>3, <1>4, <1>5 DEF Joins, m, n
<1> DEFINE A == {i \in 0 .. m : h[i] = f[i]}
           B == {i \in 0 .. n : h[m + i] = f[m] \o g[i]}
<1>8. m \in A
  <2>1. 0 \in A
    BY <1>1, <1>7
  <2>2. ASSUME NEW i \in 0 .. (m - 1), i \in A PROVE i + 1 \in A
    <3>1. i + 1 \in 1 .. m /\ i + 1 \in 1 .. m + n /\ i + 1 <= m /\ (i + 1) - 1 = i
          /\ i + 1 \in 0 .. m
      BY <1>1
    <3>2. z[i + 1] = x[i + 1]
      BY <1>2, <3>1
    <3>3. h[i + 1] = h[i] \o x[i + 1] /\ f[i + 1] = f[i] \o x[i + 1]
      BY <1>7, <3>1, <3>2
    <3>4. h[i] = f[i]
      BY <2>2
    <3> QED BY <3>1, <3>3, <3>4
  <2> HIDE DEF A
  <2>3. 0 .. m \subseteq A
    BY <1>1, <2>1, <2>2, Reaches
  <2> QED BY <1>1, <2>3
<1>9. n \in B
  <2>0. m \in 0 .. m /\ f[m] \in Seq(S)
    BY <1>1, <1>6
  <2>1. 0 \in B
    <3>1. m + 0 = m /\ 0 \in 0 .. n
      BY <1>1
    <3>2. f[m] \o << >> = f[m]
      BY <2>0, ConcatEmptySeq
    <3> QED BY <1>7, <1>8, <3>1, <3>2
  <2>2. ASSUME NEW i \in 0 .. (n - 1), i \in B PROVE i + 1 \in B
    <3> DEFINE k == m + (i + 1)
    <3>1. i + 1 \in 1 .. n /\ (i + 1) - 1 = i /\ i + 1 \in 0 .. n /\ i \in 0 .. n
      BY <1>1
    <3>2. k \in 1 .. m + n /\ ~(k <= m) /\ k - m = i + 1 /\ k - 1 = m + i
      BY <1>1, <3>1
    <3> HIDE DEF k
    <3>3. z[k] = y[i + 1]
      BY <1>2, <3>2
    <3>4. h[k] = h[m + i] \o y[i + 1] /\ g[i + 1] = g[i] \o y[i + 1]
      BY <1>7, <3>1, <3>2, <3>3
    <3>5. h[m + i] = f[m] \o g[i]
      BY <2>2
    <3> DEFINE a == f[m]
               b == g[i]
               c == y[i + 1]
    <3>6. a \in Seq(S) /\ b \in Seq(S) /\ c \in Seq(S)
      BY <1>6, <2>0, <3>1
    <3>7. h[k] = (a \o b) \o c /\ g[i + 1] = b \o c
      BY <3>4, <3>5
    <3> HIDE DEF a, b, c
    <3>8. (a \o b) \o c = a \o (b \o c)
      BY <3>6, ConcatAssociative, SMTT(30)
    <3>9. h[k] = a \o g[i + 1]
      BY <3>7, <3>8
    <3> QED BY <3>1, <3>9 DEF k, a
  <2> HIDE DEF B
  <2>3. 0 .. n \subseteq B
    BY <1>1, <2>1, <2>2, Reaches
  <2> QED BY <1>1, <2>3
<1> QED BY <1>3, <1>4, <1>5, <1>9 DEF z, m, n

\* Records behind records add to the streams.
LEMMA StreamConcat ==
    ASSUME NEW a \in Seq(Records), NEW b \in Seq(Records), NEW type
    PROVE  /\ a \o b \in Seq(Records)
           /\ StreamOf(a \o b, type) = StreamOf(a, type) \o StreamOf(b, type)
<1>1. ASSUME NEW c \in Seq(Records)
      PROVE  /\ PartsOf(c, type) \in Seq(Seq(Nat)) /\ Len(PartsOf(c, type)) = Len(c)
             /\ \A i \in 1 .. Len(c) :
                  PartsOf(c, type)[i] = IF c[i].type = type THEN c[i].data ELSE << >>
  <2> DEFINE part(i) == IF c[i].type = type THEN c[i].data ELSE << >>
             n == Len(c)
  <2>1. n \in Nat /\ DOMAIN c = 1 .. n
    BY LenProperties
  <2>2. ASSUME NEW i \in 1 .. n PROVE part(i) \in Seq(Nat)
    <3>1. c[i] \in Records
      BY <2>1
    <3>2. c[i].data \in Seq(Nat)
      BY <3>1 DEF Records
    <3> QED BY <3>2, EmptySeq
  <2>3. PartsOf(c, type) = [i \in 1 .. n |-> part(i)]
    BY <2>1 DEF PartsOf
  <2>4. \A i \in 1 .. n : PartsOf(c, type)[i] = part(i)
    BY <2>3
  <2> HIDE DEF n, part
  <2>5. PartsOf(c, type) \in Seq(Seq(Nat)) /\ Len(PartsOf(c, type)) = n
    BY <2>1, <2>2, <2>3
  <2> QED BY <2>4, <2>5 DEF n, part
<1> DEFINE t == a \o b
           m == Len(a)
           n == Len(b)
           x == PartsOf(a, type)
           y == PartsOf(b, type)
           z == PartsOf(t, type)
<1>2. m \in Nat /\ n \in Nat
  BY LenProperties
<1>3. /\ t \in Seq(Records) /\ Len(t) = m + n
      /\ \A i \in 1 .. m + n : t[i] = IF i <= m THEN a[i] ELSE b[i - m]
  BY ConcatProperties
<1> HIDE DEF t, m, n
<1>4. /\ x \in Seq(Seq(Nat)) /\ Len(x) = m
      /\ \A i \in 1 .. m : x[i] = IF a[i].type = type THEN a[i].data ELSE << >>
  BY <1>1 DEF m
<1>5. /\ y \in Seq(Seq(Nat)) /\ Len(y) = n
      /\ \A i \in 1 .. n : y[i] = IF b[i].type = type THEN b[i].data ELSE << >>
  BY <1>1 DEF n
<1>6. /\ z \in Seq(Seq(Nat)) /\ Len(z) = m + n
      /\ \A i \in 1 .. m + n : z[i] = IF t[i].type = type THEN t[i].data ELSE << >>
  <2>1. /\ z \in Seq(Seq(Nat)) /\ Len(z) = Len(t)
        /\ \A i \in 1 .. Len(t) : z[i] = IF t[i].type = type THEN t[i].data ELSE << >>
    BY <1>1, <1>3
  <2> HIDE DEF z
  <2> QED BY <1>3, <2>1
<1> HIDE DEF x, y, z
<1>7. /\ x \o y \in Seq(Seq(Nat)) /\ Len(x \o y) = m + n
      /\ \A i \in 1 .. m + n : (x \o y)[i] = IF i <= m THEN x[i] ELSE y[i - m]
  <2>1. /\ x \o y \in Seq(Seq(Nat)) /\ Len(x \o y) = Len(x) + Len(y)
        /\ \A i \in 1 .. Len(x) + Len(y) :
             (x \o y)[i] = IF i <= Len(x) THEN x[i] ELSE y[i - Len(x)]
    BY <1>4, <1>5, ConcatProperties
  <2> QED BY <1>4, <1>5, <2>1, Zenon
<1>8. ASSUME NEW i \in 1 .. m + n PROVE z[i] = (x \o y)[i]
  <2>1. CASE i <= m
    <3>1. i \in 1 .. m
      BY <1>2, <2>1
    <3> QED BY <1>3, <1>4, <1>6, <1>7, <2>1, <3>1
  <2>2. CASE ~(i <= m)
    <3>1. i - m \in 1 .. n
      BY <1>2, <2>2
    <3>2. t[i] = b[i - m] /\ (x \o y)[i] = y[i - m]
      BY <1>3, <1>7, <2>2
    <3> QED BY <1>5, <1>6, <3>1, <3>2
  <2> QED BY <2>1, <2>2
<1>9. z = x \o y
  <2>1. Len(z) = Len(x \o y)
    BY <1>6, <1>7
  <2>2. \A i \in 1 .. Len(z) : z[i] = (x \o y)[i]
    BY <1>6, <1>8
  <2> QED BY <1>6, <1>7, <2>1, <2>2, SeqEqual
<1>10. FlattenSeq(x \o y) = FlattenSeq(x) \o FlattenSeq(y)
  BY <1>4, <1>5, FlattenConcat
<1> QED BY <1>3, <1>9, <1>10 DEF StreamOf, x, y, z, t

\* Nothing after nothing.
LEMMA FlattenNothing ==
    ASSUME NEW S, NEW s \in Seq(Seq(S)), \A i \in 1 .. Len(s) : s[i] = << >>
    PROVE  FlattenSeq(s) = << >>
<1> DEFINE n == Len(s)
<1>1. n \in Nat
  BY LenProperties
<1>2. PICK f : Joins(f, s, S) /\ FlattenSeq(s) = f[n]
  BY FlattenFacts
<1>3. f[0] = << >> /\ \A i \in 1 .. n : f[i] = f[i - 1] \o s[i]
  BY <1>2 DEF Joins
<1> DEFINE T == {i \in 0 .. n : f[i] = << >>}
<1>4. 0 \in T
  BY <1>1, <1>3
<1>5. ASSUME NEW i \in 0 .. (n - 1), i \in T PROVE i + 1 \in T
  <2>1. i + 1 \in 1 .. n /\ (i + 1) - 1 = i /\ i + 1 \in 0 .. n
    BY <1>1
  <2>2. f[i + 1] = << >> \o << >>
    BY <1>3, <1>5, <2>1
  <2>3. << >> \o << >> = << >>
    BY EmptySeq, ConcatEmptySeq
  <2> QED BY <2>1, <2>2, <2>3
<1>6. 0 .. n \subseteq T
  <2> HIDE DEF T, n
  <2> QED BY <1>1, <1>4, <1>5, Reaches
<1> QED BY <1>1, <1>2, <1>6

\* A beginning and what follows it.
LEMMA SubSeqJoined ==
    ASSUME NEW S, NEW s \in Seq(S), NEW a \in Nat, NEW b \in Nat, a <= b, b <= Len(s)
    PROVE  SubSeq(s, 1, a) \o SubSeq(s, a + 1, b) = SubSeq(s, 1, b)
<1> DEFINE x == SubSeq(s, 1, a)
           y == SubSeq(s, a + 1, b)
           z == SubSeq(s, 1, b)
           c == b - a
<1>1. Len(s) \in Nat /\ c \in Nat /\ a + c = b
  BY LenProperties
<1>2. a <= Len(s)
  BY <1>1
<1>3. x \in Seq(S) /\ Len(x) = a /\ \A i \in 1 .. a : x[i] = s[i]
  BY <1>2, PrefixFacts
<1>4. y \in Seq(S) /\ Len(y) = c /\ \A i \in 1 .. c : y[i] = s[a + i]
  <2> DEFINE v == SubSeq(s, a + 1, a + c)
  <2>1. v \in Seq(S) /\ Len(v) = c /\ \A i \in 1 .. c : v[i] = s[a + i]
    BY <1>1, SegmentFacts
  <2>2. v = y
    BY <1>1
  <2> QED BY <2>1, <2>2
<1>5. z \in Seq(S) /\ Len(z) = b /\ \A i \in 1 .. b : z[i] = s[i]
  BY PrefixFacts
<1> HIDE DEF x, y, z, c
<1>6. /\ x \o y \in Seq(S) /\ Len(x \o y) = b
      /\ \A i \in 1 .. b : (x \o y)[i] = IF i <= a THEN x[i] ELSE y[i - a]
  <2>1. x \in Seq(S) /\ y \in Seq(S)
    BY <1>3, <1>4
  <2>2. /\ x \o y \in Seq(S) /\ Len(x \o y) = Len(x) + Len(y)
        /\ \A i \in 1 .. Len(x) + Len(y) :
              (x \o y)[i] = IF i <= Len(x) THEN x[i] ELSE y[i - Len(x)]
    BY <2>1, ConcatProperties, Zenon
  <2>3. Len(x) = a /\ Len(y) = c /\ a + c = b
    BY <1>1, <1>3, <1>4
  <2> QED BY <2>2, <2>3
<1>7. \A i \in 1 .. b : (x \o y)[i] = z[i]
  <2> SUFFICES ASSUME NEW i \in 1 .. b PROVE (x \o y)[i] = z[i]
    OBVIOUS
  <2>1. CASE i <= a
    BY <1>3, <1>5, <1>6, <2>1
  <2>2. CASE ~(i <= a)
    <3>1. i - a \in 1 .. c /\ a + (i - a) = i
      BY <1>1, <2>2
    <3> QED BY <1>4, <1>5, <1>6, <2>2, <3>1
  <2> QED BY <2>1, <2>2
<1>8. x \o y = z
  BY <1>5, <1>6, <1>7, SeqEqual
<1> QED BY <1>8 DEF x, y, z

\* The records of write_record, put together, are the data, and nothing of any
\* other stream.
LEMMA WrittenIsRead ==
    ASSUME NEW type \in {"stdout", "stderr"}, NEW data \in Seq(Nat), NEW other, other # type
    PROVE  /\ StreamOf(write_record(type, data), type) = data
           /\ StreamOf(write_record(type, data), other) = << >>
<1> DEFINE n == Len(data)
           M == MaxRecord
           q == (n + M - 1) \div M
           e(i) == IF i * M < n THEN i * M ELSE n
           part(i) == SubSeq(data, (i - 1) * M + 1, e(i))
           b == write_record(type, data)
           s == PartsOf(b, type)
           t == PartsOf(b, other)
<1>1. n \in Nat /\ M \in Nat \ {0}
  BY FastCgiAssumption, LenProperties
<1>2. b = [i \in 1 .. q |-> OutRecord(type, part(i), 0)]
  BY DEF write_record
<1>3. q \in Nat /\ q * M >= n
  BY <1>1, Z3
<1>4. ASSUME NEW i \in 1 .. q
      PROVE  /\ (i - 1) * M \in Nat /\ e(i) \in Nat /\ e(i - 1) = (i - 1) * M
             /\ (i - 1) * M <= e(i) /\ e(i) <= n
  <2> DEFINE a == (i - 1) * M + 1
             c == e(i)
  <2>1. a \in 1 .. n /\ c \in a .. n
    BY <1>1, ChunkFacts
  <2>2. (i - 1) * M \in Nat /\ c \in Nat /\ (i - 1) * M < n
    <3>1. i \in Nat /\ i - 1 \in Nat
      BY <1>3
    <3>2. (i - 1) * M \in Nat
      BY <1>1, <3>1, Z3
    <3> HIDE DEF c, q, n
    <3> QED BY <1>1, <2>1, <3>2
  <2>3. e(i - 1) = (i - 1) * M
    BY <2>2
  <2> HIDE DEF e, q, n
  <2> QED BY <1>1, <2>1, <2>2, <2>3
<1>5. e(0) = 0 /\ e(q) = n
  <2>1. 0 * M = 0
    BY <1>1, Z3
  <2>2. e(0) = 0
    BY <1>1, <2>1
  <2>3. q * M \in Nat
    BY <1>1, <1>3, Z3
  <2> HIDE DEF q, n
  <2>4. e(q) = n
    BY <1>1, <1>3, <2>3
  <2> QED BY <2>2, <2>4
<1> HIDE DEF q, n, M, e
<1>6. ASSUME NEW i \in 1 .. q PROVE part(i) \in Seq(Nat)
  <2> DEFINE a == (i - 1) * M
             c == e(i)
  <2>1. a \in Nat /\ c \in Nat /\ a <= c /\ c <= n
    BY <1>4
  <2> HIDE DEF a, c
  <2>2. a + 1 >= 1 /\ c <= Len(data)
    BY <2>1 DEF n
  <2>3. SubSeq(data, a + 1, c) \in Seq(Nat)
    BY <1>1, <2>1, <2>2, SubSeqProperties
  <2> QED BY <2>3 DEF a, c
<1> HIDE DEF part
<1>7. ASSUME NEW i \in 1 .. q
      PROVE  b[i].type = type /\ b[i].data = part(i)
  BY <1>2 DEF OutRecord
<1>8. DOMAIN b = 1 .. q
  BY <1>2
<1> HIDE DEF b
<1>9. /\ s \in Seq(Seq(Nat)) /\ Len(s) = q /\ \A i \in 1 .. q : s[i] = part(i)
  <2>1. s = [i \in 1 .. q |-> part(i)]
    <3>1. \A i \in 1 .. q : (IF b[i].type = type THEN b[i].data ELSE << >>) = part(i)
      BY <1>7
    <3> QED BY <1>8, <3>1 DEF PartsOf
  <2> HIDE DEF s
  <2> QED BY <1>3, <1>6, <2>1
<1>10. /\ t \in Seq(Seq(Nat)) /\ Len(t) = q /\ \A i \in 1 .. q : t[i] = << >>
  <2>1. t = [i \in 1 .. q |-> << >>]
    <3>1. \A i \in 1 .. q : (IF b[i].type = other THEN b[i].data ELSE << >>) = << >>
      BY <1>7
    <3> QED BY <1>8, <3>1 DEF PartsOf
  <2>2. << >> \in Seq(Nat)
    BY EmptySeq
  <2> HIDE DEF t
  <2> QED BY <1>3, <2>1, <2>2
<1> HIDE DEF s, t
<1>11. FlattenSeq(t) = << >>
  BY <1>10, FlattenNothing
<1>12. PICK f : Joins(f, s, Nat) /\ FlattenSeq(s) = f[Len(s)]
  BY <1>9, FlattenFacts
<1>13. f[0] = << >> /\ \A i \in 1 .. q : f[i] = f[i - 1] \o part(i)
  BY <1>9, <1>12 DEF Joins
<1> DEFINE T == {i \in 0 .. q : f[i] = SubSeq(data, 1, e(i))}
<1>14. 0 \in T
  <2>1. SubSeq(data, 1, 0) = << >>
    BY SubSeqEmpty
  <2>2. f[0] = SubSeq(data, 1, e(0))
    BY <1>5, <1>13, <2>1, Zenon
  <2>3. 0 \in 0 .. q
    BY <1>3
  <2> QED BY <2>2, <2>3
<1>15. ASSUME NEW i \in 0 .. (q - 1), i \in T PROVE i + 1 \in T
  <2> DEFINE k == i + 1
             a == (k - 1) * M
             c == e(k)
  <2>1. k \in 1 .. q /\ k - 1 = i /\ k \in 0 .. q
    BY <1>3
  <2>2. a \in Nat /\ c \in Nat /\ a <= c /\ c <= n /\ e(i) = a
    <3> HIDE DEF k
    <3> QED BY <1>4, <2>1
  <2>3. part(k) = SubSeq(data, a + 1, c)
    BY DEF part
  <2>4. f[i] = SubSeq(data, 1, a)
    BY <1>15, <2>2
  <2>5. f[k] = f[i] \o part(k)
    <3> HIDE DEF k
    <3> QED BY <1>13, <2>1
  <2> HIDE DEF a, c
  <2>6. SubSeq(data, 1, a) \o SubSeq(data, a + 1, c) = SubSeq(data, 1, c)
    BY <2>2, SubSeqJoined DEF n
  <2>7. f[k] = SubSeq(data, 1, e(k))
    BY <2>3, <2>4, <2>5, <2>6 DEF c
  <2> QED BY <2>1, <2>7
<1>16. 0 .. q \subseteq T
  <2> HIDE DEF T
  <2> QED BY <1>3, <1>14, <1>15, Reaches
<1>17. f[q] = SubSeq(data, 1, n)
  <2>1. q \in 0 .. q
    BY <1>3
  <2>2. q \in T
    BY <1>16, <2>1
  <2> QED BY <1>5, <2>2
<1>18. SubSeq(data, 1, n) = data
  BY SubSeqFull DEF n
<1> QED BY <1>9, <1>11, <1>12, <1>17, <1>18 DEF StreamOf, s, t, b

\* The closing records carry nothing.
LEMMA ClosingIsSilent ==
    ASSUME NEW st \in {0, 1}, NEW type
    PROVE  Closing(st) \in Seq(Records) /\ StreamOf(Closing(st), type) = << >>
<1> DEFINE c == Closing(st)
           t == PartsOf(c, type)
<1>1. /\ c \in Seq(Records) /\ Len(c) = 2 /\ DOMAIN c = 1 .. 2
      /\ \A i \in 1 .. 2 : c[i].data = << >>
  BY DEF Closing, Records
<1> HIDE DEF c
<1>2. t = [i \in 1 .. 2 |-> << >>]
  <2>1. \A i \in 1 .. 2 : (IF c[i].type = type THEN c[i].data ELSE << >>) = << >>
    BY <1>1
  <2> QED BY <1>1, <2>1 DEF PartsOf
<1> HIDE DEF t
<1>3. t \in Seq(Seq(Nat)) /\ \A i \in 1 .. Len(t) : t[i] = << >>
  <2>1. << >> \in Seq(Nat)
    BY EmptySeq
  <2> QED BY <1>2, <2>1
<1>4. FlattenSeq(t) = << >>
  BY <1>3, FlattenNothing
<1> QED BY <1>1, <1>4 DEF StreamOf, c, t

\* Data records are records.
LEMMA WrittenRecords ==
    ASSUME NEW type \in {"stdout", "stderr"}, NEW data \in Seq(Nat)
    PROVE  write_record(type, data) \in Seq(Records)
<1>1. DataRecords \subseteq Records
  BY DEF DataRecords, Records
<1>2. write_record(type, data) \in Seq(DataRecords)
  BY WriteRecord
<1> HIDE DEF DataRecords, Records
<1> QED BY <1>1, <1>2, SeqMonotonic

\* The status is in the last record.
LEMMA ClosingStatus ==
    ASSUME NEW b \in Seq(Records), NEW st \in {0, 1}
    PROVE  Last(b \o Closing(st)).status = st
<1> DEFINE c == Closing(st)
           n == Len(b)
<1>1. c \in Seq(Records) /\ Len(c) = 2 /\ c[2].status = st
  BY DEF Closing, Records
<1>2. n \in Nat
  BY LenProperties
<1> HIDE DEF c
<1>3. Len(b \o c) = n + 2 /\ (b \o c)[n + 2] = c[2]
  <2>1. /\ Len(b \o c) = Len(b) + Len(c)
        /\ \A i \in 1 .. Len(b) + Len(c) : (b \o c)[i] = IF i <= Len(b) THEN b[i] ELSE c[i - Len(b)]
    BY <1>1, ConcatProperties
  <2> HIDE DEF n
  <2>2. n + 2 \in 1 .. n + 2 /\ ~(n + 2 <= n) /\ (n + 2) - n = 2
    BY <1>2
  <2>3. \A i \in 1 .. n + 2 : (b \o c)[i] = IF i <= n THEN b[i] ELSE c[i - n]
    BY <1>1, <2>1 DEF n
  <2> QED BY <1>1, <2>1, <2>2, <2>3 DEF n
<1> QED BY <1>1, <1>3 DEF Last, c

\* What the server reads in an answer with data.
LEMMA DataAnswerReads ==
    ASSUME NEW data \in Seq(Nat)
    PROVE  LET x == write_record("stdout", data) \o send_end(0)
           IN  /\ Last(x).status = 0
               /\ StreamOf(x, "stdout") = data
               /\ StreamOf(x, "stderr") = << >>
<1> DEFINE b == write_record("stdout", data)
           c == Closing(0)
<1>1. b \in Seq(Records) /\ c \in Seq(Records) /\ send_end(0) = c
  BY WrittenRecords, ClosingIsSilent, SendEnd
<1>2. StreamOf(b, "stdout") = data /\ StreamOf(b, "stderr") = << >>
  BY WrittenIsRead
<1>3. StreamOf(c, "stdout") = << >> /\ StreamOf(c, "stderr") = << >>
  BY ClosingIsSilent
<1>4. Last(b \o c).status = 0
  BY <1>1, ClosingStatus
<1> HIDE DEF b, c
<1>5. /\ StreamOf(b \o c, "stdout") = data \o << >>
      /\ StreamOf(b \o c, "stderr") = << >> \o << >>
  <2>1. b \in Seq(Records) /\ c \in Seq(Records)
    BY <1>1
  <2>2. StreamOf(b \o c, "stdout") = StreamOf(b, "stdout") \o StreamOf(c, "stdout")
    BY <2>1, StreamConcat, Zenon
  <2>3. StreamOf(b \o c, "stderr") = StreamOf(b, "stderr") \o StreamOf(c, "stderr")
    BY <2>1, StreamConcat, Zenon
  <2> QED BY <1>2, <1>3, <2>2, <2>3, Zenon
<1>6. data \o << >> = data /\ << >> \o << >> = << >>
  BY EmptySeq, ConcatEmptySeq
<1> QED BY <1>1, <1>4, <1>5, <1>6 DEF b

\* What the server reads in an answer of send_error.
LEMMA ErrorAnswerReads ==
    ASSUME NEW message \in Seq(Nat)
    PROVE  LET x == send_error(message)
           IN  Last(x).status = 1 /\ StreamOf(x, "stderr") = message
<1> DEFINE w1 == write_record("stderr", message)
           w2 == write_record("stdout", PrefixText)
           w3 == write_record("stdout", message)
           w4 == write_record("stdout", NewlineText)
           c == Closing(1)
           E(b) == StreamOf(b, "stderr")
<1>1. PrefixText \in Seq(Nat) /\ NewlineText \in Seq(Nat)
  BY DEF PrefixText, NewlineText
<1>2. w1 \in Seq(Records) /\ w2 \in Seq(Records) /\ w3 \in Seq(Records) /\ w4 \in Seq(Records)
      /\ c \in Seq(Records)
  BY <1>1, WrittenRecords, ClosingIsSilent
<1>3. E(w1) = message /\ E(w2) = << >> /\ E(w3) = << >> /\ E(w4) = << >> /\ E(c) = << >>
  BY <1>1, WrittenIsRead, ClosingIsSilent
<1>4. send_error(message) = w1 \o w2 \o w3 \o w4 \o c
  BY SendEnd DEF send_error
<1> HIDE DEF w1, w2, w3, w4, c
<1>5. message \o << >> = message
  BY ConcatEmptySeq
<1>6. ASSUME NEW x \in Seq(Records), NEW y \in Seq(Records), E(x) = message, E(y) = << >>
      PROVE  x \o y \in Seq(Records) /\ E(x \o y) = message
  <2>1. x \o y \in Seq(Records) /\ E(x \o y) = E(x) \o E(y)
    BY StreamConcat, Zenon
  <2> QED BY <1>5, <1>6, <2>1, Zenon
<1> HIDE DEF E
<1>7. w1 \o w2 \o w3 \in Seq(Records) /\ E(w1 \o w2 \o w3) = message
  BY <1>2, <1>3, <1>6, Zenon
<1>8. w1 \o w2 \o w3 \o w4 \in Seq(Records) /\ E(w1 \o w2 \o w3 \o w4) = message
  BY <1>2, <1>3, <1>6, <1>7, Zenon
<1>9. E(w1 \o w2 \o w3 \o w4 \o c) = message
  BY <1>2, <1>3, <1>6, <1>8, Zenon
<1>10. Last(w1 \o w2 \o w3 \o w4 \o c).status = 1
  BY <1>8, ClosingStatus DEF c
<1> QED BY <1>4, <1>9, <1>10 DEF E

\* An answer seen record by record.
LEMMA AnswerShape ==
    ASSUME NEW s, IsAnswer(s)
    PROVE  /\ s # << >> /\ Len(s) \in Nat /\ Len(s) >= 2 /\ DOMAIN s = 1..Len(s)
           /\ IsEnd(s[Len(s)])
           /\ \A i \in DOMAIN s :
                /\ IsEnd(s[i]) => i = Len(s)
                /\ (s[i].type = "stdout" /\ s[i].data = << >>)
                      <=> (i < Len(s) /\ IsEnd(s[i + 1]))
                /\ Len(s[i].data) <= MaxRecord
                /\ s[i].pad < 8 /\ (~IsEnd(s[i]) => (Len(s[i].data) + s[i].pad) % 8 = 0)
<1>1. PICK b \in Seq(DataRecords), st \in {0, 1} : s = b \o Closing(st)
  BY DEF IsAnswer
<1> DEFINE n == Len(b)
<1>2. n \in Nat /\ DOMAIN b = 1..n
  BY LenProperties
<1>3. Closing(st) \in Seq(Records) /\ b \in Seq(Records) /\ Len(Closing(st)) = 2
  <2>1. DataRecords \subseteq Records
    BY DEF DataRecords, Records
  <2>2. Closing(st) \in Seq(Records) /\ Len(Closing(st)) = 2
    BY DEF Closing, Records
  <2> HIDE DEF n
  <2>3. \A i \in 1..n : b[i] \in Records
    BY <2>1, <1>2
  <2>4. b \in Seq(Records)
    BY <2>1, SeqMonotonic
  <2> QED
    BY <2>2, <2>4
<1>4. /\ Len(s) = n + 2 /\ DOMAIN s = 1..(n + 2)
      /\ \A i \in 1..n : s[i] = b[i]
      /\ s[n + 1] = Closing(st)[1] /\ s[n + 2] = Closing(st)[2]
  <2> DEFINE c == Closing(st)
  <2>1. b \in Seq(Records) /\ c \in Seq(Records) /\ Len(c) = 2 /\ s = b \o c
    BY <1>1, <1>3
  <2> HIDE DEF c
  <2> DEFINE x == b \o c
  <2>0. /\ x \in Seq(Records) /\ Len(x) = n + Len(c)
        /\ \A i \in 1..(n + Len(c)) : x[i] = IF i <= n THEN b[i] ELSE c[i - n]
    BY <2>1, ConcatProperties
  <2>a. x = s
    BY <2>1
  <2> HIDE DEF x
  <2>2. /\ s \in Seq(Records) /\ Len(s) = n + 2
        /\ \A i \in 1..(n + 2) : s[i] = IF i <= n THEN b[i] ELSE c[i - n]
    BY <2>0, <2>1, <2>a
  <2>3. DOMAIN s = 1..(n + 2)
    BY <2>2, LenProperties
  <2> HIDE DEF n
  <2>4. \A i \in 1..n : i \in 1..(n + 2) /\ i <= n
    BY <1>2
  <2>5. /\ n + 1 \in 1..(n + 2) /\ ~(n + 1 <= n) /\ (n + 1) - n = 1
        /\ n + 2 \in 1..(n + 2) /\ ~(n + 2 <= n) /\ (n + 2) - n = 2
    BY <1>2
  <2> QED BY <2>2, <2>3, <2>4, <2>5, Zenon DEF c
<1>5. /\ s[n + 1].type = "stdout" /\ s[n + 1].data = << >> /\ s[n + 1].pad = 0
      /\ s[n + 2].type = "end" /\ s[n + 2].data = << >> /\ s[n + 2].pad = 0
  BY <1>4 DEF Closing
<1>6. ASSUME NEW i \in 1..n
      PROVE  /\ s[i].type \in {"stdout", "stderr"} /\ s[i].data # << >>
             /\ Len(s[i].data) <= MaxRecord /\ s[i].pad < 8
             /\ (Len(s[i].data) + s[i].pad) % 8 = 0
  <2>1. b[i] \in DataRecords
    BY <1>2
  <2>2. PICK m \in DataRecords : m = s[i]
    BY <1>4, <2>1
  <2>3. /\ m.type \in {"stdout", "stderr"} /\ m.data # << >> /\ Len(m.data) <= MaxRecord
        /\ m.pad \in 0..7 /\ (Len(m.data) + m.pad) % 8 = 0
    BY DEF DataRecords
  <2> QED
    BY <2>2, <2>3
<1> HIDE DEF n
<1>7. MaxRecord \in Nat /\ Len(<< >>) = 0 /\ (0 + 0) % 8 = 0
  BY FastCgiAssumption
<1>8. ASSUME NEW i \in DOMAIN s
      PROVE  /\ IsEnd(s[i]) => i = Len(s)
             /\ (s[i].type = "stdout" /\ s[i].data = << >>)
                   <=> (i < Len(s) /\ IsEnd(s[i + 1]))
             /\ Len(s[i].data) <= MaxRecord
             /\ s[i].pad < 8 /\ (~IsEnd(s[i]) => (Len(s[i].data) + s[i].pad) % 8 = 0)
  <2>1. CASE i \in 1..(n - 1)
    <3>1. i \in 1..n /\ i + 1 \in 1..n /\ i < n + 2
      BY <1>2, <2>1
    <3> QED
      BY <1>4, <1>6, <3>1 DEF IsEnd
  <2>2. CASE i = n /\ n > 0
    <3>1. i \in 1..n /\ i + 1 = n + 1
      BY <1>2, <2>2
    <3> QED
      BY <1>4, <1>5, <1>6, <3>1 DEF IsEnd
  <2>3. CASE i = n + 1
    <3>1. i < n + 2 /\ i + 1 = n + 2
      BY <1>2, <2>3
    <3>2. /\ s[i].type = "stdout" /\ s[i].data = << >> /\ s[i].pad = 0
          /\ s[i + 1].type = "end" /\ Len(s) = n + 2
      BY <1>4, <1>5, <2>3, <3>1
    <3>3. Len(s[i].data) = 0 /\ Len(s[i].data) + s[i].pad = 0 + 0 /\ 0 <= MaxRecord /\ 0 < 8
      BY <1>7, <3>2
    <3>4. (Len(s[i].data) + s[i].pad) % 8 = 0
      BY <1>7, <3>3
    <3>5. ~IsEnd(s[i]) /\ IsEnd(s[i + 1])
      BY <3>2 DEF IsEnd
    <3> QED
      BY <3>1, <3>2, <3>3, <3>4, <3>5
  <2>4. CASE i = n + 2
    <3>1. ~(i < n + 2)
      BY <1>2, <2>4
    <3>2. /\ s[i].type = "end" /\ s[i].data = << >> /\ s[i].pad = 0 /\ Len(s) = n + 2
      BY <1>4, <1>5, <2>4
    <3>3. Len(s[i].data) = 0 /\ 0 <= MaxRecord /\ 0 < 8
      BY <1>7, <3>2
    <3>4. IsEnd(s[i])
      BY <3>2 DEF IsEnd
    <3> QED
      BY <2>4, <3>1, <3>2, <3>3, <3>4
  <2> QED
    BY <1>2, <1>4, <2>1, <2>2, <2>3, <2>4
<1>9. s # << >> /\ IsEnd(s[Len(s)])
  BY <1>2, <1>4, <1>5, EmptySeq DEF IsEnd
<1> QED
  BY <1>2, <1>4, <1>8, <1>9
----------------------------------------------------------------------------
(* Steps.                                                                  *)

\* What the workload contains.
LEMMA WorkFacts ==
    ASSUME TypeOK, NEW r \in Requests
    PROVE  /\ work[r].id \in Ids /\ work[r].skip \in BOOLEAN
           /\ EncodeParams(work[r]) \in Seq(Byte) /\ work[r].body \in Seq(Byte)
           /\ Len(EncodeParams(work[r])) \in Nat /\ Len(work[r].body) \in Nat
           /\ sent[r].stage \in Stages /\ sent[r].at \in Nat
<1>1. work \in Workloads /\ sent \in [Requests -> [stage : Stages, at : Nat]]
  BY DEF TypeOK
<1>2. /\ work[r].id \in Ids /\ work[r].skip \in BOOLEAN
      /\ EncodeParams(work[r]) \in Seq(Byte) /\ work[r].body \in Seq(Byte)
  <2>1. WellFormed(work[r])
    BY <1>1, WorkloadAssumption
  <2>2. EncodeParams(work[r]) \in Seq(Byte)
    BY <2>1, PairsLie DEF Lies
  <2> QED
    BY <2>1, <2>2 DEF WellFormed
<1>3. Len(EncodeParams(work[r])) \in Nat /\ Len(work[r].body) \in Nat
  BY <1>2, LenProperties
<1>4. sent[r].stage \in Stages /\ sent[r].at \in Nat
  BY <1>1
<1> QED
  BY <1>2, <1>3, <1>4

\* The host compares ids; the server sees to it that this is enough.
LEMMA AddressedIsUnderWay ==
    ASSUME FInv, NEW r \in Requests, Open(r)
    PROVE  Addressed(r) <=> UnderWay(r)
BY DEF FInv, Protocol, Openers, Open, Addressed, UnderWay

\* Only one request is under way.
LEMMA OneUnderWay ==
    ASSUME NEW r \in Requests, NEW q \in Requests, UnderWay(r), UnderWay(q)
    PROVE  q = r
BY DEF UnderWay

\* A request that is answered for the first time has that answer and no more.
LEMMA EmitFacts ==
    ASSUME TypeOK, NEW r \in Requests, NEW x \in AnswersOf(work[r]),
           reply[r] = << >>, Emit(r, x)
    PROVE  /\ DOMAIN reply' = Requests
           /\ \A q \in Requests \ {r} : reply'[q] = reply[q]
           /\ reply'[r] = IF reading THEN x ELSE << >>
           /\ x # << >>
<1>1. DOMAIN reply = Requests /\ work \in Workloads
  BY DEF TypeOK
<1>2. IsAnswer(x)
  BY <1>1, AnswersAreAnswers
<1>3. x # << >>
  BY <1>2, AnswerShape
<1>4. << >> \o x = x
  <2>1. PICK b \in Seq(DataRecords), st \in {0, 1} : x = b \o Closing(st)
    BY <1>2 DEF IsAnswer
  <2>2. DataRecords \subseteq Records
    BY DEF DataRecords, Records
  <2>3. Closing(st) \in Seq(Records)
    BY DEF Closing, Records
  <2>4. b \in Seq(Records)
    BY <2>2, SeqMonotonic
  <2>5. x \in Seq(Records)
    BY <2>1, <2>3, <2>4, ConcatProperties
  <2> QED
    BY <2>5, ConcatEmptySeq
<1> QED
  BY <1>1, <1>3, <1>4 DEF Emit

\* A record carries the next bytes of its stream.
LEMMA NextBytesFacts ==
    ASSUME NEW r \in Requests, NEW stream \in Seq(Byte), sent[r].at \in Nat,
           NEW data \in NextBytes(r, stream)
    PROVE  /\ data \in Seq(Byte) /\ Len(data) \in Nat
           /\ sent[r].at + Len(data) <= Len(stream)
           /\ SubSeq(stream, 1, sent[r].at) \o data = SubSeq(stream, 1, sent[r].at + Len(data))
<1> DEFINE at == sent[r].at
<1>0. Len(stream) \in Nat /\ at \in Nat
  BY LenProperties
<1>1. PICK n \in Fragments \cup {Len(stream) - at} :
        n > 0 /\ n <= Len(stream) - at /\ data = SubSeq(stream, at + 1, at + n)
  BY DEF NextBytes
<1>2. n \in Nat /\ at + n \in Nat /\ at + n <= Len(stream)
  BY <1>0, <1>1, FastCgiAssumption
<1> HIDE DEF at
<1> DEFINE head == SubSeq(stream, 1, at)
           both == SubSeq(stream, 1, at + n)
<1>3. at <= Len(stream)
  BY <1>0, <1>2
<1>4. /\ data \in Seq(Byte) /\ Len(data) = n
      /\ \A i \in 1..n : data[i] = stream[at + i]
  BY <1>0, <1>1, <1>2, SegmentFacts
<1>5. head \in Seq(Byte) /\ Len(head) = at /\ \A i \in 1..at : head[i] = stream[i]
  BY <1>0, <1>3, PrefixFacts
<1>6. both \in Seq(Byte) /\ Len(both) = at + n /\ \A i \in 1..(at + n) : both[i] = stream[i]
  BY <1>2, PrefixFacts
<1> HIDE DEF head, both
<1>7. /\ head \o data \in Seq(Byte) /\ Len(head \o data) = at + n
      /\ \A i \in 1..(at + n) : (head \o data)[i] = IF i <= at THEN head[i] ELSE data[i - at]
  <2>1. head \in Seq(Byte) /\ data \in Seq(Byte)
    BY <1>4, <1>5
  <2>2. /\ head \o data \in Seq(Byte) /\ Len(head \o data) = Len(head) + Len(data)
        /\ \A i \in 1..Len(head) + Len(data) :
              (head \o data)[i] = IF i <= Len(head) THEN head[i] ELSE data[i - Len(head)]
    BY <2>1, ConcatProperties, Zenon
  <2>3. Len(head) = at /\ Len(data) = n
    BY <1>4, <1>5
  <2> QED BY <2>2, <2>3
<1>8. \A i \in 1..(at + n) : (head \o data)[i] = both[i]
  <2> SUFFICES ASSUME NEW i \in 1..(at + n) PROVE (head \o data)[i] = both[i]
    OBVIOUS
  <2>1. CASE i <= at
    BY <1>0, <1>2, <1>5, <1>6, <1>7, <2>1
  <2>2. CASE ~(i <= at)
    <3>1. i - at \in 1..n /\ at + (i - at) = i
      BY <1>0, <1>2, <2>2
    <3> QED
      BY <1>4, <1>6, <1>7, <2>2, <3>1
  <2> QED
    BY <2>1, <2>2
<1>9. head \o data = both
  BY <1>6, <1>7, <1>8, SeqEqual
<1> QED
  BY <1>2, <1>4, <1>9 DEF head, both, at

\* The server has sent more of an open request.
LEMMA AdvanceFacts ==
    ASSUME FInv, NEW r \in Requests, Open(r), UNCHANGED <<work, opener>>,
           NEW st \in {"params", "stdin", "aborted", "closed"}, NEW a \in Nat,
           Advance(r, st, a),
           st = "params" => a <= Len(EncodeParams(work[r])),
           st = "stdin" => a <= Len(work[r].body)
    PROVE  /\ sent' \in [Requests -> [stage : Stages, at : Nat]]
           /\ sent'[r].stage = st /\ sent'[r].at = a
           /\ \A q \in Requests \ {r} : sent'[q] = sent[q]
           /\ Openers' /\ Positions'
<1>1. sent \in [Requests -> [stage : Stages, at : Nat]]
  BY DEF FInv, TypeOK
<1>2. /\ sent' \in [Requests -> [stage : Stages, at : Nat]]
      /\ sent'[r].stage = st /\ sent'[r].at = a
      /\ \A q \in Requests \ {r} : sent'[q] = sent[q]
  BY <1>1 DEF Advance, Stages
<1>3. Openers'
  BY <1>2 DEF FInv, Protocol, Openers, Open
<1>4. Positions'
  BY <1>2 DEF FInv, Protocol, Positions
<1> QED
  BY <1>2, <1>3, <1>4

\* A record that the host ignores: its request is not under way, or it is the
\* record of an abort.
LEMMA IgnoredStep ==
    ASSUME FInv, NEW r \in Requests, Open(r), UNCHANGED <<work, opener, reading, request, reply>>,
           NEW st \in {"params", "stdin", "aborted", "closed"}, NEW a \in Nat,
           Advance(r, st, a),
           st = "params" => a <= Len(EncodeParams(work[r])),
           st = "stdin" => a <= Len(work[r].body),
           ~UnderWay(r) \/ st = "aborted"
    PROVE  Protocol'
<1>1. /\ sent'[r].stage = st /\ \A q \in Requests \ {r} : sent'[q] = sent[q]
      /\ Openers' /\ Positions'
  BY AdvanceFacts
<1>2. ActiveIsOpen'
  BY DEF FInv, Protocol, ActiveIsOpen
<1>3. \A q \in Requests : UnderWay(q)' <=> UnderWay(q)
  BY DEF UnderWay
<1>4. Gathered'
  BY <1>1, <1>3 DEF FInv, Protocol, Gathered
<1>5. Answered'
  <2>1. \A q \in Requests : sent'[q].stage = "new" => sent[q].stage = "new"
    BY <1>1
  <2>2. \A q \in Requests : sent'[q].stage # "new" => sent[q].stage # "new"
    BY <1>1 DEF Open
  <2> QED
    BY <1>3, <2>1, <2>2 DEF FInv, Protocol, Answered
<1> QED
  BY <1>1, <1>2, <1>4, <1>5 DEF Protocol

\* The request under way is given up, with an answer.
LEMMA AnsweredStep ==
    ASSUME FInv, NEW r \in Requests, Open(r), UnderWay(r), UNCHANGED <<work, opener, reading>>,
           NEW st \in {"params", "stdin", "closed"}, NEW a \in Nat,
           Advance(r, st, a),
           st = "params" => a <= Len(EncodeParams(work[r])),
           st = "stdin" => a <= Len(work[r].body),
           NEW x \in AnswersOf(work[r]), Emit(r, x),
           request' = [request EXCEPT !.active = FALSE]
    PROVE  Protocol' /\ DOMAIN reply' = Requests
<1>1. /\ sent'[r].stage = st /\ \A q \in Requests \ {r} : sent'[q] = sent[q]
      /\ Openers' /\ Positions'
  BY AdvanceFacts
<1>2. request'.active = FALSE
  BY DEF FInv, RequestType
<1>3. ActiveIsOpen' /\ Gathered'
  BY <1>2 DEF ActiveIsOpen, Gathered, UnderWay
<1>4. reply[r] = << >>
  BY DEF FInv, Protocol, Gathered
<1>5. /\ DOMAIN reply' = Requests
      /\ \A q \in Requests \ {r} : reply'[q] = reply[q]
      /\ reply'[r] = IF reading THEN x ELSE << >>
      /\ x # << >>
  BY <1>4, EmitFacts DEF FInv
<1>6. Answered'
  <2> SUFFICES ASSUME NEW q \in Requests
               PROVE  /\ reply'[q] = << >> \/ reply'[q] \in AnswersOf(work'[q])
                      /\ sent'[q].stage = "new" => reply'[q] = << >>
                      /\ reading' /\ sent'[q].stage # "new" => reply'[q] # << >>
    BY DEF Answered
  <2>1. CASE q = r
    BY <1>1, <1>5, <2>1
  <2>2. CASE q # r
    <3>1. ~UnderWay(q)
      BY <2>2, OneUnderWay
    <3> QED
      BY <1>1, <1>5, <2>2, <3>1 DEF FInv, Protocol, Answered
  <2> QED
    BY <2>1, <2>2
<1> QED
  BY <1>1, <1>3, <1>5, <1>6 DEF Protocol

\* The request under way is stored: what request_t holds agrees with what the
\* server has sent.
LEMMA StoredStep ==
    ASSUME FInv, NEW r \in Requests, Open(r), UnderWay(r),
           UNCHANGED <<work, opener, reading, reply>>,
           NEW st \in {"params", "stdin"}, NEW a \in Nat,
           Advance(r, st, a),
           st = "params" => a <= Len(EncodeParams(work[r])),
           st = "stdin" => a <= Len(work[r].body),
           request'.active = request.active, request'.id = request.id,
           st = "params" => /\ request'.params = SubSeq(EncodeParams(work[r]), 1, a)
                            /\ request'.body = << >> /\ ~request'.complete,
           st = "stdin" => /\ request'.params = EncodeParams(work[r])
                           /\ request'.body = SubSeq(work[r].body, 1, a)
                           /\ request'.complete <=> ~work[r].skip
    PROVE  Protocol'
<1>1. /\ sent'[r].stage = st /\ sent'[r].at = a /\ \A q \in Requests \ {r} : sent'[q] = sent[q]
      /\ Openers' /\ Positions'
  BY AdvanceFacts
<1>2. ActiveIsOpen'
  BY DEF FInv, Protocol, ActiveIsOpen
<1>3. \A q \in Requests : (UnderWay(q)' <=> UnderWay(q)) /\ (UnderWay(q) => q = r)
  BY OneUnderWay DEF UnderWay
<1>4. Gathered'
  <2>1. reply'[r] = << >>
    BY DEF FInv, Protocol, Gathered
  <2> QED
    BY <1>1, <1>3, <2>1 DEF Gathered
<1>5. Answered'
  <2>1. \A q \in Requests : sent'[q].stage = "new" => sent[q].stage = "new"
    BY <1>1
  <2>2. \A q \in Requests : sent'[q].stage # "new" => sent[q].stage # "new"
    BY <1>1 DEF Open
  <2> QED
    BY <1>3, <2>1, <2>2 DEF FInv, Protocol, Answered
<1> QED
  BY <1>1, <1>2, <1>4, <1>5 DEF Protocol

\* The parts of TypeOK that are about the request: they come from its shape and
\* the two limits.
LEMMA TypeFromParts ==
    ASSUME TypeOK, UNCHANGED <<work, pc, engine>>, reading' \in BOOLEAN,
           opener' \in [Ids -> Requests \cup {NoRequest}],
           sent' \in [Requests -> [stage : Stages, at : Nat]],
           DOMAIN reply' = Requests, RequestType',
           Len(request'.params) <= MaxParams, Len(request'.body) <= MaxBody
    PROVE  TypeOK'
BY DEF TypeOK, RequestType

\* FInv before the first record.
LEMMA InitFInv == Init => FInv
<1> SUFFICES ASSUME Init PROVE FInv
  OBVIOUS
<1>1. IdleRequest \in [id : Ids, active : BOOLEAN, complete : BOOLEAN,
                       params : Seq(Byte), body : Seq(Byte)]
  BY WorkloadAssumption, EmptySeq DEF IdleRequest
<1>2. RequestType
  BY <1>1 DEF Init, RequestType
<1>3. /\ request.active = FALSE /\ request.params = << >> /\ request.body = << >>
      /\ Len(<< >>) = 0
  BY EmptySeq DEF Init, IdleRequest
<1>4. TypeOK
  BY <1>2, <1>3, FastCgiAssumption DEF Init, TypeOK, RequestType, Stages
<1>5. Protocol
  BY <1>3 DEF Init, Protocol, Openers, ActiveIsOpen, Positions, Gathered, Answered, UnderWay
<1> QED
  BY <1>2, <1>4, <1>5 DEF FInv

\* Steps of the server and of main() that are about no request.
LEMMA AsideStep ==
    ASSUME FInv, UNCHANGED <<work, sent, opener, reply, request>>,
           reading' \in BOOLEAN, reading' => reading
    PROVE  Protocol' /\ RequestType'
<1>1. RequestType'
  BY DEF FInv, RequestType
<1>2. \A q \in Requests : UnderWay(q)' <=> UnderWay(q)
  BY DEF UnderWay
<1>3. Openers' /\ ActiveIsOpen' /\ Positions'
  BY DEF FInv, Protocol, Openers, ActiveIsOpen, Positions
<1>4. Gathered'
  BY <1>2 DEF FInv, Protocol, Gathered
<1>5. Answered'
  BY <1>2 DEF FInv, Protocol, Answered
<1> QED
  BY <1>1, <1>3, <1>4, <1>5 DEF Protocol

\* BEGIN_REQUEST. The id is free, so no request under way has it, and the new
\* request has had no reply.
LEMMA BeginKeeps ==
    ASSUME FInv, NEW r \in Requests, RecvBegin(r)
    PROVE  FInv'
<1> DEFINE id == work[r].id
<1>1. /\ sent[r].stage = "new" /\ reply[r] = << >>
      /\ opener[id] # NoRequest => sent[opener[id]].stage = "closed"
  BY DEF RecvBegin, MayOpen, FInv, Protocol, Answered
<1>2. id \in Ids
  BY WorkFacts DEF FInv
<1>3. /\ sent \in [Requests -> [stage : Stages, at : Nat]]
      /\ opener \in [Ids -> Requests \cup {NoRequest}] /\ DOMAIN reply = Requests
      /\ reading \in BOOLEAN /\ r # NoRequest
  BY FastCgiAssumption DEF FInv, TypeOK
<1>4. /\ sent' \in [Requests -> [stage : Stages, at : Nat]]
      /\ sent'[r] = [stage |-> "params", at |-> 0]
      /\ \A q \in Requests \ {r} : sent'[q] = sent[q]
      /\ opener' \in [Ids -> Requests \cup {NoRequest}]
      /\ opener'[id] = r /\ \A i \in Ids \ {id} : opener'[i] = opener[i]
      /\ UNCHANGED <<work, reading, pc, engine>>
  BY <1>2, <1>3 DEF RecvBegin, Advance, Stages
<1>5. request.active => request.id # id /\ opener[request.id] # r
  <2> SUFFICES ASSUME request.active PROVE request.id # id /\ opener[request.id] # r
    OBVIOUS
  <2>1. request.id \in Ids
    BY DEF FInv, RequestType
  <2>2. PICK q \in Requests : q = opener[request.id]
    BY <1>3, <2>1 DEF FInv, Protocol, ActiveIsOpen
  <2>3. UnderWay(q)
    BY <1>3, <2>1, <2>2 DEF FInv, Protocol, ActiveIsOpen, Openers, UnderWay
  <2>4. sent[q].stage \in {"params", "stdin", "aborted"}
    BY <2>3 DEF FInv, Protocol, Gathered
  <2> QED
    BY <1>1, <1>3, <2>2, <2>4, FastCgiAssumption
<1>6. Openers'
  <2>1. \A i \in Ids : opener'[i] # NoRequest => work'[opener'[i]].id = i
    BY <1>4 DEF FInv, Protocol, Openers
  <2>2. ASSUME NEW q \in Requests, sent'[q].stage \in {"params", "stdin", "aborted"}
        PROVE  opener'[work'[q].id] = q
    <3>1. CASE q = r
      BY <1>4, <3>1
    <3>2. CASE q # r
      <4>1. sent[q].stage \in {"params", "stdin", "aborted"} /\ opener[work[q].id] = q
        BY <1>4, <2>2, <3>2 DEF FInv, Protocol, Openers
      <4>2. work[q].id # id
        BY <1>1, <1>3, <4>1, FastCgiAssumption
      <4>3. work[q].id \in Ids
        BY WorkFacts DEF FInv
      <4> QED
        BY <1>4, <4>1, <4>2, <4>3
    <3> QED
      BY <3>1, <3>2
  <2> QED
    BY <2>1, <2>2 DEF Openers
<1>7. Positions'
  <2>1. Len(EncodeParams(work[r])) \in Nat
    BY WorkFacts DEF FInv
  <2>2. ASSUME NEW q \in Requests
        PROVE  /\ sent'[q].stage = "params" => sent'[q].at <= Len(EncodeParams(work'[q]))
               /\ sent'[q].stage = "stdin" => sent'[q].at <= Len(work'[q].body)
    <3>1. CASE q = r
      BY <1>4, <2>1, <3>1
    <3>2. CASE q # r
      BY <1>4, <3>2 DEF FInv, Protocol, Positions
    <3> QED
      BY <3>1, <3>2
  <2> QED
    BY <2>2 DEF Positions
<1>8. CASE /\ work[r].role # "responder" \/ request.active
           /\ Emit(r, send_error(Messages.busy)) /\ UNCHANGED request
  <2>1. send_error(Messages.busy) \in AnswersOf(work[r])
    BY DEF AnswersOf
  <2>2. /\ DOMAIN reply' = Requests
        /\ \A q \in Requests \ {r} : reply'[q] = reply[q]
        /\ reply'[r] = IF reading THEN send_error(Messages.busy) ELSE << >>
        /\ send_error(Messages.busy) # << >>
    BY <1>1, <1>8, <2>1, EmitFacts DEF FInv
  <2>3. RequestType' /\ Len(request'.params) <= MaxParams /\ Len(request'.body) <= MaxBody
    BY <1>8 DEF FInv, RequestType, TypeOK
  <2>4. TypeOK'
    BY <1>3, <1>4, <2>2, <2>3, TypeFromParts DEF FInv
  <2>5. ActiveIsOpen'
    <3>1. request.id \in Ids
      BY DEF FInv, RequestType
    <3> QED
      BY <1>4, <1>5, <1>8, <3>1 DEF FInv, Protocol, ActiveIsOpen
  <2>6. \A q \in Requests : UnderWay(q)' <=> UnderWay(q)
    <3>1. request.id \in Ids
      BY DEF FInv, RequestType
    <3> QED
      BY <1>4, <1>5, <1>8, <3>1 DEF UnderWay
  <2>7. ~UnderWay(r)
    BY <1>5 DEF UnderWay
  <2>8. Gathered'
    <3> SUFFICES ASSUME NEW q \in Requests, UnderWay(q), q # r
                 PROVE  /\ sent'[q] = sent[q] /\ reply'[q] = reply[q]
                        /\ work'[q] = work[q] /\ request' = request
      BY <2>6, <2>7 DEF FInv, Protocol, Gathered
    <3> QED
      BY <1>4, <1>8, <2>2
  <2>9. Answered'
    <3> SUFFICES ASSUME NEW q \in Requests
                 PROVE  /\ reply'[q] = << >> \/ reply'[q] \in AnswersOf(work'[q])
                        /\ sent'[q].stage = "new" => reply'[q] = << >>
                        /\ reading' /\ sent'[q].stage # "new" /\ ~UnderWay(q)
                              => reply'[q] # << >>
      BY <2>6 DEF Answered
    <3>1. CASE q = r
      BY <1>4, <2>1, <2>2, <3>1
    <3>2. CASE q # r
      BY <1>4, <2>2, <3>2 DEF FInv, Protocol, Answered
    <3> QED
      BY <3>1, <3>2
  <2> QED
    BY <1>6, <1>7, <2>3, <2>4, <2>5, <2>8, <2>9 DEF FInv, Protocol
<1>9. CASE /\ work[r].role = "responder" /\ ~request.active
           /\ request' = BeginRequest(r) /\ EmitNothing
  <2>1. /\ request' = [id |-> id, active |-> TRUE, complete |-> FALSE,
                       params |-> << >>, body |-> << >>]
        /\ reply' = reply
    BY <1>9 DEF BeginRequest, IdleRequest, EmitNothing
  <2>2. /\ RequestType' /\ request'.id = id /\ request'.active /\ ~request'.complete
        /\ request'.params = << >> /\ request'.body = << >>
    BY <1>2, <2>1, EmptySeq DEF RequestType
  <2>3. Len(request'.params) <= MaxParams /\ Len(request'.body) <= MaxBody
    BY <2>2, FastCgiAssumption, EmptySeq
  <2>4. TypeOK'
    BY <1>3, <1>4, <2>1, <2>2, <2>3, TypeFromParts DEF FInv
  <2>5. ActiveIsOpen'
    BY <1>3, <1>4, <2>2 DEF ActiveIsOpen
  <2>6. \A q \in Requests : UnderWay(q)' => q = r
    BY <1>4, <2>2 DEF UnderWay
  <2>7. UnderWay(r)'
    BY <1>4, <2>2 DEF UnderWay
  <2>8. SubSeq(EncodeParams(work[r]), 1, 0) = << >>
    BY SubSeqEmpty
  <2>9. Gathered'
    BY <1>1, <1>4, <2>1, <2>2, <2>6, <2>8 DEF Gathered
  <2>10. Answered'
    <3> SUFFICES ASSUME NEW q \in Requests
                 PROVE  /\ reply'[q] = << >> \/ reply'[q] \in AnswersOf(work'[q])
                        /\ sent'[q].stage = "new" => reply'[q] = << >>
                        /\ reading' /\ sent'[q].stage # "new" /\ ~UnderWay(q)'
                              => reply'[q] # << >>
      BY DEF Answered
    <3>1. CASE q = r
      BY <1>1, <2>1, <2>7, <3>1
    <3>2. CASE q # r
      <4>1. ~UnderWay(q)
        BY <1>9 DEF UnderWay
      <4> QED
        BY <1>4, <2>1, <3>2, <4>1 DEF FInv, Protocol, Answered
    <3> QED
      BY <3>1, <3>2
  <2> QED
    BY <1>6, <1>7, <2>2, <2>4, <2>5, <2>9, <2>10 DEF FInv, Protocol
<1> QED
  BY <1>8, <1>9 DEF RecvBegin, HandleBegin

\* A record that is ignored changes nothing but the server's bookkeeping.
LEMMA IgnoredKeeps ==
    ASSUME FInv, NEW r \in Requests, Open(r),
           UNCHANGED <<work, opener, reading, request, reply, pc, engine>>,
           NEW st \in {"params", "stdin", "aborted", "closed"}, NEW a \in Nat,
           Advance(r, st, a),
           st = "params" => a <= Len(EncodeParams(work[r])),
           st = "stdin" => a <= Len(work[r].body),
           ~UnderWay(r) \/ st = "aborted"
    PROVE  FInv'
<1>1. Protocol'
  BY IgnoredStep
<1>2. sent' \in [Requests -> [stage : Stages, at : Nat]]
  BY AdvanceFacts
<1>3. RequestType'
  BY DEF FInv, RequestType
<1>4. TypeOK'
  BY <1>2 DEF FInv, TypeOK
<1> QED
  BY <1>1, <1>3, <1>4 DEF FInv

\* A request that is given up: its contents stay as they are.
LEMMA AnsweredKeeps ==
    ASSUME FInv, NEW r \in Requests, Open(r), UnderWay(r),
           UNCHANGED <<work, opener, reading, pc, engine>>,
           NEW st \in {"params", "stdin", "closed"}, NEW a \in Nat,
           Advance(r, st, a),
           st = "params" => a <= Len(EncodeParams(work[r])),
           st = "stdin" => a <= Len(work[r].body),
           NEW x \in AnswersOf(work[r]), Emit(r, x),
           request' = [request EXCEPT !.active = FALSE]
    PROVE  FInv'
<1>1. Protocol' /\ DOMAIN reply' = Requests
  BY AnsweredStep
<1>2. sent' \in [Requests -> [stage : Stages, at : Nat]]
  BY AdvanceFacts
<1>3. RequestType' /\ request'.params = request.params /\ request'.body = request.body
  BY DEF FInv, RequestType
<1>4. Len(request'.params) <= MaxParams /\ Len(request'.body) <= MaxBody /\ reading' \in BOOLEAN
      /\ opener' \in [Ids -> Requests \cup {NoRequest}]
  BY <1>3 DEF FInv, TypeOK
<1>5. TypeOK'
  BY <1>1, <1>2, <1>3, <1>4, TypeFromParts DEF FInv
<1> QED
  BY <1>1, <1>3, <1>5 DEF FInv

\* What is stored fits.
LEMMA StoredKeeps ==
    ASSUME FInv, NEW r \in Requests, Open(r), UnderWay(r),
           UNCHANGED <<work, opener, reading, reply, pc, engine>>,
           NEW st \in {"params", "stdin"}, NEW a \in Nat,
           Advance(r, st, a),
           st = "params" => a <= Len(EncodeParams(work[r])),
           st = "stdin" => a <= Len(work[r].body),
           request'.active = request.active, request'.id = request.id,
           st = "params" => /\ request'.params = SubSeq(EncodeParams(work[r]), 1, a)
                            /\ request'.body = << >> /\ ~request'.complete,
           st = "stdin" => /\ request'.params = EncodeParams(work[r])
                           /\ request'.body = SubSeq(work[r].body, 1, a)
                           /\ request'.complete <=> ~work[r].skip,
           RequestType',
           Len(request'.params) <= MaxParams, Len(request'.body) <= MaxBody
    PROVE  FInv'
<1>1. Protocol'
  BY StoredStep
<1>2. sent' \in [Requests -> [stage : Stages, at : Nat]]
  BY AdvanceFacts
<1>3. /\ reading' \in BOOLEAN /\ opener' \in [Ids -> Requests \cup {NoRequest}]
      /\ DOMAIN reply' = Requests
  BY DEF FInv, TypeOK
<1>4. TypeOK'
  BY <1>2, <1>3, TypeFromParts DEF FInv
<1> QED
  BY <1>1, <1>4 DEF FInv

\* What request_t holds of the request under way while PARAMS arrive.
LEMMA UnderWayFacts ==
    ASSUME FInv, NEW r \in Requests, UnderWay(r)
    PROVE  /\ sent[r].stage = "params" =>
                 /\ request.params = SubSeq(EncodeParams(work[r]), 1, sent[r].at)
                 /\ request.body = << >> /\ ~request.complete
                 /\ Len(request.params) = sent[r].at
                 /\ sent[r].at <= Len(EncodeParams(work[r]))
           /\ sent[r].stage = "stdin" =>
                 /\ request.params = EncodeParams(work[r])
                 /\ request.body = SubSeq(work[r].body, 1, sent[r].at)
                 /\ request.complete <=> ~work[r].skip
                 /\ Len(request.body) = sent[r].at
                 /\ sent[r].at <= Len(work[r].body)
           /\ request \in [id : Ids, active : BOOLEAN, complete : BOOLEAN,
                           params : Seq(Byte), body : Seq(Byte)]
           /\ Len(request.params) <= MaxParams /\ Len(request.body) <= MaxBody
<1>1. /\ EncodeParams(work[r]) \in Seq(Byte) /\ work[r].body \in Seq(Byte)
      /\ Len(EncodeParams(work[r])) \in Nat /\ Len(work[r].body) \in Nat /\ sent[r].at \in Nat
  BY WorkFacts DEF FInv
<1>2. ASSUME NEW t \in Seq(Byte), NEW n \in Nat, n <= Len(t)
      PROVE  Len(SubSeq(t, 1, n)) = n
  <2>1. \A i \in 1..n : t[i] \in Byte
    BY <1>2, LenProperties
  <2> QED
    BY <2>1, SubSeqProperties
<1>3. CASE sent[r].stage = "params"
  <2>1. sent[r].at <= Len(EncodeParams(work[r]))
    BY <1>3 DEF FInv, Protocol, Positions
  <2> QED
    BY <1>1, <1>2, <1>3, <2>1 DEF FInv, Protocol, Gathered, RequestType, TypeOK
<1>4. CASE sent[r].stage = "stdin"
  <2>1. sent[r].at <= Len(work[r].body)
    BY <1>4 DEF FInv, Protocol, Positions
  <2> QED
    BY <1>1, <1>2, <1>4, <2>1 DEF FInv, Protocol, Gathered, RequestType, TypeOK
<1>5. CASE sent[r].stage \notin {"params", "stdin"}
  BY <1>5 DEF FInv, RequestType, TypeOK
<1> QED
  BY <1>3, <1>4, <1>5

\* PARAMS with data: dropped, refused because of the limit, or appended.
LEMMA ParamsKeeps ==
    ASSUME FInv, NEW r \in Requests, RecvParams(r)
    PROVE  FInv'
<1> DEFINE E == EncodeParams(work[r])
           at == sent[r].at
<1>1. /\ Open(r) /\ sent[r].stage = "params" /\ UNCHANGED <<work, opener, reading, pc, engine>>
  BY DEF RecvParams, Open
<1>2. E \in Seq(Byte) /\ Len(E) \in Nat /\ at \in Nat
  BY WorkFacts DEF FInv
<1>3. PICK data \in NextBytes(r, E) :
        /\ Advance(r, "params", at + Len(data))
        /\ IF Addressed(r) THEN HandleParams(r, data) ELSE Ignore
  BY DEF RecvParams
<1>4. /\ data \in Seq(Byte) /\ Len(data) \in Nat /\ at + Len(data) \in Nat
      /\ at + Len(data) <= Len(E)
      /\ SubSeq(E, 1, at) \o data = SubSeq(E, 1, at + Len(data))
  <2> HIDE DEF E
  <2>1. /\ data \in Seq(Byte) /\ Len(data) \in Nat
        /\ sent[r].at + Len(data) <= Len(E)
        /\ SubSeq(E, 1, sent[r].at) \o data = SubSeq(E, 1, sent[r].at + Len(data))
    BY <1>2, NextBytesFacts
  <2>2. at + Len(data) \in Nat
    BY <1>2, <2>1
  <2> QED
    BY <2>1, <2>2
<1>5. PICK a \in Nat : a = at + Len(data)
  BY <1>4
<1>6. CASE ~Addressed(r)
  <2>1. ~UnderWay(r) /\ UNCHANGED <<request, reply>>
    BY <1>1, <1>3, <1>6, AddressedIsUnderWay DEF Ignore
  <2> QED
    BY <1>1, <1>3, <1>4, <1>5, <2>1, IgnoredKeeps
<1>7. CASE Addressed(r)
  <2>1. UnderWay(r)
    BY <1>1, <1>7, AddressedIsUnderWay
  <2>2. /\ request.params = SubSeq(E, 1, at) /\ request.body = << >> /\ ~request.complete
        /\ Len(request.params) = at
        /\ request \in [id : Ids, active : BOOLEAN, complete : BOOLEAN,
                        params : Seq(Byte), body : Seq(Byte)]
        /\ Len(request.body) <= MaxBody
    BY <1>1, <2>1, UnderWayFacts
  <2>3. CASE Len(request.params) + Len(data) > MaxParams
    <3>1. /\ Emit(r, send_error(Messages.paramsLimit))
          /\ request' = [request EXCEPT !.active = FALSE]
      BY <1>3, <1>7, <2>3 DEF HandleParams
    <3>2. Len(E) > MaxParams
      BY <1>2, <1>4, <2>2, <2>3, FastCgiAssumption
    <3>3. send_error(Messages.paramsLimit) \in AnswersOf(work[r])
      BY <3>2 DEF AnswersOf
    <3> QED
      BY <1>1, <1>3, <1>4, <1>5, <2>1, <3>1, <3>3, AnsweredKeeps
  <2>4. CASE ~(Len(request.params) + Len(data) > MaxParams)
    <3>1. request' = [request EXCEPT !.params = @ \o data] /\ reply' = reply
      BY <1>3, <1>7, <2>4 DEF HandleParams, EmitNothing
    <3>2. /\ request.params \o data \in Seq(Byte)
          /\ Len(request.params \o data) = Len(request.params) + Len(data)
      <4>1. request.params \in Seq(Byte)
        BY <2>2
      <4> QED
        BY <1>4, <4>1, ConcatProperties
    <3>3. /\ request'.params = request.params \o data /\ request'.body = request.body
          /\ request'.complete = request.complete /\ request'.active = request.active
          /\ request'.id = request.id /\ RequestType'
      BY <2>2, <3>1, <3>2 DEF RequestType
    <3>4. Len(request'.params) <= MaxParams /\ Len(request'.body) <= MaxBody
      BY <1>2, <1>4, <2>2, <2>4, <3>2, <3>3, FastCgiAssumption
    <3>5. /\ request'.params = SubSeq(E, 1, a)
          /\ request'.body = << >> /\ ~request'.complete
      BY <1>4, <1>5, <2>2, <3>3
    <3> QED
      BY <1>1, <1>3, <1>4, <1>5, <2>1, <3>1, <3>3, <3>4, <3>5, StoredKeeps
  <2> QED
    BY <2>3, <2>4
<1> QED
  BY <1>6, <1>7

\* The end of PARAMS, sent or left out.
LEMMA ParamsEndKeeps ==
    ASSUME FInv, NEW r \in Requests, RecvParamsEnd(r) \/ SkipParamsEnd(r)
    PROVE  FInv'
<1>1. /\ Open(r) /\ sent[r].stage = "params" /\ sent[r].at = Len(EncodeParams(work[r]))
      /\ UNCHANGED <<work, opener, reading, reply, pc, engine>> /\ Advance(r, "stdin", 0)
  BY DEF RecvParamsEnd, SkipParamsEnd, ParamsSent, Open
<1>2. /\ EncodeParams(work[r]) \in Seq(Byte) /\ Len(EncodeParams(work[r])) \in Nat
      /\ Len(work[r].body) \in Nat /\ 0 <= Len(work[r].body) /\ 0 \in Nat
  BY WorkFacts DEF FInv
<1>3. CASE ~Addressed(r)
  <2>1. ~UnderWay(r) /\ request' = request
    BY <1>1, <1>3, AddressedIsUnderWay DEF RecvParamsEnd, SkipParamsEnd
  <2> QED
    BY <1>1, <1>2, <2>1, IgnoredKeeps
<1>4. CASE Addressed(r)
  <2>1. UnderWay(r)
    BY <1>1, <1>4, AddressedIsUnderWay
  <2>2. /\ request.params = SubSeq(EncodeParams(work[r]), 1, sent[r].at)
        /\ request.body = << >> /\ ~request.complete
        /\ request \in [id : Ids, active : BOOLEAN, complete : BOOLEAN,
                        params : Seq(Byte), body : Seq(Byte)]
        /\ Len(request.params) <= MaxParams /\ Len(request.body) <= MaxBody
    BY <1>1, <2>1, UnderWayFacts
  <2>3. SubSeq(EncodeParams(work[r]), 1, sent[r].at) = EncodeParams(work[r])
    BY <1>1, <1>2, SubSeqFull
  <2>4. SubSeq(work[r].body, 1, 0) = << >>
    BY SubSeqEmpty
  <2>5. /\ request'.params = request.params /\ request'.body = request.body
        /\ request'.active = request.active /\ request'.id = request.id /\ RequestType'
        /\ request'.complete <=> ~work[r].skip
    <3>1. CASE RecvParamsEnd(r)
      <4>1. request' = [request EXCEPT !.complete = TRUE] /\ ~work[r].skip
        BY <1>4, <3>1 DEF RecvParamsEnd
      <4> QED
        BY <2>2, <4>1 DEF RequestType
    <3>2. CASE SkipParamsEnd(r)
      <4>1. request' = request /\ work[r].skip
        BY <1>4, <3>2 DEF SkipParamsEnd
      <4> QED
        BY <2>2, <4>1 DEF RequestType
    <3> QED
      BY <3>1, <3>2
  <2>6. /\ request'.params = EncodeParams(work[r])
        /\ request'.body = SubSeq(work[r].body, 1, 0)
        /\ Len(request'.params) <= MaxParams /\ Len(request'.body) <= MaxBody
    BY <2>2, <2>3, <2>4, <2>5
  <2> QED
    BY <1>1, <1>2, <2>1, <2>5, <2>6, StoredKeeps
<1> QED
  BY <1>3, <1>4

\* STDIN with data: dropped, refused because of the limit, or appended.
LEMMA StdinKeeps ==
    ASSUME FInv, NEW r \in Requests, RecvStdin(r)
    PROVE  FInv'
<1> DEFINE B == work[r].body
           at == sent[r].at
<1>1. /\ Open(r) /\ sent[r].stage = "stdin" /\ UNCHANGED <<work, opener, reading, pc, engine>>
  BY DEF RecvStdin, Open
<1>2. B \in Seq(Byte) /\ Len(B) \in Nat /\ at \in Nat
  BY WorkFacts DEF FInv
<1>3. PICK data \in NextBytes(r, B) :
        /\ Advance(r, "stdin", at + Len(data))
        /\ IF Addressed(r) THEN HandleStdin(r, data) ELSE Ignore
  BY DEF RecvStdin
<1>4. /\ data \in Seq(Byte) /\ Len(data) \in Nat /\ at + Len(data) \in Nat
      /\ at + Len(data) <= Len(B)
      /\ SubSeq(B, 1, at) \o data = SubSeq(B, 1, at + Len(data))
  <2> HIDE DEF B
  <2>1. /\ data \in Seq(Byte) /\ Len(data) \in Nat
        /\ sent[r].at + Len(data) <= Len(B)
        /\ SubSeq(B, 1, sent[r].at) \o data = SubSeq(B, 1, sent[r].at + Len(data))
    BY <1>2, NextBytesFacts
  <2>2. at + Len(data) \in Nat
    BY <1>2, <2>1
  <2> QED
    BY <2>1, <2>2
<1>5. PICK a \in Nat : a = at + Len(data)
  BY <1>4
<1>6. CASE ~Addressed(r)
  <2>1. ~UnderWay(r) /\ UNCHANGED <<request, reply>>
    BY <1>1, <1>3, <1>6, AddressedIsUnderWay DEF Ignore
  <2> QED
    BY <1>1, <1>3, <1>4, <1>5, <2>1, IgnoredKeeps
<1>7. CASE Addressed(r)
  <2>1. UnderWay(r)
    BY <1>1, <1>7, AddressedIsUnderWay
  <2>2. /\ request.params = EncodeParams(work[r]) /\ request.body = SubSeq(B, 1, at)
        /\ request.complete <=> ~work[r].skip
        /\ Len(request.body) = at
        /\ request \in [id : Ids, active : BOOLEAN, complete : BOOLEAN,
                        params : Seq(Byte), body : Seq(Byte)]
        /\ Len(request.params) <= MaxParams
    BY <1>1, <2>1, UnderWayFacts
  <2>3. CASE Len(request.body) + Len(data) > MaxBody
    <3>1. /\ Emit(r, send_error(Messages.bodyLimit))
          /\ request' = [request EXCEPT !.active = FALSE]
      BY <1>3, <1>7, <2>3 DEF HandleStdin
    <3>2. Len(B) > MaxBody
      <4>1. at + Len(data) > MaxBody
        BY <2>2, <2>3
      <4> QED
        BY <1>2, <1>4, <4>1, FastCgiAssumption
    <3>3. send_error(Messages.bodyLimit) \in AnswersOf(work[r])
      BY <3>2 DEF AnswersOf
    <3> QED
      BY <1>1, <1>3, <1>4, <1>5, <2>1, <3>1, <3>3, AnsweredKeeps
  <2>4. CASE ~(Len(request.body) + Len(data) > MaxBody)
    <3>1. request' = [request EXCEPT !.body = @ \o data] /\ reply' = reply
      BY <1>3, <1>7, <2>4 DEF HandleStdin, EmitNothing
    <3>2. /\ request.body \o data \in Seq(Byte)
          /\ Len(request.body \o data) = Len(request.body) + Len(data)
      <4>1. request.body \in Seq(Byte)
        BY <2>2
      <4> QED
        BY <1>4, <4>1, ConcatProperties
    <3>3. /\ request'.body = request.body \o data /\ request'.params = request.params
          /\ request'.complete = request.complete /\ request'.active = request.active
          /\ request'.id = request.id /\ RequestType'
      BY <2>2, <3>1, <3>2 DEF RequestType
    <3>4. Len(request'.params) <= MaxParams /\ Len(request'.body) <= MaxBody
      BY <1>2, <1>4, <2>2, <2>4, <3>2, <3>3, FastCgiAssumption
    <3>5. /\ request'.params = EncodeParams(work[r])
          /\ request'.body = SubSeq(B, 1, a)
          /\ request'.complete <=> ~work[r].skip
      BY <1>4, <1>5, <2>2, <3>3
    <3> QED
      BY <1>1, <1>3, <1>4, <1>5, <2>1, <3>1, <3>3, <3>4, <3>5, StoredKeeps
  <2> QED
    BY <2>3, <2>4
<1> QED
  BY <1>6, <1>7

\* The answer is computed from all of the request and nothing else.
LEMMA RunsTheWholeRequest ==
    ASSUME NEW rq, NEW w, rq.params = EncodeParams(w), rq.body = w.body
    PROVE  run_request(rq) = run_request(Whole(w))
<1>1. Whole(w).params = rq.params /\ Whole(w).body = rq.body
  BY DEF Whole
<1> QED
  BY <1>1 DEF run_request

\* The end of STDIN: the request is answered from what was gathered.
LEMMA StdinEndKeeps ==
    ASSUME FInv, NEW r \in Requests, RecvStdinEnd(r)
    PROVE  FInv'
<1>1. /\ Open(r) /\ sent[r].stage = "stdin" /\ sent[r].at = Len(work[r].body)
      /\ UNCHANGED <<work, opener, reading, pc, engine>> /\ Advance(r, "closed", 0)
      /\ IF Addressed(r) THEN HandleStdinEnd(r) ELSE Ignore
  BY DEF RecvStdinEnd, Open
<1>2. /\ work[r].body \in Seq(Byte) /\ Len(work[r].body) \in Nat
  BY WorkFacts DEF FInv
<1>3. CASE ~Addressed(r)
  <2>1. ~UnderWay(r) /\ UNCHANGED <<request, reply>>
    BY <1>1, <1>3, AddressedIsUnderWay DEF Ignore
  <2> QED
    BY <1>1, <1>2, <2>1, IgnoredKeeps
<1>4. CASE Addressed(r)
  <2>1. UnderWay(r)
    BY <1>1, <1>4, AddressedIsUnderWay
  <2>2. /\ request.params = EncodeParams(work[r])
        /\ request.body = SubSeq(work[r].body, 1, sent[r].at)
        /\ request.complete <=> ~work[r].skip
    BY <1>1, <2>1, UnderWayFacts
  <2>3. request.body = work[r].body
    BY <1>1, <1>2, <2>2, SubSeqFull
  <2>4. PICK x : x \in AnswersOf(work[r]) /\ Emit(r, x)
    <3>1. CASE ~request.complete
      <4>1. Emit(r, send_error(Messages.order))
        BY <1>1, <1>4, <3>1 DEF HandleStdinEnd
      <4>2. send_error(Messages.order) \in AnswersOf(work[r])
        BY <2>2, <3>1 DEF AnswersOf
      <4> QED
        BY <4>1, <4>2
    <3>2. CASE request.complete
      <4>1. PICK answer \in run_request(request) : Emit(r, answer)
        BY <1>1, <1>4, <3>2 DEF HandleStdinEnd
      <4>2. answer \in run_request(Whole(work[r]))
        BY <2>2, <2>3, RunsTheWholeRequest
      <4>3. answer \in AnswersOf(work[r])
        BY <2>2, <3>2, <4>2 DEF AnswersOf
      <4> QED
        BY <4>1, <4>3
    <3> QED
      BY <3>1, <3>2
  <2>5. request' = [request EXCEPT !.active = FALSE]
    BY <1>1, <1>4 DEF HandleStdinEnd
  <2> QED
    BY <1>1, <2>1, <2>4, <2>5, AnsweredKeeps
<1> QED
  BY <1>3, <1>4

\* FInv is kept by every step.
LEMMA StepFInv == FInv /\ [Next]_vars => FInv'
<1> SUFFICES ASSUME FInv, [Next]_vars PROVE FInv'
  OBVIOUS
<1>1. CASE Start
  <2>1. UNCHANGED <<work, sent, opener, reply, request, reading>> /\ reading \in BOOLEAN
    BY <1>1 DEF Start, server, FInv, TypeOK
  <2>2. Protocol' /\ RequestType'
    BY <2>1, AsideStep
  <2>3. TypeOK'
    BY <1>1, <2>1 DEF Start, StartUnreadable, StartNoEngine, StartLoadFails, StartServes,
       FInv, TypeOK
  <2> QED
    BY <2>2, <2>3 DEF FInv
<1>2. CASE ServerStopsReading
  <2>1. UNCHANGED <<work, sent, opener, reply, request>> /\ reading' = FALSE
    BY <1>2 DEF ServerStopsReading
  <2>2. Protocol' /\ RequestType'
    BY <2>1, AsideStep
  <2>3. TypeOK'
    BY <1>2, <2>1 DEF ServerStopsReading, FInv, TypeOK
  <2> QED
    BY <2>2, <2>3 DEF FInv
<1>3. CASE EndOfInput
  <2>1. UNCHANGED <<work, sent, opener, reply, request, reading>> /\ reading \in BOOLEAN
    BY <1>3 DEF EndOfInput, server, FInv, TypeOK
  <2>2. Protocol' /\ RequestType'
    BY <2>1, AsideStep
  <2>3. TypeOK'
    BY <1>3, <2>1 DEF EndOfInput, FInv, TypeOK
  <2> QED
    BY <2>2, <2>3 DEF FInv
<1>4. CASE UNCHANGED vars
  <2>1. UNCHANGED <<work, sent, opener, reply, request, reading>> /\ reading \in BOOLEAN
    BY <1>4 DEF vars, FInv, TypeOK
  <2>2. Protocol' /\ RequestType'
    BY <2>1, AsideStep
  <2>3. TypeOK'
    BY <1>4 DEF vars, FInv, TypeOK
  <2> QED
    BY <2>2, <2>3 DEF FInv
<1>5. ASSUME NEW r \in Requests, RecvAbort(r) PROVE FInv'
  <2>1. /\ Open(r) /\ Advance(r, "aborted", 0)
        /\ UNCHANGED <<work, opener, reading, request, reply, pc, engine>>
    BY <1>5 DEF RecvAbort, Ignore
  <2> QED
    BY <2>1, IgnoredKeeps
<1>6. ASSUME NEW r \in Requests, ServerStops(r) PROVE FInv'
  <2>1. /\ Open(r) /\ Advance(r, "closed", 0) /\ Ended(r)
        /\ UNCHANGED <<work, opener, reading, request, reply, pc, engine>>
    BY <1>6 DEF ServerStops
  <2>2. ~UnderWay(r)
    BY <2>1 DEF Ended, FInv, Protocol, Gathered
  <2> QED
    BY <2>1, <2>2, IgnoredKeeps
<1> QED
  BY <1>1, <1>2, <1>3, <1>4, <1>5, <1>6, BeginKeeps, ParamsKeeps, ParamsEndKeeps, StdinKeeps,
     StdinEndKeeps DEF Next
----------------------------------------------------------------------------
(* The theorems.                                                           *)

\* The server's bookkeeping, request_t and the replies agree at all times.
THEOREM InvariantHolds == Spec => []FInv
BY InitFInv, StepFInv, PTL DEF Spec

\* request_t is never overrun, whatever the sizes of the records, and the engine
\* exists exactly while requests are served.
THEOREM TypeCorrect == Spec => []TypeOK
<1>1. FInv => TypeOK
  BY DEF FInv
<1> QED
  BY <1>1, InvariantHolds, PTL

\* Every request gets at most one END_REQUEST, last and directly after the end
\* of its STDOUT stream, in records that fit their length field; and it has got
\* it once the server has sent everything.
THEOREM RequestsEndExactlyOnce == Spec => []EndedExactlyOnce
<1>1. FInv => EndedExactlyOnce
  <2> SUFFICES ASSUME FInv, NEW r \in Requests
               PROVE  /\ \A i \in DOMAIN reply[r] :
                           LET m == reply[r][i]
                           IN  /\ IsEnd(m) => i = Len(reply[r])
                               /\ (m.type = "stdout" /\ m.data = << >>)
                                     <=> (i < Len(reply[r]) /\ IsEnd(reply[r][i + 1]))
                               /\ Len(m.data) <= MaxRecord
                               /\ m.pad < 8 /\ (~IsEnd(m) => (Len(m.data) + m.pad) % 8 = 0)
                      /\ reading /\ sent[r].stage = "closed" => Ended(r)
    BY DEF EndedExactlyOnce
  <2>1. reply[r] = << >> \/ reply[r] \in AnswersOf(work[r])
    BY DEF FInv, Protocol, Answered
  <2>2. CASE reply[r] = << >>
    <3>1. sent[r].stage = "closed" => ~UnderWay(r)
      BY DEF FInv, Protocol, Gathered
    <3>2. ~(reading /\ sent[r].stage = "closed")
      BY <2>2, <3>1 DEF FInv, Protocol, Answered
    <3> QED
      BY <2>2, <3>2
  <2>3. CASE reply[r] \in AnswersOf(work[r])
    <3>1. IsAnswer(reply[r])
      BY <2>3, AnswersAreAnswers DEF FInv, TypeOK
    <3>2. Ended(r)
      <4>1. /\ Len(reply[r]) \in Nat /\ Len(reply[r]) >= 2
            /\ DOMAIN reply[r] = 1..Len(reply[r]) /\ IsEnd(reply[r][Len(reply[r])])
        BY <3>1, AnswerShape
      <4>2. Len(reply[r]) \in DOMAIN reply[r]
        BY <4>1
      <4> QED
        BY <4>1, <4>2 DEF Ended
    <3> QED
      BY <3>1, <3>2, AnswerShape
  <2> QED
    BY <2>1, <2>2, <2>3
<1> QED
  BY <1>1, InvariantHolds, PTL

\* A reply is, record for record, one that the loop of main() owes to the whole
\* of this request and to nothing else: an error whose reason holds of it, or an
\* answer that run_request computes from all its parameters and all its body.
RepliesAreOwed == \A r \in Requests : reply[r] = << >> \/ reply[r] \in AnswersOf(work[r])

\* No reply is owed to another request's bytes, however the streams of several
\* requests are interleaved (main()'s loop and run_request).
THEOREM RepliesAreOfTheirRequests == Spec => []RepliesAreOwed
<1>1. FInv => RepliesAreOwed
  BY DEF FInv, Protocol, Answered, RepliesAreOwed
<1> QED
  BY <1>1, InvariantHolds, PTL

\* What the server can read out of an answer to a request.
Reads(w, x) ==
    LET err == StreamOf(x, "stderr")
    IN  /\ Last(x).status = 0 =>
              ValidParams(w) /\ StreamOf(x, "stdout") \in {<< >>} \cup setStringScratch(Expected(w))
        /\ err = Messages.params => ~ValidParams(w)
        /\ err = Messages.paramsLimit => Len(EncodeParams(w)) > MaxParams
        /\ err = Messages.bodyLimit => Len(w.body) > MaxBody
        /\ err = Messages.order => w.skip

\* The messages are told apart, by each other and from no message.
LEMMA MessagesDiffer ==
    /\ Messages.params # << >> /\ Messages.paramsLimit # << >>
    /\ Messages.bodyLimit # << >> /\ Messages.order # << >>
    /\ \A m \in {Messages.busy, Messages.failed, Messages.notString} :
          m \notin {Messages.params, Messages.paramsLimit, Messages.bodyLimit, Messages.order}
    /\ Messages.params # Messages.paramsLimit /\ Messages.params # Messages.bodyLimit
    /\ Messages.params # Messages.order /\ Messages.paramsLimit # Messages.bodyLimit
    /\ Messages.paramsLimit # Messages.order /\ Messages.bodyLimit # Messages.order
<1>1. /\ Messages.busy = <<901>> /\ Messages.params = <<902>> /\ Messages.paramsLimit = <<903>>
      /\ Messages.order = <<904>> /\ Messages.bodyLimit = <<905>> /\ Messages.failed = <<906>>
      /\ Messages.notString = <<907>>
  BY DEF Messages
<1> QED BY <1>1

\* run_request answers with the request's own parameters and body.
LEMMA RunRequestReads ==
    ASSUME NEW w, WellFormed(w), NEW x \in run_request(Whole(w))
    PROVE  Reads(w, x)
<1> DEFINE parsed == parse_params(EncodeParams(w))
           h == Handler(HandleArgs(parsed.fields, w.body))
<1>1. Whole(w).params = EncodeParams(w) /\ Whole(w).body = w.body
  BY DEF Whole
<1>2. parsed.ok <=> ValidParams(w)
  BY ParamsRead
<1>3. CASE ~parsed.ok
  <2>1. x = send_error(Messages.params)
    BY <1>1, <1>3 DEF run_request
  <2>2. Last(x).status = 1 /\ StreamOf(x, "stderr") = Messages.params
    BY <2>1, ErrorAnswerReads, MessagesAreTexts
  <2> QED BY <1>2, <1>3, <2>2, MessagesDiffer DEF Reads
<1>4. CASE parsed.ok
  <2>0. h = Expected(w) /\ h \in Seq(Nat) /\ ValidParams(w)
    BY <1>2, <1>4, HandlerGets
  <2>1. PICK c \in CallOutcomes(HandleArgs(parsed.fields, w.body)) :
          x = IF c.rc # 0 THEN send_error(Messages.failed)
              ELSE IF c.out.tag # TagString \/ ~c.out.ptr THEN send_error(Messages.notString)
              ELSE write_record("stdout", SubSeq(c.out.data, 1, c.out.len)) \o send_end(0)
    BY <1>1, <1>4 DEF run_request
  <2>2. CASE c.rc # 0 \/ c.out.tag # TagString \/ ~c.out.ptr
    <3>1. PICK m \in {Messages.failed, Messages.notString} : x = send_error(m)
      BY <2>1, <2>2
    <3>2. Last(x).status = 1 /\ StreamOf(x, "stderr") = m
      BY <3>1, ErrorAnswerReads, MessagesAreTexts
    <3> QED BY <3>1, <3>2, MessagesDiffer DEF Reads
  <2>3. CASE ~(c.rc # 0 \/ c.out.tag # TagString \/ ~c.out.ptr)
    <3>1. PICK v \in {StringValue(h), StringValue(<< >>), NullValue} :
            c.out \in valueToWireWithScratch(v)
      <4> HIDE DEF h
      <4> QED
        BY <2>1, <2>3 DEF CallOutcomes, h
    <3>2. c.out.tag = TagString
      BY <2>3
    <3> DEFINE d == c.out.data
    <3>3. d \in Seq(Nat) /\ c.out.len = Len(d) /\ d \in {<< >>} \cup setStringScratch(Expected(w))
      <4>1. h \in Seq(Nat) /\ h = Expected(w)
        BY <2>0
      <4> HIDE DEF h
      <4>2. /\ d \in Seq(Nat) /\ c.out.len = Len(d)
            /\ d \in {<< >>} \cup setStringScratch(h)
        BY <3>1, <3>2, <4>1, ReturnedStrings
      <4> QED
        BY <4>1, <4>2
    <3>4. c.out.data = d /\ c.out.len = Len(d)
      BY <3>3
    <3> HIDE DEF d
    <3>5. SubSeq(d, 1, Len(d)) = d
      BY <3>3, SubSeqFull
    <3>6. x = write_record("stdout", d) \o send_end(0)
      BY <2>1, <2>3, <3>4, <3>5
    <3>7. StreamOf(x, "stdout") = d /\ StreamOf(x, "stderr") = << >>
      BY <3>3, <3>6, DataAnswerReads
    <3> QED BY <2>0, <3>3, <3>7, MessagesDiffer DEF Reads
  <2> QED BY <2>2, <2>3
<1> QED BY <1>3, <1>4

\* So does everything else that the loop of main() may write.
LEMMA AnswersRead ==
    ASSUME NEW w, WellFormed(w), NEW x \in AnswersOf(w)
    PROVE  Reads(w, x)
<1>1. CASE x = send_error(Messages.busy)
  <2>1. Last(x).status = 1 /\ StreamOf(x, "stderr") = Messages.busy
    BY <1>1, ErrorAnswerReads, MessagesAreTexts
  <2> QED BY <2>1, MessagesDiffer DEF Reads
<1>2. CASE x = send_error(Messages.paramsLimit) /\ Len(EncodeParams(w)) > MaxParams
  <2>1. Last(x).status = 1 /\ StreamOf(x, "stderr") = Messages.paramsLimit
    BY <1>2, ErrorAnswerReads, MessagesAreTexts
  <2> QED BY <1>2, <2>1, MessagesDiffer DEF Reads
<1>3. CASE x = send_error(Messages.bodyLimit) /\ Len(w.body) > MaxBody
  <2>1. Last(x).status = 1 /\ StreamOf(x, "stderr") = Messages.bodyLimit
    BY <1>3, ErrorAnswerReads, MessagesAreTexts
  <2> QED BY <1>3, <2>1, MessagesDiffer DEF Reads
<1>4. CASE x = send_error(Messages.order) /\ w.skip
  <2>1. Last(x).status = 1 /\ StreamOf(x, "stderr") = Messages.order
    BY <1>4, ErrorAnswerReads, MessagesAreTexts
  <2> QED BY <1>4, <2>1, MessagesDiffer DEF Reads
<1>5. CASE x \in run_request(Whole(w))
  BY <1>5, RunRequestReads
<1> QED BY <1>1, <1>2, <1>3, <1>4, <1>5 DEF AnswersOf

\* An answer is computed from the parameters and the body of its own request,
\* for parameters of any number and length, in either form of their lengths,
\* however the streams are cut into records and interleaved; and a request is
\* refused only for the reason the answer gives (decode_length, parse_params,
\* run_request, write_record and the limits in main()).
THEOREM AnswersAreOfTheirRequests == Spec => []AnswerIsOfThisRequest
<1>1. FInv => AnswerIsOfThisRequest
  <2> SUFFICES ASSUME FInv, NEW r \in Requests, Ended(r)
               PROVE  LET w   == work[r]
                          err == Output(r, "stderr")
                      IN  /\ Last(reply[r]).status = 0 =>
                                /\ ValidParams(w)
                                /\ Output(r, "stdout") \in {<< >>} \cup setStringScratch(Expected(w))
                          /\ err = Messages.params => ~ValidParams(w)
                          /\ err = Messages.paramsLimit => Len(EncodeParams(w)) > MaxParams
                          /\ err = Messages.bodyLimit => Len(w.body) > MaxBody
                          /\ err = Messages.order => w.skip
    BY DEF AnswerIsOfThisRequest
  <2>1. reply[r] # << >>
    BY DEF Ended
  <2>2. reply[r] \in AnswersOf(work[r])
    BY <2>1 DEF FInv, Protocol, Answered
  <2>3. WellFormed(work[r])
    BY WorkloadAssumption DEF FInv, TypeOK
  <2>4. Reads(work[r], reply[r])
    BY <2>2, <2>3, AnswersRead
  <2>5. Output(r, "stderr") = StreamOf(reply[r], "stderr")
        /\ Output(r, "stdout") = StreamOf(reply[r], "stdout")
    BY DEF Output, StreamOf, PartsOf
  <2> QED
    BY <2>4, <2>5 DEF Reads
<1> QED
  BY <1>1, InvariantHolds, PTL
=============================================================================
