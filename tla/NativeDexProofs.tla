--------------------------- MODULE NativeDexProofs ---------------------------
(***************************************************************************)
(* What holds of the native exchange for every set of wallets and symbols, *)
(* every amount and every fee rate: the reserves of a pool stay positive,  *)
(* their product never shrinks, no activation exceeds its balance, shares  *)
(* and registry add up, and a request makes and loses nothing.             *)
(*                                                                         *)
(* There are two inductive invariants.  IInv is about reserves and         *)
(* activations and leaves the shares open: neither reserves nor accounts   *)
(* depend on them.  BooksInv adds what the shares sum up to, for which     *)
(* integer_sqrt has to return a root, and BalancesInv the u64 balances.    *)
(***************************************************************************)
EXTENDS NativeDex, SumTheorems, TLAPS

\* Pools with the given shares.
PoolsWith(lp, shares) ==
  [anet : Nat \ {0}, token : Nat \ {0}, lp : {lp}, fee : 0 .. MaxFee, shares : {shares}]

PoolOK(p) == \E lp, shares : p \in PoolsWith(lp, shares)

PoolsOK(ps) ==
  /\ ps = [s \in DOMAIN ps |-> ps[s]]
  /\ \A s \in DOMAIN ps : PoolOK(ps[s])

BalancesOK ==
  /\ ants \in [Wallets -> Nat]
  /\ activated \in [Wallets -> Nat]
  /\ ActivatedBounded

IInv == BalancesOK /\ PoolsOK(pools) /\ PoolsOK(saved.pools)

Grows(ps, qs) ==
  \A s \in DOMAIN ps : s \in DOMAIN qs /\ Product(qs[s]) >= Product(ps[s])

------------------------------------------------------------------------------
(***************************************************************************)
(* Arithmetic.                                                             *)
(***************************************************************************)
\* Integer division rounds down.
LEMMA DivFloor ==
  ASSUME NEW a \in Nat, NEW b \in Nat \ {0}
  PROVE  /\ a \div b \in Nat
         /\ (a \div b) * b <= a
         /\ a < (a \div b + 1) * b
  BY SMT

\* The fee takes a part of the amount, never more than all of it.
LEMMA AfterFeeBounds ==
  ASSUME NEW n \in Nat, NEW fee \in 0 .. MaxFee
  PROVE  AfterFee(n, fee) \in Nat /\ AfterFee(n, fee) <= n
<1> DEFINE q == (n * (FeeDen - fee)) \div FeeDen
<1>1. FeeDen \in Nat \ {0} /\ FeeDen - fee \in Nat /\ fee \in Nat
  BY NativeDexAssumption
<1>2. n * (FeeDen - fee) \in Nat
  BY <1>1
<1>3. q \in Nat /\ q * FeeDen <= n * (FeeDen - fee)
  BY <1>1, <1>2, DivFloor
<1>4. n * (FeeDen - fee) <= n * FeeDen
  BY <1>1
<1>5. q <= n
  BY <1>1, <1>3, <1>4
<1> QED
  BY <1>3, <1>5 DEF AfterFee

\* A swap leaves something in the pool, and the product of the reserves does
\* not shrink.
LEMMA AmountOutBounds ==
  ASSUME NEW n \in Nat, NEW in \in Nat \ {0}, NEW out \in Nat \ {0},
         NEW fee \in 0 .. MaxFee
  PROVE  LET paid == AmountOut(n, in, out, fee)
         IN  /\ paid \in Nat
             /\ paid < out
             /\ (in + n) * (out - paid) >= in * out
<1> DEFINE a == AfterFee(n, fee)
           d == in + a
           q == (out * a) \div d
<1>1. a \in Nat /\ a <= n
  BY AfterFeeBounds
<1> HIDE DEF a
<1>2. d \in Nat \ {0} /\ out * a \in Nat
  BY <1>1
<1>3. q \in Nat /\ q * d <= out * a
  BY <1>2, DivFloor
<1> HIDE DEF q
<1>4. q < out
  BY <1>1, <1>3, SMTT(30)
<1>5. (out - q) * d = out * d - q * d
  BY <1>2, <1>3
<1>6. out * d = out * in + out * a
  BY <1>1
<1>7. (out - q) * d >= in * out
  BY <1>1, <1>2, <1>3, <1>5, <1>6
<1>8. (in + n) * (out - q) >= (out - q) * d
  BY <1>1, <1>3, <1>4, SMTT(30)
<1>9. AmountOut(n, in, out, fee) = q
  BY DEF AmountOut, q, a
<1> QED
  BY <1>1, <1>2, <1>3, <1>4, <1>7, <1>8, <1>9

\* And one unit more would shrink it, the fee left aside.
LEMMA AmountOutIsMost ==
  ASSUME NEW n \in Nat, NEW in \in Nat \ {0}, NEW out \in Nat \ {0},
         NEW fee \in 0 .. MaxFee
  PROVE  LET a == AfterFee(n, fee)
             paid == AmountOut(n, in, out, fee)
         IN  /\ a \in Nat /\ paid \in Nat
             /\ (in + a) * (out - paid) >= in * out
             /\ (in + a) * (out - (paid + 1)) < in * out
<1> DEFINE a == AfterFee(n, fee)
           d == in + a
           q == (out * a) \div d
<1>1. a \in Nat
  BY AfterFeeBounds
<1> HIDE DEF a
<1>2. d \in Nat \ {0} /\ out * a \in Nat
  BY <1>1
<1>3. q \in Nat /\ q * d <= out * a /\ out * a < (q + 1) * d
  BY <1>2, DivFloor
<1>4. AmountOut(n, in, out, fee) = q
  BY DEF AmountOut, q, a
<1> HIDE DEF q
<1>5. d * (out - q) = out * d - q * d
  BY <1>2, <1>3
<1>6. d * (out - (q + 1)) = out * d - (q + 1) * d
  BY <1>2, <1>3
<1>7. out * d = out * in + out * a
  BY <1>1
<1>8. out * in = in * out /\ in * out \in Nat
  OBVIOUS
<1>9. q * d \in Nat /\ (q + 1) * d \in Nat
  BY <1>2, <1>3
<1>10. d * (out - q) >= in * out /\ d * (out - (q + 1)) < in * out
  BY <1>2, <1>3, <1>5, <1>6, <1>7, <1>8, <1>9
<1> QED
  BY <1>1, <1>3, <1>4, <1>10 DEF a

------------------------------------------------------------------------------
(***************************************************************************)
(* Pools.                                                                  *)
(***************************************************************************)
\* A pool keeps its shape under other positive reserves.
LEMMA ReservesOK ==
  ASSUME NEW lp, NEW shares, NEW p \in PoolsWith(lp, shares),
         NEW a \in Nat \ {0}, NEW t \in Nat \ {0}
  PROVE  LET q == Reserves(p, a, t)
         IN  q \in PoolsWith(lp, shares) /\ q.anet = a /\ q.token = t
<1> DEFINE r == [p EXCEPT !.anet = a]
<1>1. r \in PoolsWith(lp, shares) /\ r.anet = a
  BY DEF PoolsWith
<1>2. Reserves(p, a, t) = [r EXCEPT !.token = t]
  BY DEF Reserves
<1> HIDE DEF r
<1>3. /\ [r EXCEPT !.token = t] \in PoolsWith(lp, shares)
      /\ [r EXCEPT !.token = t].anet = r.anet
      /\ [r EXCEPT !.token = t].token = t
  BY <1>1 DEF PoolsWith
<1> QED
  BY <1>1, <1>2, <1>3

\* And under other shares.
LEMMA SharesOK ==
  ASSUME NEW lp, NEW shares, NEW p \in PoolsWith(lp, shares), NEW l, NEW h
  PROVE  LET q == [p EXCEPT !.lp = l, !.shares = h]
         IN  q \in PoolsWith(l, h) /\ q.anet = p.anet /\ q.token = p.token
<1> DEFINE r == [p EXCEPT !.lp = l]
<1>1. r \in PoolsWith(l, shares) /\ r.anet = p.anet /\ r.token = p.token
  BY DEF PoolsWith
<1>2. [p EXCEPT !.lp = l, !.shares = h] = [r EXCEPT !.shares = h]
  OBVIOUS
<1> HIDE DEF r
<1>3. /\ [r EXCEPT !.shares = h] \in PoolsWith(l, h)
      /\ [r EXCEPT !.shares = h].anet = r.anet
      /\ [r EXCEPT !.shares = h].token = r.token
  BY <1>1 DEF PoolsWith
<1> QED
  BY <1>1, <1>2, <1>3

\* The reserves of a pool, and its fee.
LEMMA PoolFields ==
  ASSUME NEW p, PoolOK(p)
  PROVE  p.anet \in Nat \ {0} /\ p.token \in Nat \ {0} /\ p.fee \in 0 .. MaxFee
  BY DEF PoolOK, PoolsWith

\* Any other reserves can be read back.
LEMMA ReservesRead ==
  ASSUME NEW p, PoolOK(p), NEW a, NEW t
  PROVE  Reserves(p, a, t).anet = a /\ Reserves(p, a, t).token = t
<1> DEFINE r == [p EXCEPT !.anet = a]
<1>1. /\ r = [x \in DOMAIN r |-> r[x]] /\ "token" \in DOMAIN r /\ "anet" \in DOMAIN r
      /\ r.anet = a
  BY DEF PoolOK, PoolsWith
<1>2. Reserves(p, a, t) = [r EXCEPT !.token = t]
  BY DEF Reserves
<1> HIDE DEF r
<1>3. [r EXCEPT !.token = t].anet = r.anet /\ [r EXCEPT !.token = t].token = t
  BY <1>1
<1> QED
  BY <1>1, <1>2, <1>3

\* A swap that pays what was quoted.
LEMMA SwappedOK ==
  ASSUME NEW p, PoolOK(p), NEW n \in Nat, NEW toToken \in BOOLEAN
  PROVE  LET q == Swapped(p, n, Quote(p, n, toToken), toToken)
         IN  PoolOK(q) /\ Product(q) >= Product(p)
<1> DEFINE out == Quote(p, n, toToken)
           q == Swapped(p, n, out, toToken)
<1>1. PICK lp, shares : p \in PoolsWith(lp, shares)
  BY DEF PoolOK
<1>2. p.anet \in Nat \ {0} /\ p.token \in Nat \ {0} /\ p.fee \in 0 .. MaxFee
  BY PoolFields
<1>3. CASE toToken
  <2>1. out = AmountOut(n, p.anet, p.token, p.fee)
    BY <1>3 DEF Quote
  <2>2. q = Reserves(p, p.anet + n, p.token - out)
    BY <1>3 DEF Swapped
  <2> HIDE DEF out, q
  <2>3. out \in Nat /\ out < p.token /\ (p.anet + n) * (p.token - out) >= p.anet * p.token
    BY <1>2, <2>1, AmountOutBounds
  <2>4. p.anet + n \in Nat \ {0} /\ p.token - out \in Nat \ {0}
    BY <1>2, <2>3
  <2>5. q \in PoolsWith(lp, shares) /\ q.anet = p.anet + n /\ q.token = p.token - out
    BY <1>1, <2>2, <2>4, ReservesOK
  <2> QED
    BY <2>3, <2>5 DEF PoolOK, Product, q, out
<1>4. CASE ~toToken
  <2>1. out = AmountOut(n, p.token, p.anet, p.fee)
    BY <1>4 DEF Quote
  <2>2. q = Reserves(p, p.anet - out, p.token + n)
    BY <1>4 DEF Swapped
  <2> HIDE DEF out, q
  <2>3. out \in Nat /\ out < p.anet /\ (p.token + n) * (p.anet - out) >= p.token * p.anet
    BY <1>2, <2>1, AmountOutBounds
  <2>4. p.token + n \in Nat \ {0} /\ p.anet - out \in Nat \ {0}
    BY <1>2, <2>3
  <2>5. q \in PoolsWith(lp, shares) /\ q.anet = p.anet - out /\ q.token = p.token + n
    BY <1>1, <2>2, <2>4, ReservesOK
  <2>6. (p.anet - out) * (p.token + n) >= p.anet * p.token
    BY <1>2, <2>3, <2>4
  <2> QED
    BY <2>5, <2>6 DEF PoolOK, Product, q, out
<1> QED
  BY <1>3, <1>4

\* A deposit.
LEMMA DeepenedOK ==
  ASSUME NEW p, PoolOK(p), NEW w, NEW a \in Nat, NEW t \in Nat
  PROVE  LET q == Deepened(p, w, a, t) IN PoolOK(q) /\ Product(q) >= Product(p)
<1> DEFINE r == Reserves(p, p.anet + a, p.token + t)
           l == r.lp + Minted(p, a)
           h == Issued(r.shares, w, Minted(p, a))
           q == [r EXCEPT !.lp = l, !.shares = h]
<1>1. PICK lp, shares : p \in PoolsWith(lp, shares)
  BY DEF PoolOK
<1>2. p.anet \in Nat \ {0} /\ p.token \in Nat \ {0}
  BY PoolFields
<1>3. p.anet + a \in Nat \ {0} /\ p.token + t \in Nat \ {0}
  BY <1>2
<1>4. r \in PoolsWith(lp, shares) /\ r.anet = p.anet + a /\ r.token = p.token + t
  BY <1>1, <1>3, ReservesOK
<1>5. Deepened(p, w, a, t) = q
  BY DEF Deepened
<1> HIDE DEF r, l, h
<1>6. q \in PoolsWith(l, h) /\ q.anet = r.anet /\ q.token = r.token
  BY <1>4, SharesOK
<1> HIDE DEF q
<1>7. (p.anet + a) * (p.token + t) >= p.anet * p.token
  <2>1. ASSUME NEW x \in Nat, NEW y \in Nat
        PROVE  (x + a) * (y + t) >= x * y
    <3>1. (x + a) * (y + t) = x * y + x * t + a * y + a * t
      OBVIOUS
    <3>2. x * y \in Nat /\ x * t \in Nat /\ a * y \in Nat /\ a * t \in Nat
      OBVIOUS
    <3> QED
      BY <3>1, <3>2
  <2> QED
    BY <1>2, <2>1
<1> QED
  BY <1>4, <1>5, <1>6, <1>7 DEF PoolOK, Product

\* A new pool.
LEMMA NewPoolOK ==
  ASSUME NEW w, NEW a \in Nat \ {0}, NEW t \in Nat \ {0}, NEW fee \in 0 .. MaxFee
  PROVE  PoolOK(NewPool(w, a, t, fee))
<1> DEFINE lp == InitialShares(a, t)
           shares == [x \in Wallets |-> IF x = w THEN InitialShares(a, t) ELSE 0]
<1>1. NewPool(w, a, t, fee)
        = [anet |-> a, token |-> t, lp |-> lp, fee |-> fee, shares |-> shares]
  BY DEF NewPool
<1> HIDE DEF lp, shares
<1> QED
  BY <1>1 DEF PoolOK, PoolsWith

\* Replacing one pool by a pool whose product is no smaller.
LEMMA PoolReplaced ==
  ASSUME NEW ps, PoolsOK(ps), NEW s \in DOMAIN ps, NEW q, PoolOK(q),
         Product(q) >= Product(ps[s])
  PROVE  LET qs == [ps EXCEPT ![s] = q] IN PoolsOK(qs) /\ Grows(ps, qs)
<1>0. DEFINE qs == [ps EXCEPT ![s] = q]
<1>1. qs = [x \in DOMAIN ps |-> IF x = s THEN q ELSE ps[x]]
  BY DEF PoolsOK
<1> HIDE DEF qs
<1>2. PoolsOK(qs)
  BY <1>1 DEF PoolsOK
<1>3. \A x \in DOMAIN ps : Product(ps[x]) >= Product(ps[x])
  <2> TAKE x \in DOMAIN ps
  <2>1. ps[x].anet \in Nat /\ ps[x].token \in Nat
    BY PoolFields DEF PoolsOK
  <2> QED
    BY <2>1 DEF Product
<1>4. Grows(ps, qs)
  BY <1>1, <1>3 DEF Grows
<1> QED
  BY <1>2, <1>4 DEF qs

\* Opening a pool.
LEMMA PoolOpened ==
  ASSUME NEW ps, PoolsOK(ps), NEW s, s \notin DOMAIN ps, NEW q, PoolOK(q)
  PROVE  LET qs == With(ps, s, q) IN PoolsOK(qs) /\ Grows(ps, qs)
<1>1. PoolsOK(With(ps, s, q))
  BY DEF PoolsOK, With
<1>2. \A x \in DOMAIN ps : Product(ps[x]) >= Product(ps[x])
  <2> TAKE x \in DOMAIN ps
  <2>1. ps[x].anet \in Nat /\ ps[x].token \in Nat
    BY PoolFields DEF PoolsOK
  <2> QED
    BY <2>1 DEF Product
<1>3. Grows(ps, With(ps, s, q))
  BY <1>2 DEF Grows, With
<1> QED
  BY <1>1, <1>3

\* Leaving the pools alone.
LEMMA PoolsKept ==
  ASSUME NEW ps, PoolsOK(ps)
  PROVE  Grows(ps, ps)
<1>1. \A x \in DOMAIN ps : ps[x].anet \in Nat /\ ps[x].token \in Nat
  BY PoolFields DEF PoolsOK
<1> QED
  BY <1>1 DEF Grows, Product
------------------------------------------------------------------------------
(***************************************************************************)
(* Balances.                                                               *)
(***************************************************************************)
\* A payment takes as much from the activation, or all that is left of it.
LEMMA DebitOK ==
  ASSUME BalancesOK, NEW w \in Wallets, NEW n \in Nat, DebitAnet(w, n)
  PROVE  BalancesOK'
  BY DEF BalancesOK, ActivatedBounded, DebitAnet, Minus

\* A receipt leaves the activation alone.
LEMMA CreditOK ==
  ASSUME BalancesOK, NEW w \in Wallets, NEW n \in Nat,
         ants' = [ants EXCEPT ![w] = @ + n], activated' = activated
  PROVE  BalancesOK'
  BY DEF BalancesOK, ActivatedBounded

\* Paying with what has just been minted takes from the activation alone.
LEMMA SpendOK ==
  ASSUME BalancesOK, NEW w \in Wallets, NEW n \in Nat,
         ants' = ants, activated' = [activated EXCEPT ![w] = Minus(@, n)]
  PROVE  BalancesOK'
  BY DEF BalancesOK, ActivatedBounded, Minus

\* Leaving the balances alone.
LEMMA BalancesKept ==
  ASSUME BalancesOK, ants' = ants, activated' = activated
  PROVE  BalancesOK'
  BY DEF BalancesOK, ActivatedBounded

------------------------------------------------------------------------------
(***************************************************************************)
(* The methods.                                                            *)
(***************************************************************************)
Kept == BalancesOK' /\ PoolsOK(pools') /\ Grows(pools, pools')

\* The amounts of requests are positive.
LEMMA UnitsPositive ==
  Units \subseteq Nat \ {0}
  BY NativeDexAssumption

\* Half a bootstrap or half a top-up.
LEMMA MintFailsKeeps ==
  ASSUME IInv, NEW op, NEW w \in Wallets, NEW s, NEW a \in Units, NEW t,
         MintFails(op, w, s, a, t)
  PROVE  Kept
<1>1. a \in Nat
  BY UnitsPositive
<1>2. BalancesOK'
  <2>1. CASE Fits(ants[w], a)
    BY <2>1, <1>1, CreditOK DEF IInv, MintFails
  <2>2. CASE ~Fits(ants[w], a)
    BY <2>2, BalancesKept DEF IInv, MintFails
  <2> QED
    BY <2>1, <2>2
<1>3. pools' = pools
  BY DEF MintFails, marketVars
<1> QED
  BY <1>2, <1>3, PoolsKept DEF IInv, Kept

\* Opening a pool: with minted funds, or with the provider's own.
LEMMA GenesisBootstrapKeeps ==
  ASSUME IInv, NEW w \in Wallets, NEW s, NEW a \in Units, NEW t \in Units,
         NEW fee \in FeeRates, GenesisBootstrap(w, s, a, t, fee)
  PROVE  Kept
<1>1. a \in Nat \ {0} /\ t \in Nat \ {0} /\ fee \in Nat
  BY UnitsPositive, NativeDexAssumption
<1>2. CASE MintFails("bootstrap", w, s, a, t)
  BY <1>2, MintFailsKeeps
<1>3. CASE MintedAndSpent(w, s, a, t) /\ fee <= MaxFee
               /\ pools' = With(pools, s, NewPool(w, a, t, fee))
  <2>1. BalancesOK'
    BY <1>1, <1>3, SpendOK DEF IInv, MintedAndSpent
  <2>2. PoolOK(NewPool(w, a, t, fee))
    BY <1>1, <1>3, NewPoolOK, NativeDexAssumption
  <2>3. s \notin DOMAIN pools
    BY DEF GenesisBootstrap
  <2> QED
    BY <1>3, <2>1, <2>2, <2>3, PoolOpened DEF IInv, Kept
<1>4. CASE MintedAndSpent(w, s, a, t) /\ pools' = pools
  <2>1. BalancesOK'
    BY <1>1, <1>4, SpendOK DEF IInv, MintedAndSpent
  <2> QED
    BY <1>4, <2>1, PoolsKept DEF IInv, Kept
<1> QED
  BY <1>2, <1>3, <1>4 DEF GenesisBootstrap

LEMMA CreatePoolKeeps ==
  ASSUME IInv, NEW w \in Wallets, NEW s, NEW a \in Units, NEW t \in Units,
         NEW fee \in FeeRates, CreatePool(w, s, a, t, fee)
  PROVE  Kept
<1>1. a \in Nat \ {0} /\ t \in Nat \ {0} /\ fee \in Nat
  BY UnitsPositive, NativeDexAssumption
<1>2. BalancesOK'
  BY <1>1, DebitOK DEF IInv, CreatePool
<1>3. CASE pools' = pools
  BY <1>2, <1>3, PoolsKept DEF IInv, Kept
<1>4. CASE fee <= MaxFee /\ pools' = With(pools, s, NewPool(w, a, t, fee))
  <2>1. PoolOK(NewPool(w, a, t, fee))
    BY <1>1, <1>4, NewPoolOK, NativeDexAssumption
  <2>2. s \notin DOMAIN pools
    BY DEF CreatePool
  <2> QED
    BY <1>2, <1>4, <2>1, <2>2, PoolOpened DEF IInv, Kept
<1> QED
  BY <1>3, <1>4 DEF CreatePool

\* Wrapping and unwrapping.
LEMMA WrapAnetKeeps ==
  ASSUME IInv, NEW w \in Wallets, NEW n \in Units, WrapAnet(w, n)
  PROVE  Kept
<1>1. BalancesOK'
  BY UnitsPositive, DebitOK DEF IInv, WrapAnet
<1> QED
  BY <1>1, PoolsKept DEF IInv, Kept, WrapAnet, marketVars

LEMMA UnwrapWanetKeeps ==
  ASSUME IInv, NEW w \in Wallets, NEW n \in Units, UnwrapWanet(w, n)
  PROVE  Kept
<1>1. n \in Nat
  BY UnitsPositive
<1>2. BalancesOK'
  <2>1. CASE Fits(ants[w], n)
    BY <2>1, <1>1, CreditOK DEF IInv, UnwrapWanet
  <2>2. CASE ~Fits(ants[w], n)
    BY <2>2, BalancesKept DEF IInv, UnwrapWanet
  <2> QED
    BY <2>1, <2>2
<1> QED
  BY <1>2, PoolsKept DEF IInv, Kept, UnwrapWanet, marketVars

\* Deposits: of one's own, or of what has been minted.
LEMMA DepositKeeps ==
  ASSUME IInv, NEW w, NEW s \in DOMAIN pools, NEW a \in Units, NEW t \in Units,
         pools' = [pools EXCEPT ![s] = Deepened(@, w, a, t)]
  PROVE  PoolsOK(pools') /\ Grows(pools, pools')
<1>1. a \in Nat /\ t \in Nat
  BY UnitsPositive
<1>2. PoolsOK(pools) /\ PoolOK(pools[s])
  BY DEF IInv, PoolsOK
<1>3. /\ PoolOK(Deepened(pools[s], w, a, t))
      /\ Product(Deepened(pools[s], w, a, t)) >= Product(pools[s])
  BY <1>1, <1>2, DeepenedOK
<1> QED
  BY <1>2, <1>3, PoolReplaced

LEMMA AddLiquidityKeeps ==
  ASSUME IInv, NEW w \in Wallets, NEW s, NEW a \in Units, NEW t \in Units,
         AddLiquidity(w, s, a, t)
  PROVE  Kept
<1>1. BalancesOK'
  BY UnitsPositive, DebitOK DEF IInv, AddLiquidity
<1>2. CASE pools' = pools
  BY <1>1, <1>2, PoolsKept DEF IInv, Kept
<1>3. CASE pools' = [pools EXCEPT ![s] = Deepened(@, w, a, t)]
  <2>1. s \in DOMAIN pools
    BY DEF AddLiquidity, Acceptable
  <2> QED
    BY <1>1, <1>3, <2>1, DepositKeeps DEF Kept
<1> QED
  BY <1>2, <1>3 DEF AddLiquidity

LEMMA TopUpLiquidityKeeps ==
  ASSUME IInv, NEW w \in Wallets, NEW s, NEW a \in Units, NEW t \in Units,
         TopUpLiquidity(w, s, a, t)
  PROVE  Kept
<1>1. a \in Nat
  BY UnitsPositive
<1>2. CASE MintFails("topup", w, s, a, t)
  BY <1>2, MintFailsKeeps
<1>3. CASE Acceptable(s, a, t) /\ MintedAndSpent(w, s, a, t)
               /\ pools' = [pools EXCEPT ![s] = Deepened(@, w, a, t)]
  <2>1. BalancesOK'
    BY <1>1, <1>3, SpendOK DEF IInv, MintedAndSpent
  <2>2. s \in DOMAIN pools
    BY <1>3 DEF Acceptable
  <2> QED
    BY <1>3, <2>1, <2>2, DepositKeeps DEF Kept
<1>4. CASE ants' = [ants EXCEPT ![w] = @ + a] /\ activated' = activated /\ pools' = pools
  <2>1. BalancesOK'
    BY <1>1, <1>4, CreditOK DEF IInv
  <2> QED
    BY <1>4, <2>1, PoolsKept DEF IInv, Kept
<1> QED
  BY <1>2, <1>3, <1>4 DEF TopUpLiquidity, marketVars

\* Swaps: whatever becomes of the wallet's side, the pool either stays or
\* exchanges what was quoted.
LEMMA SwapKeeps ==
  ASSUME IInv, NEW w \in Wallets, NEW s, NEW n \in Units, NEW toToken \in BOOLEAN,
         NEW minOut, NEW deadline, Swap(w, s, n, toToken, minOut, deadline)
  PROVE  Kept
<1> DEFINE out == Quote(pools[s], n, toToken)
           after == Swapped(pools[s], n, out, toToken)
<1>1. n \in Nat /\ s \in DOMAIN pools
  BY UnitsPositive DEF Swap
<1>2. PoolsOK(pools) /\ PoolOK(pools[s])
  BY <1>1 DEF IInv, PoolsOK
<1>3. PoolOK(after) /\ Product(after) >= Product(pools[s])
  BY <1>1, <1>2, SwappedOK
<1>4. out \in Nat
  <2>1. /\ pools[s].anet \in Nat \ {0} /\ pools[s].token \in Nat \ {0}
        /\ pools[s].fee \in 0 .. MaxFee
    BY <1>2, PoolFields
  <2>2. CASE toToken
    BY <1>1, <2>1, <2>2, AmountOutBounds DEF Quote
  <2>3. CASE ~toToken
    BY <1>1, <2>1, <2>3, AmountOutBounds DEF Quote
  <2> QED
    BY <2>2, <2>3
<1>5. PICK paid \in BOOLEAN : Traded(w, s, n, out, toToken, paid)
  BY DEF Swap
<1>6. pools' = pools \/ pools' = [pools EXCEPT ![s] = after]
  BY DEF Swap
<1> HIDE DEF out, after
<1>7. BalancesOK'
  <2>1. CASE toToken
    BY <1>1, <1>5, <2>1, DebitOK DEF IInv, Traded
  <2>2. CASE ~toToken /\ paid
    BY <1>4, <1>5, <2>2, CreditOK DEF IInv, Traded
  <2>3. CASE ~toToken /\ ~paid
    BY <1>5, <2>3, BalancesKept DEF IInv, Traded
  <2> QED
    BY <2>1, <2>2, <2>3
<1>8. PoolsOK(pools') /\ Grows(pools, pools')
  BY <1>1, <1>2, <1>3, <1>6, PoolReplaced, PoolsKept
<1> QED
  BY <1>7, <1>8 DEF Kept

------------------------------------------------------------------------------
(***************************************************************************)
(* The state machine.                                                      *)
(***************************************************************************)
\* A request changes neither the last block nor what the invariant says.
LEMMA AdminRequestsKeep ==
  ASSUME IInv, AdminRequests
  PROVE  Kept /\ saved' = saved
<1>1. CASE PostDexMintAsset
  <2>1. ants' = ants /\ activated' = activated /\ pools' = pools /\ saved' = saved
    BY <1>1 DEF PostDexMintAsset, MintTestAsset, marketVars, blockVars
  <2> QED
    BY <2>1, BalancesKept, PoolsKept DEF IInv, Kept
<1>2. CASE PostGenesisBootstrap
  <2>1. PICK w \in Wallets, s \in Symbols, a \in Units, t \in Units, fee \in FeeRates :
          GenesisBootstrap(w, s, a, t, fee)
    BY <1>2 DEF PostGenesisBootstrap
  <2> QED
    BY <2>1, GenesisBootstrapKeeps DEF GenesisBootstrap, MintFails, blockVars
<1>3. CASE PostAdminAddLiquidity
  <2>1. PICK w \in Wallets, s \in Symbols, a \in Units, t \in Units :
          TopUpLiquidity(w, s, a, t)
    BY <1>3 DEF PostAdminAddLiquidity
  <2> QED
    BY <2>1, TopUpLiquidityKeeps DEF TopUpLiquidity, MintFails, blockVars
<1>4. CASE PostWithWrongKey
  <2>1. ants' = ants /\ activated' = activated /\ pools' = pools /\ saved' = saved
    BY <1>4 DEF PostWithWrongKey, RecordActivity, accountVars, marketVars, blockVars
  <2> QED
    BY <2>1, BalancesKept, PoolsKept DEF IInv, Kept
<1> QED
  BY <1>1, <1>2, <1>3, <1>4 DEF AdminRequests

LEMMA WalletRequestsKeep ==
  ASSUME IInv, NEW by \in Wallets, NEW session,
         \/ PostDexCreatePool(by, session)
         \/ PostDexWrap(by, session) \/ PostDexUnwrap(by, session)
         \/ PostDexAddLiquidity(by, session) \/ PostDexSwapExecute(by, session)
         \/ \E wallet \in Wallets \cup {NoSession} : PostAppActivity(wallet, by, session)
  PROVE  Kept /\ saved' = saved
<1>1. CASE PostDexCreatePool(by, session)
  <2>1. PICK w \in Wallets, s \in Symbols, a \in Units, t \in Units, fee \in FeeRates :
          CreatePool(w, s, a, t, fee)
    BY <1>1 DEF PostDexCreatePool
  <2> QED
    BY <2>1, CreatePoolKeeps DEF CreatePool, blockVars
<1>2. CASE PostDexWrap(by, session)
  <2>1. PICK w \in Wallets, n \in Units : WrapAnet(w, n)
    BY <1>2 DEF PostDexWrap
  <2> QED
    BY <2>1, WrapAnetKeeps DEF WrapAnet, blockVars
<1>3. CASE PostDexUnwrap(by, session)
  <2>1. PICK w \in Wallets, n \in Units : UnwrapWanet(w, n)
    BY <1>3 DEF PostDexUnwrap
  <2> QED
    BY <2>1, UnwrapWanetKeeps DEF UnwrapWanet, blockVars
<1>4. CASE PostDexAddLiquidity(by, session)
  <2>1. PICK w \in Wallets, s \in Symbols, a \in Units, t \in Units :
          AddLiquidity(w, s, a, t)
    BY <1>4 DEF PostDexAddLiquidity
  <2> QED
    BY <2>1, AddLiquidityKeeps DEF AddLiquidity, blockVars
<1>5. CASE PostDexSwapExecute(by, session)
  <2>1. PICK w \in Wallets, s \in Symbols, n \in Units, toToken \in BOOLEAN,
             minOut \in MinOuts, deadline \in Deadlines :
          Swap(w, s, n, toToken, minOut, deadline)
    BY <1>5 DEF PostDexSwapExecute
  <2> QED
    BY <2>1, SwapKeeps DEF Swap, blockVars
<1>6. CASE \E wallet \in Wallets \cup {NoSession} : PostAppActivity(wallet, by, session)
  <2>1. ants' = ants /\ activated' = activated /\ pools' = pools /\ saved' = saved
    BY <1>6 DEF PostAppActivity, RecordActivity, accountVars, marketVars, blockVars
  <2> QED
    BY <2>1, BalancesKept, PoolsKept DEF IInv, Kept
<1> QED
  BY <1>1, <1>2, <1>3, <1>4, <1>5, <1>6

LEMMA SignedRequestsKeep ==
  ASSUME IInv, NEW by \in Wallets,
         \/ PostAdminSwapExecute(by)
         \/ PostAnrc20Create(by) \/ PostAnrc20Mint(by) \/ PostAnrc20Transfer(by)
  PROVE  Kept /\ saved' = saved
<1>1. CASE PostAdminSwapExecute(by)
  <2>1. PICK s \in Symbols, n \in Units, toToken \in BOOLEAN,
             minOut \in MinOuts, deadline \in Deadlines :
          Swap(by, s, n, toToken, minOut, deadline)
    BY <1>1 DEF PostAdminSwapExecute
  <2> QED
    BY <2>1, SwapKeeps DEF Swap, blockVars
<1>2. ASSUME PostAnrc20Create(by) \/ PostAnrc20Mint(by) \/ PostAnrc20Transfer(by)
      PROVE  Kept /\ saved' = saved
  <2>1. ants' = ants /\ activated' = activated /\ pools' = pools /\ saved' = saved
    <3>1. CASE PostAnrc20Create(by)
      BY <3>1 DEF PostAnrc20Create, CreateToken, blockVars
    <3>2. CASE PostAnrc20Mint(by)
      BY <3>2 DEF PostAnrc20Mint, MintToken, blockVars
    <3>3. CASE PostAnrc20Transfer(by)
      BY <3>3 DEF PostAnrc20Transfer, TransferToken, blockVars
    <3> QED
      BY <1>2, <3>1, <3>2, <3>3
  <2> QED
    BY <2>1, BalancesKept, PoolsKept DEF IInv, Kept
<1> QED
  BY <1>1, <1>2

LEMMA UserRequestsKeep ==
  ASSUME IInv, UserRequests
  PROVE  Kept /\ saved' = saved
  BY WalletRequestsKeep, SignedRequestsKeep DEF UserRequests

\* The initial state satisfies the invariant, and every step keeps it and,
\* unless it is a restart, the pools.
LEMMA InitOK ==
  ASSUME Init
  PROVE  IInv
<1>1. BalancesOK
  BY NativeDexAssumption DEF Init, BalancesOK, ActivatedBounded
<1>2. PoolsOK(pools) /\ PoolsOK(saved.pools)
  BY DEF Init, PoolsOK, Empty
<1> QED
  BY <1>1, <1>2 DEF IInv

LEMMA StepOK ==
  ASSUME IInv, [Next]_vars
  PROVE  IInv' /\ (UNCHANGED vars \/ last'.op = "restart" \/ Grows(pools, pools'))
<1>1. CASE AdminRequests \/ UserRequests
  <2>1. Kept /\ saved' = saved
    BY <1>1, AdminRequestsKeep, UserRequestsKeep
  <2> QED
    BY <2>1 DEF IInv, Kept
<1>2. CASE Seal
  <2>1. /\ ants' = ants /\ activated' = activated /\ pools' = pools
        /\ saved'.pools = pools
    BY <1>2 DEF Seal, Snapshot, accountVars, marketVars
  <2>2. BalancesOK'
    BY <2>1, BalancesKept DEF IInv
  <2> QED
    BY <2>1, <2>2, PoolsKept DEF IInv
<1>3. CASE Restart
  <2>1. BalancesOK'
    BY <1>3, NativeDexAssumption DEF Restart, BalancesOK, ActivatedBounded
  <2>2. pools' = saved.pools /\ saved' = saved /\ last'.op = "restart"
    BY <1>3 DEF Restart, Did, blockVars
  <2> QED
    BY <2>1, <2>2 DEF IInv
<1>4. CASE UNCHANGED vars
  BY <1>4 DEF vars, IInv, BalancesOK, ActivatedBounded
<1> QED
  BY <1>1, <1>2, <1>3, <1>4 DEF Next

\* The balances, the activations and the live and the stored pools stay within
\* what IInv says of them, whatever the requests of NativeDex do and leave undone.
THEOREM Invariance == Spec => []IInv
<1>1. Init => IInv
  BY InitOK
<1>2. IInv /\ [Next]_vars => IInv'
  BY StepOK
<1> QED
  BY <1>1, <1>2, PTL DEF Spec

\* However many swaps and deposits are made, with whatever amounts and fees, and
\* whatever half-done requests and restarts come between, no pool loses all of
\* one side: quote_amount_out pays less than there is.
THEOREM ReservesStayPositive == Spec => []ReservesPositive
<1>1. IInv => ReservesPositive
  BY PoolFields DEF IInv, PoolsOK, ReservesPositive
<1> QED
  BY <1>1, Invariance, PTL

\* debit_anet takes from the activation what it takes from the balance, so the
\* sync's clawback never underflows because of the exchange.
THEOREM ActivationsStayBounded == Spec => []ActivatedBounded
<1>1. IInv => ActivatedBounded
  BY DEF IInv, BalancesOK
<1> QED
  BY <1>1, Invariance, PTL

\* The product of a pool's reserves never shrinks while the node runs: the check
\* dex_swap makes after it has changed the reserves can never fail.
THEOREM ProductNeverShrinks == Spec => ProductGrows
<1>1. IInv /\ [Next]_vars
        => [last'.op # "restart" =>
              \A s \in DOMAIN pools :
                s \in DOMAIN pools' /\ Product(pools'[s]) >= Product(pools[s])]_vars
  BY StepOK DEF Grows
<1> QED
  BY <1>1, Invariance, PTL DEF Spec, ProductGrows

\* In every reachable pool a swap pays the most that keeps the product of the
\* reserves, the fee left aside.
THEOREM QuotesAreBest == Spec => []QuoteIsBest
<1>1. ASSUME IInv, NEW s \in DOMAIN pools, NEW n \in Units, NEW toToken \in BOOLEAN
      PROVE  LET p == pools[s]
                 after(out) == Swapped(p, AfterFee(n, p.fee), out, toToken)
                 out == Quote(p, n, toToken)
             IN  /\ Product(after(out)) >= Product(p)
                 /\ Product(after(out + 1)) < Product(p)
  <2> DEFINE p == pools[s]
             a == AfterFee(n, p.fee)
             out == Quote(p, n, toToken)
  <2>1. PoolOK(p)
    BY <1>1 DEF IInv, PoolsOK
  <2>2. p.anet \in Nat \ {0} /\ p.token \in Nat \ {0} /\ p.fee \in 0 .. MaxFee
    BY <2>1, PoolFields
  <2>3. n \in Nat
    BY UnitsPositive
  <2> HIDE DEF p
  <2>4. CASE toToken
    <3>1. out = AmountOut(n, p.anet, p.token, p.fee)
      BY <2>4 DEF Quote
    <3> HIDE DEF out
    <3>2. /\ a \in Nat /\ out \in Nat
          /\ (p.anet + a) * (p.token - out) >= p.anet * p.token
          /\ (p.anet + a) * (p.token - (out + 1)) < p.anet * p.token
      BY <2>2, <2>3, <3>1, AmountOutIsMost
    <3> HIDE DEF a
    <3>3. \A x : Product(Swapped(p, a, x, toToken)) = (p.anet + a) * (p.token - x)
      BY <2>1, <2>4, ReservesRead DEF Product, Swapped
    <3>4. Product(p) = p.anet * p.token
      BY DEF Product
    <3> QED
      BY <3>2, <3>3, <3>4 DEF out, p, a
  <2>5. CASE ~toToken
    <3>1. out = AmountOut(n, p.token, p.anet, p.fee)
      BY <2>5 DEF Quote
    <3> HIDE DEF out
    <3>2. /\ a \in Nat /\ out \in Nat
          /\ (p.token + a) * (p.anet - out) >= p.token * p.anet
          /\ (p.token + a) * (p.anet - (out + 1)) < p.token * p.anet
      BY <2>2, <2>3, <3>1, AmountOutIsMost
    <3> HIDE DEF a
    <3>3. \A x : Product(Swapped(p, a, x, toToken)) = (p.anet - x) * (p.token + a)
      BY <2>1, <2>5, ReservesRead DEF Product, Swapped
    <3>4. Product(p) = p.anet * p.token
      BY DEF Product
    <3>5. /\ (p.anet - out) * (p.token + a) = (p.token + a) * (p.anet - out)
          /\ (p.anet - (out + 1)) * (p.token + a) = (p.token + a) * (p.anet - (out + 1))
          /\ p.anet * p.token = p.token * p.anet
      BY <2>2, <3>2
    <3> QED
      BY <3>2, <3>3, <3>4, <3>5 DEF out, p, a
  <2> QED
    BY <2>4, <2>5
<1>2. IInv => QuoteIsBest
  BY <1>1 DEF QuoteIsBest
<1> QED
  BY <1>2, Invariance, PTL
------------------------------------------------------------------------------
(***************************************************************************)
(* What the consensus loop is told.                                        *)
(***************************************************************************)
\* A request that changes a pool leaves work for the next block.
Told == pending' = TRUE \/ (pools' = pools /\ pending' = pending)

\* dex_swap could change a pool and be refused, if the product of the reserves
\* ever fell; it does not.
LEMMA SwapTells ==
  ASSUME IInv, NEW w \in Wallets, NEW s, NEW n \in Units, NEW toToken \in BOOLEAN,
         NEW minOut, NEW deadline, Swap(w, s, n, toToken, minOut, deadline)
  PROVE  Told
<1> DEFINE out == Quote(pools[s], n, toToken)
           after == Swapped(pools[s], n, out, toToken)
<1>1. n \in Nat /\ s \in DOMAIN pools
  BY UnitsPositive DEF Swap
<1>2. PoolOK(pools[s])
  BY <1>1 DEF IInv, PoolsOK
<1>3. Product(after) >= Product(pools[s])
  BY <1>1, <1>2, SwappedOK
<1>4. PICK paid \in BOOLEAN :
        IF paid /\ out >= minOut
        THEN /\ pools' = [pools EXCEPT ![s] = after]
             /\ IF Product(after) >= Product(pools[s])
                THEN Accept("swap") ELSE Refuse("swap")
        ELSE UNCHANGED pools /\ Refuse("swap")
  BY DEF Swap
<1> HIDE DEF out, after
<1> QED
  BY <1>3, <1>4 DEF Told, Accept, Refuse

LEMMA AdminRequestsTell ==
  ASSUME IInv, AdminRequests
  PROVE  Told
<1>1. CASE PostDexMintAsset
  BY <1>1 DEF PostDexMintAsset, MintTestAsset, Accept, Told
<1>2. CASE PostGenesisBootstrap
  <2>1. PICK w \in Wallets, s \in Symbols, a \in Units, t \in Units, fee \in FeeRates :
          GenesisBootstrap(w, s, a, t, fee)
    BY <1>2 DEF PostGenesisBootstrap
  <2> QED
    BY <2>1 DEF GenesisBootstrap, MintFails, Accept, Refuse, Told, marketVars
<1>3. CASE PostAdminAddLiquidity
  <2>1. PICK w \in Wallets, s \in Symbols, a \in Units, t \in Units :
          TopUpLiquidity(w, s, a, t)
    BY <1>3 DEF PostAdminAddLiquidity
  <2> QED
    BY <2>1 DEF TopUpLiquidity, MintFails, Accept, Refuse, Told, marketVars
<1>4. CASE PostWithWrongKey
  BY <1>4 DEF PostWithWrongKey, RecordActivity, Accept, Told
<1> QED
  BY <1>1, <1>2, <1>3, <1>4 DEF AdminRequests

LEMMA WalletRequestsTell ==
  ASSUME IInv, NEW by \in Wallets, NEW session,
         \/ PostDexCreatePool(by, session)
         \/ PostDexWrap(by, session) \/ PostDexUnwrap(by, session)
         \/ PostDexAddLiquidity(by, session) \/ PostDexSwapExecute(by, session)
         \/ \E wallet \in Wallets \cup {NoSession} : PostAppActivity(wallet, by, session)
  PROVE  Told
<1>1. CASE PostDexCreatePool(by, session)
  <2>1. PICK w \in Wallets, s \in Symbols, a \in Units, t \in Units, fee \in FeeRates :
          CreatePool(w, s, a, t, fee)
    BY <1>1 DEF PostDexCreatePool
  <2> QED
    BY <2>1 DEF CreatePool, Accept, Refuse, Told
<1>2. CASE PostDexWrap(by, session)
  <2>1. PICK w \in Wallets, n \in Units : WrapAnet(w, n)
    BY <1>2 DEF PostDexWrap
  <2> QED
    BY <2>1 DEF WrapAnet, Accept, Refuse, Told, marketVars
<1>3. CASE PostDexUnwrap(by, session)
  <2>1. PICK w \in Wallets, n \in Units : UnwrapWanet(w, n)
    BY <1>3 DEF PostDexUnwrap
  <2> QED
    BY <2>1 DEF UnwrapWanet, Accept, Refuse, Told, marketVars
<1>4. CASE PostDexAddLiquidity(by, session)
  <2>1. PICK w \in Wallets, s \in Symbols, a \in Units, t \in Units :
          AddLiquidity(w, s, a, t)
    BY <1>4 DEF PostDexAddLiquidity
  <2> QED
    BY <2>1 DEF AddLiquidity, Accept, Refuse, Told
<1>5. CASE PostDexSwapExecute(by, session)
  BY <1>5, SwapTells DEF PostDexSwapExecute
<1>6. CASE \E wallet \in Wallets \cup {NoSession} : PostAppActivity(wallet, by, session)
  BY <1>6 DEF PostAppActivity, RecordActivity, Accept, Told
<1> QED
  BY <1>1, <1>2, <1>3, <1>4, <1>5, <1>6

LEMMA SignedRequestsTell ==
  ASSUME IInv, NEW by \in Wallets,
         \/ PostAdminSwapExecute(by)
         \/ PostAnrc20Create(by) \/ PostAnrc20Mint(by) \/ PostAnrc20Transfer(by)
  PROVE  Told
<1>1. CASE PostAdminSwapExecute(by)
  BY <1>1, SwapTells DEF PostAdminSwapExecute
<1>2. CASE PostAnrc20Create(by)
  BY <1>2 DEF PostAnrc20Create, CreateToken, Accept, Told
<1>3. CASE PostAnrc20Mint(by)
  BY <1>3 DEF PostAnrc20Mint, MintToken, Accept, Refuse, Told
<1>4. CASE PostAnrc20Transfer(by)
  BY <1>4 DEF PostAnrc20Transfer, TransferToken, Accept, Refuse, Told
<1> QED
  BY <1>1, <1>2, <1>3, <1>4

\* A change of a pool is in the last block or makes one due, whatever requests
\* fail in between: pending_state_commit is reset only by the block that has the
\* pools and by a start, which takes them from there.
THEOREM PoolsAreCommitted == Spec => []PoolsCommitted
<1> DEFINE CInv == IInv /\ PoolsCommitted
<1>1. Init => CInv
  <2>1. Init => saved.pools = pools
    BY DEF Init
  <2> QED
    BY <2>1, InitOK DEF PoolsCommitted
<1>2. CInv /\ [Next]_vars => CInv'
  <2> SUFFICES ASSUME CInv, [Next]_vars
               PROVE  CInv'
    OBVIOUS
  <2>1. IInv'
    BY StepOK
  <2>2. CASE AdminRequests \/ UserRequests
    <3>1. Told
      BY <2>2, AdminRequestsTell, WalletRequestsTell, SignedRequestsTell
         DEF UserRequests
    <3>2. saved' = saved
      BY <2>2, AdminRequestsKeep, UserRequestsKeep
    <3> QED
      BY <2>1, <3>1, <3>2 DEF Told, PoolsCommitted
  <2>3. CASE Seal
    BY <2>1, <2>3 DEF Seal, Snapshot, marketVars, PoolsCommitted
  <2>4. CASE Restart
    BY <2>1, <2>4 DEF Restart, blockVars, PoolsCommitted
  <2>5. CASE UNCHANGED vars
    BY <2>1, <2>5 DEF vars, PoolsCommitted
  <2> QED
    BY <2>2, <2>3, <2>4, <2>5 DEF Next
<1>3. CInv => PoolsCommitted
  OBVIOUS
<1> HIDE DEF CInv
<1> QED
  BY <1>1, <1>2, <1>3, PTL DEF Spec
------------------------------------------------------------------------------
(***************************************************************************)
(* integer_sqrt.  Newton's estimates go down, so the recursive function    *)
(* exists, and none of them falls below the root.                          *)
(***************************************************************************)
Better(v, x) == (x + v \div x) \div 2

Estimates(v, f) == [x \in 1 .. v |-> IF Better(v, x) < x THEN f[Better(v, x)] ELSE x]

Roots(v) == CHOOSE f : f = Estimates(v, f)

LEMMA NewtonIsRoots ==
  ASSUME NEW v
  PROVE  Newton(v) = IF v <= 1 THEN v ELSE Roots(v)[v]
BY DEF Newton, Roots, Estimates, Better

\* The next estimate is positive, and twice the one after it exceeds the mean.
LEMMA BetterBounds ==
  ASSUME NEW v \in Nat \ {0}, NEW x \in 1 .. v
  PROVE  /\ v \div x \in Nat
         /\ (v \div x) * x <= v /\ v < (v \div x + 1) * x
         /\ Better(v, x) \in Nat \ {0}
         /\ 2 * Better(v, x) <= x + v \div x
         /\ x + v \div x <= 2 * Better(v, x) + 1
<1> DEFINE q == v \div x
<1>1. q \in Nat /\ q * x <= v /\ v < (q + 1) * x
  BY DivFloor
<1>2. q >= 1
  <2>1. q # 0
    BY <1>1
  <2> HIDE DEF q
  <2> QED  BY <1>1, <2>1
<1> HIDE DEF q
<1>3. (x + q) \div 2 \in Nat \ {0} /\ 2 * ((x + q) \div 2) <= x + q
      /\ x + q <= 2 * ((x + q) \div 2) + 1
  BY <1>1, <1>2
<1> QED
  BY <1>1, <1>3 DEF Better, q

\* Below an estimate from above there is the next one.
LEMMA BetterAbove ==
  ASSUME NEW v \in Nat, NEW x \in Nat, NEW q \in Nat, NEW b \in Nat,
         v < (q + 1) * x, x + q <= 2 * b + 1
  PROVE  v < (b + 1) * (b + 1)
<1> DEFINE c == b + 1
           d == q + 1
<1>1. c \in Nat /\ d \in Nat /\ x + d <= 2 * c /\ v < d * x
  OBVIOUS
<1> HIDE DEF c, d
<1>2. (x + d) * (x + d) <= (2 * c) * (2 * c)
  <2>1. ASSUME NEW y \in Nat, NEW z \in Nat, y <= z PROVE y * y <= z * z
    <3>1. y * y <= y * z
      BY <2>1, SMTT(30)
    <3>2. y * z <= z * z
      BY <2>1, SMTT(30)
    <3>3. y * y \in Nat /\ y * z \in Nat /\ z * z \in Nat
      OBVIOUS
    <3> QED  BY <3>1, <3>2, <3>3
  <2>2. x + d \in Nat /\ 2 * c \in Nat
    BY <1>1
  <2> QED  BY <1>1, <2>1, <2>2
<1>3. (x + d) * (x + d) = (x - d) * (x - d) + 4 * (d * x)
  BY <1>1
<1>4. (x - d) * (x - d) >= 0
  <2>1. ASSUME NEW y \in Int PROVE y * y >= 0
    OBVIOUS
  <2>2. x - d \in Int
    BY <1>1
  <2> QED  BY <2>1, <2>2
<1>5. (2 * c) * (2 * c) = 4 * (c * c)
  BY <1>1
<1>6. d * x \in Nat /\ c * c \in Nat /\ (x - d) * (x - d) \in Int
  BY <1>1
<1>7. v < c * c
  BY <1>1, <1>2, <1>3, <1>4, <1>5, <1>6
<1> QED
  BY <1>7 DEF c

LEMMA RootsExist ==
  ASSUME NEW v \in Nat \ {0}
  PROVE  \E f : f = Estimates(v, f)
<1> DEFINE Right(f, n) == \A x \in 1 .. n : f[x] = IF Better(v, x) < x THEN f[Better(v, x)] ELSE x
           A == {n \in Nat : n <= v => \E f : f = [x \in 1 .. n |-> f[x]] /\ Right(f, n)}
<1>1. \A x \in 1 .. v : Better(v, x) \in Nat \ {0}
  BY BetterBounds
<1>2. 0 \in A
  <2>1. [x \in 1 .. 0 |-> x] = [y \in 1 .. 0 |-> [x \in 1 .. 0 |-> x][y]]
        /\ Right([x \in 1 .. 0 |-> x], 0)
    OBVIOUS
  <2> QED  BY <2>1
<1>3. ASSUME NEW n \in Nat, n \in A PROVE n + 1 \in A
  <2> SUFFICES ASSUME n + 1 <= v
               PROVE  \E f : f = [x \in 1 .. n + 1 |-> f[x]] /\ Right(f, n + 1)
    OBVIOUS
  <2>1. PICK f : f = [x \in 1 .. n |-> f[x]] /\ Right(f, n)
    BY <1>3
  <2> DEFINE b == Better(v, n + 1)
             g == [x \in 1 .. n + 1 |->
                     IF x = n + 1 THEN (IF b < n + 1 THEN f[b] ELSE n + 1) ELSE f[x]]
  <2>2. \A x \in 1 .. n : g[x] = f[x]
    OBVIOUS
  <2>3. Right(g, n + 1)
    <3> SUFFICES ASSUME NEW x \in 1 .. n + 1
                 PROVE  g[x] = IF Better(v, x) < x THEN g[Better(v, x)] ELSE x
      OBVIOUS
    <3>1. Better(v, x) \in Nat \ {0}
      BY <1>1
    <3>2. CASE x = n + 1
      <4>1. b < n + 1 => b \in 1 .. n
        BY <3>1, <3>2
      <4> QED  BY <2>2, <3>2, <4>1
    <3>3. CASE x # n + 1
      <4>1. x \in 1 .. n
        BY <3>3
      <4>2. Better(v, x) < x => Better(v, x) \in 1 .. n
        BY <3>1, <4>1
      <4> HIDE DEF g
      <4>3. f[x] = IF Better(v, x) < x THEN f[Better(v, x)] ELSE x
        BY <2>1, <4>1
      <4> QED  BY <2>2, <4>1, <4>2, <4>3
    <3> QED  BY <3>2, <3>3
  <2>4. g = [x \in 1 .. n + 1 |-> g[x]]
    OBVIOUS
  <2> HIDE DEF g, Right
  <2> QED  BY <2>3, <2>4
<1> HIDE DEF A
<1>4. v \in A
  BY <1>2, <1>3, Induction
<1>5. PICK f : f = [x \in 1 .. v |-> f[x]] /\ Right(f, v)
  BY <1>4 DEF A
<1>6. f = Estimates(v, f)
  BY <1>5 DEF Estimates
<1> QED  BY <1>6

\* Newton(v) is the integer square root of v.
LEMMA NewtonIsRoot ==
  ASSUME NEW v \in Nat
  PROVE  /\ Newton(v) \in Nat
         /\ Newton(v) * Newton(v) <= v
         /\ v < (Newton(v) + 1) * (Newton(v) + 1)
<1> DEFINE Root(r) == r \in Nat /\ r * r <= v /\ v < (r + 1) * (r + 1)
           f == Roots(v)
           A == {n \in Nat : \A x \in 1 .. v :
                   x <= n /\ v < (x + 1) * (x + 1) => Root(f[x])}
<1>1. CASE v <= 1
  <2>1. Newton(v) = v /\ (v = 0 \/ v = 1)
    BY <1>1, NewtonIsRoots
  <2> QED  BY <2>1
<1>2. CASE ~(v <= 1)
  <2>1. v \in Nat \ {0} /\ v \in 1 .. v
    BY <1>2
  <2>2. \E g : g = Estimates(v, g)
    BY <2>1, RootsExist
  <2>3. f = Estimates(v, f)
    BY <2>2 DEF Roots
  <2> HIDE DEF f
  <2>4. \A x \in 1 .. v : /\ Better(v, x) < x => f[x] = f[Better(v, x)]
                          /\ ~(Better(v, x) < x) => f[x] = x
    BY <2>3 DEF Estimates
  <2>5. 0 \in A
    OBVIOUS
  <2>6. ASSUME NEW n \in Nat, n \in A PROVE n + 1 \in A
    <3> SUFFICES ASSUME NEW x \in 1 .. v, x <= n + 1, v < (x + 1) * (x + 1)
                 PROVE  Root(f[x])
      OBVIOUS
    <3> DEFINE b == Better(v, x)
               q == v \div x
    <3>1. /\ q \in Nat /\ q * x <= v /\ v < (q + 1) * x
          /\ b \in Nat \ {0} /\ 2 * b <= x + q /\ x + q <= 2 * b + 1
      BY <2>1, BetterBounds
    <3> HIDE DEF b, q
    <3>2. CASE b < x
      <4>1. b \in 1 .. v /\ b <= n
        BY <3>1, <3>2
      <4>2. v < (b + 1) * (b + 1)
        BY <3>1, BetterAbove
      <4>3. Root(f[b])
        BY <2>6, <4>1, <4>2
      <4>4. f[x] = f[b]
        BY <2>4, <3>2 DEF b
      <4> HIDE DEF Root
      <4> QED  BY <4>3, <4>4
    <3>3. CASE ~(b < x)
      <4>1. f[x] = x
        BY <2>4, <3>3 DEF b
      <4>2. x <= q /\ x \in Nat
        BY <3>1, <3>3
      <4>3. x * x <= q * x
        BY <3>1, <4>2
      <4>4. x * x \in Nat /\ q * x \in Nat
        BY <3>1, <4>2
      <4>5. x * x <= v
        BY <3>1, <4>3, <4>4
      <4> QED  BY <4>1, <4>2, <4>5
    <3> QED  BY <3>2, <3>3
  <2> HIDE DEF A
  <2>7. v \in A
    BY <2>5, <2>6, Induction
  <2>8. v < (v + 1) * (v + 1)
    <3>1. (v + 1) * (v + 1) = v * v + 2 * v + 1 /\ v * v \in Nat
      OBVIOUS
    <3> QED  BY <3>1
  <2>9. Root(f[v])
    BY <2>1, <2>7, <2>8 DEF A
  <2>10. Newton(v) = f[v]
    BY <1>2, NewtonIsRoots DEF f
  <2> QED  BY <2>9, <2>10
<1> QED  BY <1>1, <1>2

------------------------------------------------------------------------------
(***************************************************************************)
(* Books.                                                                  *)
(***************************************************************************)
\* A pool both of whose sides hold something, and whose shares add up.
FullPool(p) ==
  /\ p \in Pool
  /\ p.anet > 0 /\ p.token > 0
  /\ p.lp > 0 /\ p.lp = SumFunctionOnSet(p.shares, Wallets)

FullToken(r) == r \in Token /\ r.supply = SumFunctionOnSet(r.held, Wallets)

PoolsBooked(ps) ==
  /\ ps = [s \in DOMAIN ps |-> ps[s]]
  /\ DOMAIN ps \subseteq Symbols /\ IsFiniteSet(DOMAIN ps)
  /\ \A s \in DOMAIN ps : FullPool(ps[s])

TokensBooked(rs) ==
  /\ rs = [s \in DOMAIN rs |-> rs[s]]
  /\ DOMAIN rs \subseteq Symbols
  /\ \A s \in DOMAIN rs : FullToken(rs[s])

BooksInv ==
  /\ PoolsBooked(pools) /\ PoolsBooked(saved.pools)
  /\ TokensBooked(registry) /\ TokensBooked(saved.registry)

\* The shares of the wallets, and what they hold of a token, can be summed.
LEMMA WalletsSum ==
  ASSUME NEW f \in [Wallets -> Nat]
  PROVE  Summable(f, Wallets)
BY NativeDexAssumption DEF Summable

LEMMA WalletSumType ==
  ASSUME NEW f \in [Wallets -> Nat]
  PROVE  SumFunctionOnSet(f, Wallets) \in Nat
BY NativeDexAssumption, SumNat

\* One wallet's entry changes: g is f after it.
Sets(f, g, w, b) ==
  f \in [Wallets -> Nat] /\ w \in Wallets /\ b \in Nat /\ g = [f EXCEPT ![w] = b]

LEMMA WalletSets ==
  ASSUME NEW f, NEW g, NEW w, NEW b, Sets(f, g, w, b)
  PROVE  /\ g \in [Wallets -> Nat]
         /\ SumFunctionOnSet(g, Wallets) = SumFunctionOnSet(f, Wallets) - f[w] + b
<1>1. /\ f \in [Wallets -> Nat] /\ w \in Wallets /\ b \in Nat
      /\ g \in [Wallets -> Nat] /\ g[w] = b /\ \A y \in Wallets \ {w} : g[y] = f[y]
  BY DEF Sets
<1>2. ChangedAt(f, g, Wallets, w)
  BY <1>1, WalletsSum DEF ChangedAt
<1>3. SumFunctionOnSet(g, Wallets) = SumFunctionOnSet(f, Wallets) - f[w] + g[w]
  BY <1>2, SumPut
<1> QED  BY <1>1, <1>3

\* What one wallet receives is added to the sum.
Receives(f, g, w, n) ==
  f \in [Wallets -> Nat] /\ w \in Wallets /\ n \in Nat /\ g = [f EXCEPT ![w] = @ + n]

LEMMA WalletReceives ==
  ASSUME NEW f, NEW g, NEW w, NEW n, Receives(f, g, w, n)
  PROVE  /\ g \in [Wallets -> Nat]
         /\ SumFunctionOnSet(g, Wallets) = SumFunctionOnSet(f, Wallets) + n
<1> DEFINE b == f[w] + n
           Sum == SumFunctionOnSet(f, Wallets)
<1>1. f \in [Wallets -> Nat] /\ f[w] \in Nat /\ n \in Nat /\ Sets(f, g, w, b)
  BY DEF Receives, Sets
<1>2. g \in [Wallets -> Nat] /\ SumFunctionOnSet(g, Wallets) = Sum - f[w] + b
  BY <1>1, WalletSets
<1>3. Sum \in Nat
  BY <1>1, WalletSumType
<1> HIDE DEF Sum
<1>4. SumFunctionOnSet(g, Wallets) = Sum + n
  BY <1>1, <1>2, <1>3
<1> QED  BY <1>2, <1>4 DEF Sum

\* What it pays is taken from it.
Pays(f, g, w, n) ==
  f \in [Wallets -> Nat] /\ w \in Wallets /\ n \in Nat /\ n <= f[w]
  /\ g = [f EXCEPT ![w] = @ - n]

LEMMA WalletPays ==
  ASSUME NEW f, NEW g, NEW w, NEW n, Pays(f, g, w, n)
  PROVE  /\ g \in [Wallets -> Nat]
         /\ SumFunctionOnSet(g, Wallets) = SumFunctionOnSet(f, Wallets) - n
<1> DEFINE b == f[w] - n
           Sum == SumFunctionOnSet(f, Wallets)
<1>1. f \in [Wallets -> Nat] /\ f[w] \in Nat /\ n \in Nat /\ Sets(f, g, w, b)
  BY DEF Pays, Sets
<1>2. g \in [Wallets -> Nat] /\ SumFunctionOnSet(g, Wallets) = Sum - f[w] + b
  BY <1>1, WalletSets
<1>3. Sum \in Nat
  BY <1>1, WalletSumType
<1> HIDE DEF Sum
<1>4. SumFunctionOnSet(g, Wallets) = Sum - n
  BY <1>1, <1>2, <1>3
<1> QED  BY <1>2, <1>4 DEF Sum

\* What one wallet gives another leaves the sum as it was.
Gives(f, g, w, to, n) ==
  /\ f \in [Wallets -> Nat]
  /\ w \in Wallets /\ to \in Wallets /\ w # to
  /\ n \in Nat /\ n <= f[w]
  /\ g = [f EXCEPT ![w] = @ - n, ![to] = @ + n]

LEMMA WalletGives ==
  ASSUME NEW f, NEW g, NEW w, NEW to, NEW n, Gives(f, g, w, to, n)
  PROVE  /\ g \in [Wallets -> Nat]
         /\ SumFunctionOnSet(g, Wallets) = SumFunctionOnSet(f, Wallets)
<1> DEFINE Sum == SumFunctionOnSet(f, Wallets)
<1>1. PICK h : h = [f EXCEPT ![w] = @ - n]
  OBVIOUS
<1>2. Pays(f, h, w, n) /\ n \in Nat /\ f \in [Wallets -> Nat]
  BY <1>1 DEF Gives, Pays
<1>3. h \in [Wallets -> Nat] /\ SumFunctionOnSet(h, Wallets) = Sum - n
  BY <1>2, WalletPays
<1>4. Receives(h, g, to, n)
  BY <1>1, <1>3 DEF Gives, Receives
<1>5. g \in [Wallets -> Nat] /\ SumFunctionOnSet(g, Wallets) = SumFunctionOnSet(h, Wallets) + n
  BY <1>4, WalletReceives
<1>6. Sum \in Nat
  BY <1>2, WalletSumType
<1> HIDE DEF Sum
<1>7. SumFunctionOnSet(g, Wallets) = Sum
  BY <1>2, <1>3, <1>5, <1>6
<1> QED  BY <1>5, <1>7 DEF Sum

\* One wallet has everything.
LEMMA WalletOnly ==
  ASSUME NEW w \in Wallets, NEW n \in Nat
  PROVE  LET f == [x \in Wallets |-> IF x = w THEN n ELSE 0]
         IN  f \in [Wallets -> Nat] /\ SumFunctionOnSet(f, Wallets) = n
<1> DEFINE f == [x \in Wallets |-> IF x = w THEN n ELSE 0]
<1>1. \A x \in Wallets : f[x] = IF x \in {w} THEN n ELSE 0
  OBVIOUS
<1>2. Cardinality({w}) = 1
  BY FS_Singleton
<1> HIDE DEF f
<1>3. SumFunctionOnSet(f, Wallets) = n * 1
  BY <1>1, <1>2, NativeDexAssumption, SumConst
<1> QED  BY <1>3 DEF f

\* A new pool has shares, as many as its provider has.
LEMMA NewPoolFull ==
  ASSUME NEW w \in Wallets, NEW a \in Nat \ {0}, NEW t \in Nat \ {0}, NEW fee \in 0 .. MaxFee
  PROVE  FullPool(NewPool(w, a, t, fee))
<1> DEFINE lp == InitialShares(a, t)
           shares == [x \in Wallets |-> IF x = w THEN lp ELSE 0]
<1>1. a * t \in Nat /\ a * t > 0
  BY SMTT(30)
<1>2. lp \in Nat /\ a * t < (lp + 1) * (lp + 1)
  BY <1>1, NewtonIsRoot DEF InitialShares
<1> HIDE DEF lp
<1>3. lp > 0
  <2>1. lp # 0
    BY <1>1, <1>2
  <2> QED  BY <1>2, <2>1
<1>4. shares \in [Wallets -> Nat] /\ SumFunctionOnSet(shares, Wallets) = lp
  BY <1>2, WalletOnly
<1>5. NewPool(w, a, t, fee)
        = [anet |-> a, token |-> t, lp |-> lp, fee |-> fee, shares |-> shares]
  BY DEF NewPool, lp
<1> HIDE DEF shares
<1> QED  BY <1>2, <1>3, <1>4, <1>5 DEF FullPool, Pool

\* A pool written out.
Written(a, t, lp, fee, shares) ==
  [anet |-> a, token |-> t, lp |-> lp, fee |-> fee, shares |-> shares]

LEMMA PoolWritten ==
  ASSUME NEW p \in Pool
  PROVE  p = Written(p.anet, p.token, p.lp, p.fee, p.shares)
BY DEF Pool, Written

LEMMA WrittenFields ==
  ASSUME NEW a, NEW t, NEW l, NEW f, NEW h
  PROVE  LET p == Written(a, t, l, f, h)
         IN  p.anet = a /\ p.token = t /\ p.lp = l /\ p.fee = f /\ p.shares = h
BY DEF Written

LEMMA WrittenPut ==
  ASSUME NEW a, NEW t, NEW l, NEW f, NEW h, NEW p, p = Written(a, t, l, f, h),
         NEW x, NEW q
  PROVE  /\ q = [p EXCEPT !.anet = x] => q = Written(x, t, l, f, h)
         /\ q = [p EXCEPT !.token = x] => q = Written(a, x, l, f, h)
         /\ q = [p EXCEPT !.lp = x] => q = Written(a, t, x, f, h)
         /\ q = [p EXCEPT !.shares = x] => q = Written(a, t, l, f, x)
BY DEF Written

LEMMA ReservesWritten ==
  ASSUME NEW p \in Pool, NEW a, NEW t
  PROVE  Reserves(p, a, t) = Written(a, t, p.lp, p.fee, p.shares)
<1>1. PICK r : r = [p EXCEPT !.anet = a]
  OBVIOUS
<1>2. PICK q : q = [r EXCEPT !.token = t]
  OBVIOUS
<1>3. p = Written(p.anet, p.token, p.lp, p.fee, p.shares)
  BY PoolWritten
<1>4. r = Written(a, p.token, p.lp, p.fee, p.shares)
  BY <1>1, <1>3, WrittenPut
<1>5. q = Written(a, t, p.lp, p.fee, p.shares)
  BY <1>2, <1>4, WrittenPut
<1>6. Reserves(p, a, t) = q
  BY <1>1, <1>2 DEF Reserves
<1> QED  BY <1>5, <1>6

LEMMA SharesWritten ==
  ASSUME NEW p \in Pool, NEW l, NEW h, NEW q, q = [p EXCEPT !.lp = l, !.shares = h]
  PROVE  q = Written(p.anet, p.token, l, p.fee, h)
<1>1. PICK r : r = [p EXCEPT !.lp = l]
  OBVIOUS
<1>2. p = Written(p.anet, p.token, p.lp, p.fee, p.shares)
  BY PoolWritten
<1>3. r = Written(p.anet, p.token, l, p.fee, p.shares)
  BY <1>1, <1>2, WrittenPut
<1>4. q = [r EXCEPT !.shares = h]
  BY <1>1
<1> QED  BY <1>3, <1>4 DEF Written

\* Other reserves change nothing in the books.
LEMMA ReservesFull ==
  ASSUME NEW p, FullPool(p), NEW a \in Nat \ {0}, NEW t \in Nat \ {0}
  PROVE  LET q == Reserves(p, a, t)
         IN  /\ FullPool(q) /\ q.anet = a /\ q.token = t
             /\ q.lp = p.lp /\ q.fee = p.fee /\ q.shares = p.shares
<1> DEFINE q == Reserves(p, a, t)
<1>1. q = Written(a, t, p.lp, p.fee, p.shares)
  BY ReservesWritten DEF FullPool
<1> HIDE DEF q
<1>2. p.lp \in Nat /\ p.fee \in 0 .. MaxFee /\ p.shares \in [Wallets -> Nat]
  BY DEF FullPool, Pool
<1>3. q \in Pool
  BY <1>1, <1>2 DEF Pool, Written
<1>4. /\ q.anet = a /\ q.token = t
      /\ q.lp = p.lp /\ q.fee = p.fee /\ q.shares = p.shares
  BY <1>1, WrittenFields
<1>5. FullPool(q)
  BY <1>3, <1>4 DEF FullPool
<1> QED  BY <1>4, <1>5 DEF q

\* The shares a deposit mints are whole, and counted twice: in all, and for
\* the provider.
LEMMA DeepenedFull ==
  ASSUME NEW p, FullPool(p), NEW w \in Wallets, NEW a \in Nat, NEW t \in Nat
  PROVE  LET q == Deepened(p, w, a, t)
         IN  /\ FullPool(q)
             /\ q.anet = p.anet + a /\ q.token = p.token + t
             /\ Minted(p, a) \in Nat /\ q.lp = p.lp + Minted(p, a)
<1> DEFINE m == Minted(p, a)
           r == Reserves(p, p.anet + a, p.token + t)
           h == [r.shares EXCEPT ![w] = @ + m]
           q == [r EXCEPT !.lp = r.lp + m, !.shares = h]
<1>1. /\ p.anet \in Nat \ {0} /\ p.token \in Nat \ {0} /\ p.lp \in Nat \ {0}
      /\ p.shares \in [Wallets -> Nat]
      /\ p.lp = SumFunctionOnSet(p.shares, Wallets)
  BY DEF FullPool, Pool
<1>2. p.anet + a \in Nat \ {0} /\ p.token + t \in Nat \ {0}
  BY <1>1
<1>3. /\ FullPool(r) /\ r.anet = p.anet + a /\ r.token = p.token + t
      /\ r.lp = p.lp /\ r.shares = p.shares
  BY <1>2, ReservesFull
<1>4. m \in Nat
  <2>1. a * p.lp \in Nat
    BY <1>1
  <2> QED  BY <1>1, <2>1, DivFloor DEF Minted
<1>5. Deepened(p, w, a, t) = q
  BY DEF Deepened, Issued
<1> HIDE DEF m, r
<1>6. h \in [Wallets -> Nat] /\ SumFunctionOnSet(h, Wallets) = p.lp + m
  <2> HIDE DEF h
  <2>1. Receives(p.shares, h, w, m)
    BY <1>1, <1>3, <1>4 DEF h, Receives
  <2> QED  BY <1>1, <2>1, WalletReceives
<1> HIDE DEF h, q
<1>7. q = Written(r.anet, r.token, r.lp + m, r.fee, h)
  <2>1. r \in Pool
    BY <1>3 DEF FullPool
  <2> QED  BY <2>1, SharesWritten DEF q
<1>8. /\ q.anet = p.anet + a /\ q.token = p.token + t
      /\ q.lp = p.lp + m /\ q.shares = h /\ q.fee = r.fee
  BY <1>3, <1>7, WrittenFields
<1>9. q \in Pool
  <2>1. r.fee \in 0 .. MaxFee /\ p.lp + m \in Nat
    BY <1>1, <1>3, <1>4 DEF FullPool, Pool
  <2> QED  BY <1>2, <1>3, <1>6, <1>7, <2>1 DEF Pool, Written
<1>10. p.anet + a > 0 /\ p.token + t > 0 /\ p.lp + m > 0
  BY <1>1, <1>4
<1>11. FullPool(q)
  BY <1>6, <1>8, <1>9, <1>10 DEF FullPool
<1> QED  BY <1>4, <1>5, <1>8, <1>11 DEF m

\* How the pools may change.
Opens(ps, qs) ==
  \E w \in Wallets, s \in Symbols, a \in Units, t \in Units, fee \in 0 .. MaxFee :
    s \notin DOMAIN ps /\ qs = With(ps, s, NewPool(w, a, t, fee))

Deepens(ps, qs) ==
  \E w \in Wallets, s \in DOMAIN ps, a \in Units, t \in Units :
    /\ InRatio(ps[s], a, t) /\ Minted(ps[s], a) > 0
    /\ qs = [ps EXCEPT ![s] = Deepened(ps[s], w, a, t)]

Exchanges(ps, qs) ==
  \E s \in DOMAIN ps, n \in Units, toToken \in BOOLEAN :
    qs = [ps EXCEPT ![s] = Swapped(ps[s], n, Quote(ps[s], n, toToken), toToken)]

PoolsMove ==
  /\ saved' = saved
  /\ \/ pools' = pools
     \/ Opens(pools, pools')
     \/ Deepens(pools, pools') /\ last'.op \in {"liquidity", "topup"}
     \/ Exchanges(pools, pools') /\ last'.op = "swap"
  /\ last'.op \in {"liquidity", "topup"} => pools' = pools \/ Deepens(pools, pools')

\* How the registry may change.
Creates(rs, qs) ==
  \E w \in Wallets, s \in Symbols, n \in Nat, mintable \in BOOLEAN :
    /\ s \notin DOMAIN rs
    /\ qs = With(rs, s, [supply |-> n, owner |-> w, mintable |-> mintable,
                         held |-> [x \in Wallets |-> IF x = w THEN n ELSE 0]])

Mints(rs, qs) ==
  \E s \in DOMAIN rs, to \in Wallets, n \in Nat : qs = [rs EXCEPT ![s] = MintedTo(rs[s], to, n)]

Transferred(rs, qs, s, w, to, n) ==
  /\ w # to /\ n <= rs[s].held[w]
  /\ qs = [rs EXCEPT ![s].held[w] = @ - n, ![s].held[to] = @ + n]

Transfers(rs, qs) ==
  \E s \in DOMAIN rs, w \in Wallets, to \in Wallets, n \in Nat :
    Transferred(rs, qs, s, w, to, n)

RegistryMoves ==
  registry' = registry \/ Creates(registry, registry') \/ Mints(registry, registry')
    \/ Transfers(registry, registry')

LEMMA AmountsAreNat ==
  Units \subseteq Nat /\ Units \cup {0} \subseteq Nat
BY UnitsPositive

LEMMA FeesFit ==
  \A fee \in FeeRates : fee <= MaxFee => fee \in 0 .. MaxFee
BY NativeDexAssumption

LEMMA BootstrapMoves ==
  ASSUME NEW w \in Wallets, NEW s \in Symbols, NEW a \in Units, NEW t \in Units,
         NEW fee \in FeeRates, GenesisBootstrap(w, s, a, t, fee)
  PROVE  PoolsMove /\ registry' = registry
<1>1. CASE MintFails("bootstrap", w, s, a, t)
  BY <1>1 DEF MintFails, Refuse, Answer, Did, PoolsMove, marketVars, blockVars
<1>2. CASE /\ IF fee <= MaxFee
              THEN pools' = With(pools, s, NewPool(w, a, t, fee)) /\ Accept("bootstrap")
              ELSE UNCHANGED pools /\ Refuse("bootstrap")
           /\ UNCHANGED <<registry, blockVars>>
  <2>1. last'.op = "bootstrap" /\ saved' = saved /\ registry' = registry
    BY <1>2 DEF Accept, Refuse, Answer, Did, blockVars
  <2>2. pools' = pools \/ Opens(pools, pools')
    <3>1. CASE fee <= MaxFee
      BY <1>2, <3>1, FeesFit DEF GenesisBootstrap, Opens
    <3>2. CASE ~(fee <= MaxFee)
      BY <1>2, <3>2
    <3> QED  BY <3>1, <3>2
  <2> QED  BY <2>1, <2>2 DEF PoolsMove
<1> QED  BY <1>1, <1>2 DEF GenesisBootstrap

LEMMA CreatePoolMoves ==
  ASSUME NEW w \in Wallets, NEW s \in Symbols, NEW a \in Units, NEW t \in Units,
         NEW fee \in FeeRates, CreatePool(w, s, a, t, fee)
  PROVE  PoolsMove /\ registry' = registry
<1>1. last'.op = "pool" /\ saved' = saved /\ registry' = registry
  BY DEF CreatePool, Accept, Refuse, Answer, Did, blockVars
<1>2. pools' = pools \/ Opens(pools, pools')
  <2>1. CASE fee <= MaxFee
    BY <2>1, FeesFit DEF CreatePool, Opens
  <2>2. CASE ~(fee <= MaxFee)
    BY <2>2 DEF CreatePool
  <2> QED  BY <2>1, <2>2
<1> QED  BY <1>1, <1>2 DEF PoolsMove

LEMMA AddLiquidityMoves ==
  ASSUME NEW w \in Wallets, NEW s, NEW a \in Units, NEW t \in Units, AddLiquidity(w, s, a, t)
  PROVE  PoolsMove /\ registry' = registry
<1>1. last'.op = "liquidity" /\ saved' = saved /\ registry' = registry
  BY DEF AddLiquidity, Accept, Refuse, Answer, Did, blockVars
<1>2. pools' = pools \/ Deepens(pools, pools')
  BY DEF AddLiquidity, Acceptable, Deepens
<1> QED  BY <1>1, <1>2 DEF PoolsMove

LEMMA TopUpMoves ==
  ASSUME NEW w \in Wallets, NEW s, NEW a \in Units, NEW t \in Units, TopUpLiquidity(w, s, a, t)
  PROVE  PoolsMove /\ registry' = registry
<1>1. last'.op = "topup" /\ saved' = saved /\ registry' = registry
  BY DEF TopUpLiquidity, MintFails, Accept, Refuse, Answer, Did, blockVars, marketVars
<1>2. pools' = pools \/ Deepens(pools, pools')
  BY DEF TopUpLiquidity, MintFails, marketVars, Acceptable, Deepens
<1> QED  BY <1>1, <1>2 DEF PoolsMove

LEMMA SwapMoves ==
  ASSUME NEW w \in Wallets, NEW s, NEW n \in Units, NEW toToken \in BOOLEAN,
         NEW minOut, NEW deadline, Swap(w, s, n, toToken, minOut, deadline)
  PROVE  PoolsMove /\ registry' = registry
<1>1. last'.op = "swap" /\ saved' = saved /\ registry' = registry
  BY DEF Swap, Accept, Refuse, Answer, Did, blockVars
<1>2. pools' = pools \/ Exchanges(pools, pools')
  BY DEF Swap, Exchanges
<1> QED  BY <1>1, <1>2 DEF PoolsMove

\* The requests that leave the pools alone.
LEMMA OthersMove ==
  ASSUME \/ PostDexMintAsset \/ PostWithWrongKey
         \/ \E by, session : \/ PostDexWrap(by, session) \/ PostDexUnwrap(by, session)
                             \/ \E wallet : PostAppActivity(wallet, by, session)
  PROVE  PoolsMove /\ registry' = registry
<1>1. CASE PostDexMintAsset
  BY <1>1 DEF PostDexMintAsset, MintTestAsset, Accept, Answer, Did, marketVars, blockVars, PoolsMove
<1>2. CASE PostWithWrongKey
  BY <1>2 DEF PostWithWrongKey, RecordActivity, Accept, Answer, Did, marketVars, blockVars, PoolsMove
<1>3. ASSUME NEW by, NEW session, PostDexWrap(by, session) PROVE PoolsMove /\ registry' = registry
  BY <1>3 DEF PostDexWrap, WrapAnet, Accept, Refuse, Answer, Did, marketVars, blockVars, PoolsMove
<1>4. ASSUME NEW by, NEW session, PostDexUnwrap(by, session) PROVE PoolsMove /\ registry' = registry
  BY <1>4 DEF PostDexUnwrap, UnwrapWanet, Accept, Refuse, Answer, Did, marketVars, blockVars, PoolsMove
<1>5. ASSUME NEW by, NEW session, NEW wallet, PostAppActivity(wallet, by, session)
      PROVE  PoolsMove /\ registry' = registry
  BY <1>5 DEF PostAppActivity, RecordActivity, Accept, Answer, Did, marketVars, blockVars, PoolsMove
<1> QED  BY <1>1, <1>2, <1>3, <1>4, <1>5

\* The requests that change the registry.
LEMMA TokensMove ==
  ASSUME NEW by \in Wallets,
         PostAnrc20Create(by) \/ PostAnrc20Mint(by) \/ PostAnrc20Transfer(by)
  PROVE  PoolsMove /\ RegistryMoves
<1>1. CASE PostAnrc20Create(by)
  <2>1. PICK s \in Symbols, n \in Units \cup {0}, mintable \in BOOLEAN :
          CreateToken(by, s, n, mintable)
    BY <1>1 DEF PostAnrc20Create
  <2>2. PoolsMove
    BY <2>1 DEF CreateToken, Accept, Answer, Did, blockVars, PoolsMove
  <2>3. n \in Nat
    BY AmountsAreNat
  <2>4. Creates(registry, registry')
    BY <2>1, <2>3 DEF CreateToken, Creates
  <2> QED  BY <2>2, <2>4 DEF RegistryMoves
<1>2. CASE PostAnrc20Mint(by)
  <2>1. PICK to \in Wallets, s \in Symbols, n \in Units : MintToken(by, to, s, n)
    BY <1>2 DEF PostAnrc20Mint
  <2>2. PoolsMove
    BY <2>1 DEF MintToken, Accept, Refuse, Answer, Did, blockVars, PoolsMove
  <2>3. n \in Nat
    BY AmountsAreNat
  <2>4. Mints(registry, registry')
    BY <2>1, <2>3 DEF MintToken, Mints
  <2> QED  BY <2>2, <2>4 DEF RegistryMoves
<1>3. CASE PostAnrc20Transfer(by)
  <2>1. PICK to \in Wallets, s \in Symbols, n \in Units : TransferToken(by, to, s, n)
    BY <1>3 DEF PostAnrc20Transfer
  <2>2. PoolsMove
    BY <2>1 DEF TransferToken, Accept, Refuse, Answer, Did, blockVars, PoolsMove
  <2>3. n \in Nat
    BY AmountsAreNat
  <2>4. CASE registry' = registry
    BY <2>2, <2>4 DEF RegistryMoves
  <2>5. CASE ~(registry' = registry)
    <3>1. /\ s \in DOMAIN registry /\ registry[s].held[by] >= n /\ by # to
          /\ registry' = [registry EXCEPT ![s].held[by] = @ - n, ![s].held[to] = @ + n]
      BY <2>1, <2>5 DEF TransferToken
    <3>2. Transfers(registry, registry')
      BY <2>3, <3>1 DEF Transfers, Transferred
    <3> QED  BY <2>2, <3>2 DEF RegistryMoves
  <2> QED  BY <2>4, <2>5
<1> QED  BY <1>1, <1>2, <1>3

LEMMA RequestsMove ==
  ASSUME AdminRequests \/ UserRequests
  PROVE  PoolsMove /\ RegistryMoves
<1> USE DEF RegistryMoves
<1>1. CASE PostGenesisBootstrap
  BY <1>1, BootstrapMoves DEF PostGenesisBootstrap
<1>2. CASE PostAdminAddLiquidity
  BY <1>2, TopUpMoves DEF PostAdminAddLiquidity
<1>3. ASSUME NEW by \in Wallets, NEW session, PostDexCreatePool(by, session)
      PROVE  PoolsMove /\ RegistryMoves
  BY <1>3, CreatePoolMoves DEF PostDexCreatePool
<1>4. ASSUME NEW by \in Wallets, NEW session, PostDexAddLiquidity(by, session)
      PROVE  PoolsMove /\ RegistryMoves
  BY <1>4, AddLiquidityMoves DEF PostDexAddLiquidity
<1>5. ASSUME NEW by \in Wallets, NEW session, PostDexSwapExecute(by, session)
      PROVE  PoolsMove /\ RegistryMoves
  BY <1>5, SwapMoves DEF PostDexSwapExecute
<1>6. ASSUME NEW by \in Wallets, PostAdminSwapExecute(by)
      PROVE  PoolsMove /\ RegistryMoves
  BY <1>6, SwapMoves DEF PostAdminSwapExecute
<1> QED
  BY <1>1, <1>2, <1>3, <1>4, <1>5, <1>6, OthersMove, TokensMove DEF AdminRequests, UserRequests

------------------------------------------------------------------------------
(***************************************************************************)
(* The books stay right.                                                   *)
(***************************************************************************)
\* A pool, or an entry of the registry, is replaced, or is new.
LEMMA PoolPut ==
  ASSUME NEW ps, PoolsBooked(ps), NEW s \in Symbols, NEW q, FullPool(q),
         NEW qs, qs = With(ps, s, q) \/ (s \in DOMAIN ps /\ qs = [ps EXCEPT ![s] = q])
  PROVE  PoolsBooked(qs)
<1>1. IsFiniteSet(DOMAIN ps \cup {s})
  BY FS_AddElement DEF PoolsBooked
<1>2. CASE qs = With(ps, s, q)
  BY <1>1, <1>2 DEF PoolsBooked, With
<1>3. CASE s \in DOMAIN ps /\ qs = [ps EXCEPT ![s] = q]
  <2>1. qs = [x \in DOMAIN ps |-> IF x = s THEN q ELSE ps[x]]
    BY <1>3 DEF PoolsBooked
  <2> QED  BY <2>1 DEF PoolsBooked
<1> QED  BY <1>2, <1>3

LEMMA TokenPut ==
  ASSUME NEW rs, TokensBooked(rs), NEW s \in Symbols, NEW r, FullToken(r),
         NEW qs, qs = With(rs, s, r) \/ (s \in DOMAIN rs /\ qs = [rs EXCEPT ![s] = r])
  PROVE  TokensBooked(qs)
<1>1. CASE qs = With(rs, s, r)
  BY <1>1 DEF TokensBooked, With
<1>2. CASE s \in DOMAIN rs /\ qs = [rs EXCEPT ![s] = r]
  <2>1. qs = [x \in DOMAIN rs |-> IF x = s THEN r ELSE rs[x]]
    BY <1>2 DEF TokensBooked
  <2> QED  BY <2>1 DEF TokensBooked
<1> QED  BY <1>1, <1>2

\* What a swap leaves of a pool.
LEMMA SwappedFull ==
  ASSUME NEW p, FullPool(p), NEW n \in Nat, NEW toToken \in BOOLEAN
  PROVE  LET out == Quote(p, n, toToken)
             q == Swapped(p, n, out, toToken)
         IN  /\ FullPool(q) /\ out \in Nat
             /\ q.anet = (IF toToken THEN p.anet + n ELSE p.anet - out)
             /\ q.token = (IF toToken THEN p.token - out ELSE p.token + n)
<1> DEFINE out == Quote(p, n, toToken)
           q == Swapped(p, n, out, toToken)
<1>1. p.anet \in Nat \ {0} /\ p.token \in Nat \ {0} /\ p.fee \in 0 .. MaxFee
  BY DEF FullPool, Pool
<1>2. CASE toToken
  <2>1. out = AmountOut(n, p.anet, p.token, p.fee)
    BY <1>2 DEF Quote
  <2>2. q = Reserves(p, p.anet + n, p.token - out)
    BY <1>2 DEF Swapped
  <2> HIDE DEF out, q
  <2>3. out \in Nat /\ out < p.token
    BY <1>1, <2>1, AmountOutBounds
  <2>4. p.anet + n \in Nat \ {0} /\ p.token - out \in Nat \ {0}
    BY <1>1, <2>3
  <2>5. FullPool(q) /\ q.anet = p.anet + n /\ q.token = p.token - out
    BY <2>2, <2>4, ReservesFull
  <2> QED  BY <1>2, <2>3, <2>5 DEF q, out
<1>3. CASE ~toToken
  <2>1. out = AmountOut(n, p.token, p.anet, p.fee)
    BY <1>3 DEF Quote
  <2>2. q = Reserves(p, p.anet - out, p.token + n)
    BY <1>3 DEF Swapped
  <2> HIDE DEF out, q
  <2>3. out \in Nat /\ out < p.anet
    BY <1>1, <2>1, AmountOutBounds
  <2>4. p.anet - out \in Nat \ {0} /\ p.token + n \in Nat \ {0}
    BY <1>1, <2>3
  <2>5. FullPool(q) /\ q.anet = p.anet - out /\ q.token = p.token + n
    BY <2>2, <2>4, ReservesFull
  <2> QED  BY <1>3, <2>3, <2>5 DEF q, out
<1> QED  BY <1>2, <1>3

LEMMA PoolsStayBooked ==
  ASSUME NEW ps, PoolsBooked(ps), NEW qs,
         qs = ps \/ Opens(ps, qs) \/ Deepens(ps, qs) \/ Exchanges(ps, qs)
  PROVE  PoolsBooked(qs)
<1>1. CASE Opens(ps, qs)
  <2>1. PICK w \in Wallets, s \in Symbols, a \in Units, t \in Units, fee \in 0 .. MaxFee :
          qs = With(ps, s, NewPool(w, a, t, fee))
    BY <1>1 DEF Opens
  <2>2. FullPool(NewPool(w, a, t, fee))
    BY UnitsPositive, NewPoolFull
  <2> QED  BY <2>1, <2>2, PoolPut
<1>2. CASE Deepens(ps, qs)
  <2>1. PICK w \in Wallets, s \in DOMAIN ps, a \in Units, t \in Units :
          qs = [ps EXCEPT ![s] = Deepened(ps[s], w, a, t)]
    BY <1>2 DEF Deepens
  <2>2. FullPool(ps[s]) /\ s \in Symbols
    BY DEF PoolsBooked
  <2>3. FullPool(Deepened(ps[s], w, a, t))
    BY <2>2, AmountsAreNat, DeepenedFull
  <2> QED  BY <2>1, <2>2, <2>3, PoolPut
<1>3. CASE Exchanges(ps, qs)
  <2>1. PICK s \in DOMAIN ps, n \in Units, toToken \in BOOLEAN :
          qs = [ps EXCEPT ![s] = Swapped(ps[s], n, Quote(ps[s], n, toToken), toToken)]
    BY <1>3 DEF Exchanges
  <2>2. FullPool(ps[s]) /\ s \in Symbols
    BY DEF PoolsBooked
  <2>3. FullPool(Swapped(ps[s], n, Quote(ps[s], n, toToken), toToken))
    BY <2>2, AmountsAreNat, SwappedFull
  <2> QED  BY <2>1, <2>2, <2>3, PoolPut
<1> QED  BY <1>1, <1>2, <1>3

\* An entry of the registry written out.
Entry(supply, owner, mintable, held) ==
  [supply |-> supply, owner |-> owner, mintable |-> mintable, held |-> held]

LEMMA EntryWritten ==
  ASSUME NEW r \in Token
  PROVE  r = Entry(r.supply, r.owner, r.mintable, r.held)
BY DEF Token, Entry

LEMMA EntryFull ==
  ASSUME NEW supply \in Nat, NEW owner \in Wallets, NEW mintable \in BOOLEAN,
         NEW held \in [Wallets -> Nat], supply = SumFunctionOnSet(held, Wallets),
         NEW r, r = Entry(supply, owner, mintable, held)
  PROVE  FullToken(r)
<1>1. r \in Token /\ r.supply = supply /\ r.held = held
  BY DEF Entry, Token
<1> QED  BY <1>1 DEF FullToken

LEMMA MintedToFull ==
  ASSUME NEW r, FullToken(r), NEW to \in Wallets, NEW n \in Nat
  PROVE  FullToken(MintedTo(r, to, n))
<1> DEFINE q == MintedTo(r, to, n)
<1>1. /\ r \in Token /\ r.supply \in Nat /\ r.owner \in Wallets /\ r.mintable \in BOOLEAN
      /\ r.held \in [Wallets -> Nat] /\ r.supply = SumFunctionOnSet(r.held, Wallets)
  BY DEF FullToken, Token
<1>2. PICK held : held = [r.held EXCEPT ![to] = @ + n]
  OBVIOUS
<1>3. q = Entry(r.supply + n, r.owner, r.mintable, held)
  <2>1. PICK k : k = [r EXCEPT !.supply = @ + n]
    OBVIOUS
  <2>2. k = Entry(r.supply + n, r.owner, r.mintable, r.held)
    BY <1>1, <2>1, EntryWritten DEF Entry
  <2>3. q = [k EXCEPT !.held = held]
    BY <1>1, <1>2, <2>1 DEF MintedTo, Token
  <2> QED  BY <2>2, <2>3 DEF Entry
<1>4. Receives(r.held, held, to, n)
  BY <1>1, <1>2 DEF Receives
<1>5. held \in [Wallets -> Nat] /\ SumFunctionOnSet(held, Wallets) = r.supply + n
  BY <1>1, <1>4, WalletReceives
<1>6. r.supply + n \in Nat
  BY <1>1
<1> HIDE DEF q
<1>7. FullToken(q)
  BY <1>1, <1>3, <1>5, <1>6, EntryFull
<1> QED  BY <1>7 DEF q

LEMMA TransfersFull ==
  ASSUME NEW rs, TokensBooked(rs), NEW s \in DOMAIN rs, NEW w \in Wallets, NEW to \in Wallets,
         NEW n \in Nat, NEW qs, Transferred(rs, qs, s, w, to, n)
  PROVE  TokensBooked(qs)
<1> DEFINE r == rs[s]
<1>0. FullToken(r) /\ s \in Symbols
  BY DEF TokensBooked
<1>1. /\ r \in Token /\ r.supply \in Nat /\ r.owner \in Wallets /\ r.mintable \in BOOLEAN
      /\ r.held \in [Wallets -> Nat] /\ r.supply = SumFunctionOnSet(r.held, Wallets)
  BY <1>0 DEF FullToken, Token
<1>2. PICK held : held = [r.held EXCEPT ![w] = @ - n, ![to] = @ + n]
  OBVIOUS
<1>3. PICK q : q = [r EXCEPT !.held = held]
  OBVIOUS
<1>4. q = Entry(r.supply, r.owner, r.mintable, held)
  BY <1>1, <1>3, EntryWritten DEF Entry
<1>5. Gives(r.held, held, w, to, n)
  BY <1>1, <1>2 DEF Gives, Transferred
<1>6. held \in [Wallets -> Nat] /\ SumFunctionOnSet(held, Wallets) = r.supply
  BY <1>1, <1>5, WalletGives
<1>7. FullToken(q)
  BY <1>1, <1>4, <1>6, EntryFull
<1>8. qs = [rs EXCEPT ![s] = q]
  BY <1>1, <1>2, <1>3 DEF Token, Transferred
<1> QED  BY <1>0, <1>7, <1>8, TokenPut

LEMMA TokensStayBooked ==
  ASSUME NEW rs, TokensBooked(rs), NEW qs,
         qs = rs \/ Creates(rs, qs) \/ Mints(rs, qs) \/ Transfers(rs, qs)
  PROVE  TokensBooked(qs)
<1>1. CASE Creates(rs, qs)
  <2>1. PICK w \in Wallets, s \in Symbols, n \in Nat, mintable \in BOOLEAN :
          qs = With(rs, s, [supply |-> n, owner |-> w, mintable |-> mintable,
                            held |-> [x \in Wallets |-> IF x = w THEN n ELSE 0]])
    BY <1>1 DEF Creates
  <2>2. PICK held : held = [x \in Wallets |-> IF x = w THEN n ELSE 0]
    OBVIOUS
  <2>3. held \in [Wallets -> Nat] /\ SumFunctionOnSet(held, Wallets) = n
    BY <2>2, WalletOnly
  <2>4. FullToken(Entry(n, w, mintable, held))
    BY <2>3, EntryFull
  <2>5. qs = With(rs, s, Entry(n, w, mintable, held))
    BY <2>1, <2>2 DEF Entry
  <2> QED  BY <2>4, <2>5, TokenPut
<1>2. CASE Mints(rs, qs)
  <2>1. PICK s \in DOMAIN rs, to \in Wallets, n \in Nat :
          qs = [rs EXCEPT ![s] = MintedTo(rs[s], to, n)]
    BY <1>2 DEF Mints
  <2>2. FullToken(rs[s]) /\ s \in Symbols
    BY DEF TokensBooked
  <2>3. FullToken(MintedTo(rs[s], to, n))
    BY <2>2, MintedToFull
  <2> QED  BY <2>1, <2>2, <2>3, TokenPut
<1>3. CASE Transfers(rs, qs)
  BY <1>3, TransfersFull DEF Transfers
<1> QED  BY <1>1, <1>2, <1>3

\* What is stored was open when it was stored, and pools are never closed.
StoredIsOpen == DOMAIN saved.pools \subseteq DOMAIN pools

PoolsStayOpen(ps, qs) == DOMAIN ps \subseteq DOMAIN qs

LEMMA MovesStayOpen ==
  ASSUME NEW ps, NEW qs,
         qs = ps \/ Opens(ps, qs) \/ Deepens(ps, qs) \/ Exchanges(ps, qs)
  PROVE  PoolsStayOpen(ps, qs)
<1>1. CASE Opens(ps, qs)
  BY <1>1 DEF Opens, With, PoolsStayOpen
<1>2. CASE Deepens(ps, qs)
  BY <1>2 DEF Deepens, PoolsStayOpen
<1>3. CASE Exchanges(ps, qs)
  BY <1>3 DEF Exchanges, PoolsStayOpen
<1> QED  BY <1>1, <1>2, <1>3 DEF PoolsStayOpen

LEMMA BooksInit ==
  ASSUME Init
  PROVE  BooksInv /\ StoredIsOpen
<1>1. PoolsBooked(Empty) /\ TokensBooked(Empty)
  BY FS_EmptySet DEF PoolsBooked, TokensBooked, Empty
<1> QED  BY <1>1 DEF Init, BooksInv, StoredIsOpen

LEMMA BooksStep ==
  ASSUME BooksInv /\ StoredIsOpen, [Next]_vars
  PROVE  (BooksInv /\ StoredIsOpen)'
<1> USE DEF BooksInv, StoredIsOpen
<1>1. CASE AdminRequests \/ UserRequests
  <2>1. PoolsMove /\ RegistryMoves
    BY <1>1, RequestsMove
  <2>2. PoolsBooked(pools') /\ PoolsStayOpen(pools, pools') /\ saved' = saved
    BY <2>1, PoolsStayBooked, MovesStayOpen DEF PoolsMove
  <2>3. TokensBooked(registry')
    BY <2>1, TokensStayBooked DEF RegistryMoves
  <2> QED  BY <2>2, <2>3 DEF PoolsStayOpen
<1>2. CASE Seal
  BY <1>2 DEF Seal, Snapshot, marketVars
<1>3. CASE Restart
  BY <1>3 DEF Restart, blockVars
<1>4. CASE UNCHANGED vars
  BY <1>4 DEF vars
<1> QED  BY <1>1, <1>2, <1>3, <1>4 DEF Next

\* Every pool and every entry of the registry, live or stored, adds up.
THEOREM BooksStayRight == Spec => [](BooksInv /\ StoredIsOpen)
<1> DEFINE I == BooksInv /\ StoredIsOpen
<1>1. Init => I
  BY BooksInit
<1>2. I /\ [Next]_vars => I'
  BY BooksStep
<1> HIDE DEF I
<1>3. Spec => []I
  BY <1>1, <1>2, PTL DEF Spec
<1> QED  BY <1>3 DEF I

\* dex_create_pool mints at least one share, dex_add_liquidity and anrc20_mint
\* add to the total what they add to a wallet, and anrc20_transfer adds to one
\* what it takes from another, wherever a request stops.
THEOREM BooksAlwaysAddUp == Spec => []BooksAddUp
<1>1. BooksInv => BooksAddUp
  BY DEF BooksInv, PoolsBooked, TokensBooked, FullPool, FullToken, BooksAddUp,
         SharesAddUp, RegistryAddsUp
<1> QED  BY <1>1, BooksStayRight, PTL

------------------------------------------------------------------------------
(***************************************************************************)
(* Shares.                                                                 *)
(***************************************************************************)
LEMMA NewSharesAreRoot ==
  ASSUME NEW w, NEW a \in Units, NEW t \in Units, NEW fee, NEW p, p = NewPool(w, a, t, fee)
  PROVE  p.lp * p.lp <= Product(p) /\ Product(p) < (p.lp + 1) * (p.lp + 1)
<1>1. a * t \in Nat
  BY AmountsAreNat
<1>2. p.lp = Newton(a * t) /\ Product(p) = a * t
  BY DEF NewPool, InitialShares, Product
<1> QED  BY <1>1, <1>2, NewtonIsRoot

\* integer_sqrt's loop stops at the root: a pool opens with as many shares as
\* the geometric mean of its reserves, rounded down, whatever the amounts.
THEOREM OpeningSharesAreRoot == Spec => SharesAreRoot
<1> DEFINE I == BooksInv /\ StoredIsOpen
           Goal == \A s \in DOMAIN pools' \ DOMAIN pools :
                     LET p == pools'[s]
                     IN  p.lp * p.lp <= Product(p) /\ Product(p) < (p.lp + 1) * (p.lp + 1)
<1>1. I /\ [Next]_vars => [Goal]_vars
  <2> SUFFICES ASSUME I, Next PROVE Goal
    OBVIOUS
  <2>1. CASE AdminRequests \/ UserRequests
    <3>1. PoolsMove
      BY <2>1, RequestsMove
    <3>2. CASE Opens(pools, pools')
      <4>1. PICK w \in Wallets, s \in Symbols, a \in Units, t \in Units, fee \in 0 .. MaxFee :
              pools' = With(pools, s, NewPool(w, a, t, fee))
        BY <3>2 DEF Opens
      <4>2. PICK p : p = NewPool(w, a, t, fee)
        OBVIOUS
      <4>3. p.lp * p.lp <= Product(p) /\ Product(p) < (p.lp + 1) * (p.lp + 1)
        BY <4>2, NewSharesAreRoot
      <4>4. \A x \in DOMAIN pools' \ DOMAIN pools : pools'[x] = p
        BY <4>1, <4>2 DEF With
      <4> QED  BY <4>3, <4>4
    <3>3. CASE ~Opens(pools, pools')
      <4>1. DOMAIN pools' = DOMAIN pools
        BY <3>1, <3>3 DEF PoolsMove, Deepens, Exchanges
      <4> QED  BY <4>1
    <3> QED  BY <3>2, <3>3
  <2>2. CASE Seal
    BY <2>2 DEF Seal, marketVars
  <2>3. CASE Restart
    BY <2>3 DEF Restart, StoredIsOpen
  <2> QED  BY <2>1, <2>2, <2>3 DEF Next
<1>2. Spec => []I
  BY BooksStayRight
<1> HIDE DEF I, Goal
<1>3. Spec => [][Goal]_vars
  BY <1>1, <1>2, PTL DEF Spec
<1> QED  BY <1>3 DEF SharesAreRoot, Goal

\* The arithmetic of a deposit: m is what is minted for a, and t the token that
\* comes with it, k what the ratio asks for.
LEMMA DepositFair ==
  ASSUME NEW anet \in Nat \ {0}, NEW token \in Nat \ {0}, NEW lp \in Nat \ {0},
         NEW a \in Nat, NEW t \in Nat, NEW m \in Nat, NEW k \in Nat,
         m * anet <= a * lp, a * token < (k + 1) * anet, k <= t + 1
  PROVE  /\ (anet + a) * lp >= anet * (lp + m)
         /\ (t + 2) * lp > token * m
<1>1. /\ (anet + a) * lp = anet * lp + a * lp
      /\ anet * (lp + m) = anet * lp + m * anet
      /\ anet * lp \in Nat /\ a * lp \in Nat /\ m * anet \in Nat
  OBVIOUS
<1>2. (anet + a) * lp >= anet * (lp + m)
  BY <1>1
<1>3. (k + 1) * anet <= (t + 2) * anet
  OBVIOUS
<1> DEFINE c == t + 2
<1>4. a * token < c * anet
  <2>1. a * token \in Nat /\ (k + 1) * anet \in Nat /\ (t + 2) * anet \in Nat
    OBVIOUS
  <2> QED  BY <1>3, <2>1
<1>5. c \in Nat
  OBVIOUS
<1> HIDE DEF c
<1>6. ASSUME c * lp <= token * m PROVE FALSE
  <2>1. (c * lp) * anet <= (token * m) * anet
    <3>1. ASSUME NEW x \in Nat, NEW y \in Nat, x <= y PROVE x * anet <= y * anet
      BY <3>1, SMTT(30)
    <3>2. c * lp \in Nat /\ token * m \in Nat
      BY <1>5
    <3> QED  BY <1>6, <3>1, <3>2
  <2>2. (token * m) * anet <= (a * token) * lp
    <3>1. ASSUME NEW x \in Nat, NEW y \in Nat, x <= y PROVE token * x <= token * y
      BY <3>1, SMTT(30)
    <3>2. token * (m * anet) <= token * (a * lp)
      BY <1>1, <3>1
    <3>3. token * (m * anet) = (token * m) * anet /\ token * (a * lp) = (a * token) * lp
      OBVIOUS
    <3> QED  BY <3>2, <3>3
  <2>3. (a * token) * lp < (c * anet) * lp
    <3>1. ASSUME NEW x \in Nat, NEW y \in Nat, x < y PROVE x * lp < y * lp
      BY <3>1, SMTT(30)
    <3>2. a * token \in Nat /\ c * anet \in Nat
      BY <1>5
    <3> QED  BY <1>4, <3>1, <3>2
  <2>4. (c * anet) * lp = (c * lp) * anet
    BY <1>5
  <2>5. /\ (c * lp) * anet \in Nat /\ (token * m) * anet \in Nat
        /\ (a * token) * lp \in Nat /\ (c * anet) * lp \in Nat
    BY <1>5
  <2> QED  BY <2>1, <2>2, <2>3, <2>4, <2>5
<1>7. c * lp \in Nat /\ token * m \in Nat
  BY <1>5
<1>8. c * lp > token * m
  BY <1>6, <1>7
<1> QED  BY <1>2, <1>8 DEF c

\* What a provider gets for a deposit never thins the shares of the others: the
\* shares minted are rounded down, and the check of the ratio bounds what is
\* lost of the token, by less than two units for all the shares together.
THEOREM DepositsKeepShares == Spec => ShareKept
<1> DEFINE I == BooksInv /\ StoredIsOpen
           Fair(p, q) == /\ q.anet * p.lp >= p.anet * q.lp
                         /\ (q.token - p.token + 2) * p.lp > p.token * (q.lp - p.lp)
           Goal == last'.op \in {"liquidity", "topup"} =>
                     \A s \in DOMAIN pools :
                       LET p == pools[s]
                           q == pools'[s]
                       IN  /\ q.anet * p.lp >= p.anet * q.lp
                           /\ (q.token - p.token + 2) * p.lp > p.token * (q.lp - p.lp)
<1>1. ASSUME NEW p, FullPool(p) PROVE Fair(p, p)
  <2>1. p.anet \in Nat /\ p.token \in Nat /\ p.lp \in Nat \ {0}
    BY <1>1 DEF FullPool, Pool
  <2>2. p.token - p.token + 2 = 2 /\ p.lp - p.lp = 0
    BY <2>1
  <2>3. p.anet * p.lp \in Nat /\ 2 * p.lp > 0 /\ p.token * 0 = 0
    BY <2>1
  <2> QED  BY <2>2, <2>3
<1>2. ASSUME NEW p, FullPool(p), NEW w \in Wallets, NEW a \in Units, NEW t \in Units,
             InRatio(p, a, t), NEW q, q = Deepened(p, w, a, t)
      PROVE  Fair(p, q)
  <2> DEFINE m == Minted(p, a)
             k == (a * p.token) \div p.anet
  <2>1. p.anet \in Nat \ {0} /\ p.token \in Nat \ {0} /\ p.lp \in Nat \ {0}
    BY <1>2 DEF FullPool, Pool
  <2>2. a \in Nat /\ t \in Nat
    BY AmountsAreNat
  <2>3. /\ q.anet = p.anet + a /\ q.token = p.token + t /\ q.lp = p.lp + m /\ m \in Nat
    BY <1>2, <2>2, DeepenedFull
  <2>4. m * p.anet <= a * p.lp
    <3>1. a * p.lp \in Nat
      BY <2>1, <2>2
    <3> QED  BY <2>1, <3>1, DivFloor DEF Minted
  <2>5. k \in Nat /\ a * p.token < (k + 1) * p.anet
    <3>1. a * p.token \in Nat
      BY <2>1, <2>2
    <3> QED  BY <2>1, <3>1, DivFloor
  <2>6. k <= t + 1
    <3>1. k \in (t - 1) .. (t + 1)
      BY <1>2 DEF InRatio
    <3> HIDE DEF k
    <3> QED  BY <2>2, <2>5, <3>1
  <2> HIDE DEF m, k
  <2>7. (p.anet + a) * p.lp >= p.anet * (p.lp + m) /\ (t + 2) * p.lp > p.token * m
    BY <2>1, <2>2, <2>3, <2>4, <2>5, <2>6, DepositFair
  <2>8. q.token - p.token + 2 = t + 2 /\ q.lp - p.lp = m
    BY <2>1, <2>2, <2>3
  <2> QED  BY <2>3, <2>7, <2>8
<1>3. I /\ [Next]_vars => [Goal]_vars
  <2> SUFFICES ASSUME I, Next, last'.op \in {"liquidity", "topup"}, NEW s \in DOMAIN pools
               PROVE  Fair(pools[s], pools'[s])
    OBVIOUS
  <2>1. FullPool(pools[s])
    BY DEF BooksInv, PoolsBooked
  <2> HIDE DEF Fair
  <2>2. CASE AdminRequests \/ UserRequests
    <3>1. pools' = pools \/ Deepens(pools, pools')
      BY <2>2, RequestsMove DEF PoolsMove
    <3>2. CASE pools' = pools
      BY <1>1, <2>1, <3>2
    <3>3. CASE Deepens(pools, pools')
      <4>1. PICK w \in Wallets, x \in DOMAIN pools, a \in Units, t \in Units :
              /\ InRatio(pools[x], a, t)
              /\ pools' = [pools EXCEPT ![x] = Deepened(pools[x], w, a, t)]
        BY <3>3 DEF Deepens
      <4>2. CASE x = s
        BY <1>2, <2>1, <4>1, <4>2
      <4>3. CASE x # s
        BY <1>1, <2>1, <4>1, <4>3
      <4> QED  BY <4>2, <4>3
    <3> QED  BY <3>1, <3>2, <3>3
  <2>3. CASE Seal
    BY <2>3 DEF Seal, Did
  <2>4. CASE Restart
    BY <2>4 DEF Restart, Did
  <2> QED  BY <2>2, <2>3, <2>4 DEF Next
<1>4. Spec => []I
  BY BooksStayRight
<1> HIDE DEF I, Goal
<1>5. Spec => [][Goal]_vars
  BY <1>3, <1>4, PTL DEF Spec
<1> QED  BY <1>5 DEF ShareKept, Goal

------------------------------------------------------------------------------
(***************************************************************************)
(* The accounts: what a request may do to them, and who signed it.         *)
(***************************************************************************)
Balance == 0 .. MaxUnits

AccountsOK ==
  ants \in [Wallets -> Balance] /\ assets \in [Wallets -> [Symbols -> Balance]]

\* One balance goes up, within u64, or one of by's goes down, as far as it has it.
AntsMove(by) ==
  \/ ants' = ants
  \/ \E w \in Wallets, n \in Nat : Fits(ants[w], n) /\ ants' = [ants EXCEPT ![w] = @ + n]
  \/ \E n \in Nat : by \in Wallets /\ n <= ants[by] /\ ants' = [ants EXCEPT ![by] = @ - n]

AssetsMove(by) ==
  \/ assets' = assets
  \/ \E w \in Wallets, s \in Symbols, n \in Nat :
       Fits(assets[w][s], n) /\ assets' = [assets EXCEPT ![w][s] = @ + n]
  \/ \E s \in Symbols, n \in Nat :
       by \in Wallets /\ n <= assets[by][s] /\ assets' = [assets EXCEPT ![by][s] = @ - n]
  \/ \E to \in Wallets, s \in Symbols, n \in Nat :
       /\ by \in Wallets /\ to # by
       /\ n <= assets[by][s] /\ Fits(assets[to][s], n)
       /\ assets' = [assets EXCEPT ![by][s] = @ - n, ![to][s] = @ + n]

RestMoves ==
  /\ members' \subseteq members \cup Wallets
  /\ height' = height /\ requests' = requests + 1
  /\ pending' = pending \/ pending' = TRUE

Moves(by) == AntsMove(by) /\ AssetsMove(by) /\ RestMoves

\* The answers count the request.
LEMMA AnswerCounts ==
  ASSUME NEW op, Accept(op) \/ Refuse(op)
  PROVE  /\ requests' = requests + 1
         /\ pending' = pending \/ pending' = TRUE
BY DEF Accept, Refuse, Answer

LEMMA MintFailsMoves ==
  ASSUME NEW op, NEW w \in Wallets, NEW s, NEW a \in Units, NEW t,
         MintFails(op, w, s, a, t), NEW by
  PROVE  Moves(by)
<1>1. RestMoves /\ assets' = assets
  BY AnswerCounts DEF MintFails, RestMoves, blockVars
<1>2. AntsMove(by)
  BY AmountsAreNat DEF MintFails, AntsMove
<1> QED  BY <1>1, <1>2 DEF Moves, AssetsMove

LEMMA GenesisBootstrapPays ==
  ASSUME NEW w \in Wallets, NEW s, NEW a \in Units, NEW t \in Units, NEW fee,
         GenesisBootstrap(w, s, a, t, fee), NEW by
  PROVE  Moves(by)
<1>1. CASE MintFails("bootstrap", w, s, a, t)
  BY <1>1, MintFailsMoves
<1>2. CASE /\ MintedAndSpent(w, s, a, t)
           /\ Accept("bootstrap") \/ Refuse("bootstrap")
           /\ UNCHANGED <<registry, blockVars>>
  <2>1. ants' = ants /\ assets' = assets
    BY <1>2 DEF MintedAndSpent
  <2>2. RestMoves
    BY <1>2, AnswerCounts DEF MintedAndSpent, RestMoves, blockVars
  <2> QED  BY <2>1, <2>2 DEF Moves, AntsMove, AssetsMove
<1> QED  BY <1>1, <1>2 DEF GenesisBootstrap

LEMMA TopUpLiquidityPays ==
  ASSUME NEW w \in Wallets, NEW s \in Symbols, NEW a \in Units, NEW t \in Units,
         TopUpLiquidity(w, s, a, t), NEW by
  PROVE  Moves(by)
<1>1. CASE MintFails("topup", w, s, a, t)
  BY <1>1, MintFailsMoves
<1>2. CASE MintedAndSpent(w, s, a, t) /\ Accept("topup") /\ UNCHANGED <<registry, blockVars>>
  <2>1. ants' = ants /\ assets' = assets
    BY <1>2 DEF MintedAndSpent
  <2>2. RestMoves
    BY <1>2, AnswerCounts DEF MintedAndSpent, RestMoves, blockVars
  <2> QED  BY <2>1, <2>2 DEF Moves, AntsMove, AssetsMove
<1>3. CASE /\ Fits(ants[w], a) /\ Fits(assets[w][s], t)
           /\ members' = members \cup {w}
           /\ ants' = [ants EXCEPT ![w] = @ + a]
           /\ CreditAsset(w, s, t)
           /\ Refuse("topup")
           /\ UNCHANGED <<activated, marketVars, blockVars>>
  <2>1. AntsMove(by) /\ AssetsMove(by)
    BY <1>3, AmountsAreNat DEF AntsMove, AssetsMove, CreditAsset
  <2>2. RestMoves
    BY <1>3, AnswerCounts DEF RestMoves, blockVars
  <2> QED  BY <2>1, <2>2 DEF Moves
<1> QED  BY <1>1, <1>2, <1>3 DEF TopUpLiquidity

LEMMA MintTestAssetPays ==
  ASSUME NEW w \in Wallets, NEW s \in Symbols, NEW n \in Units, MintTestAsset(w, s, n), NEW by
  PROVE  Moves(by)
BY AmountsAreNat, AnswerCounts
   DEF MintTestAsset, CreditAsset, Moves, AntsMove, AssetsMove, RestMoves, blockVars

LEMMA DebitPays ==
  ASSUME NEW w \in Wallets, NEW n \in Nat, DebitAnet(w, n)
  PROVE  AntsMove(w)
BY DEF DebitAnet, AntsMove

LEMMA DebitAssetPays ==
  ASSUME NEW w \in Wallets, NEW s \in Symbols, NEW n \in Nat, n <= assets[w][s], DebitAsset(w, s, n)
  PROVE  AssetsMove(w)
BY DEF DebitAsset, AssetsMove

LEMMA CreatePoolPays ==
  ASSUME AccountsOK, NEW w \in Wallets, NEW s \in Symbols, NEW a \in Units, NEW t \in Units,
         NEW fee, CreatePool(w, s, a, t, fee)
  PROVE  Moves(w)
<1>0. a \in Nat /\ t \in Nat
  BY AmountsAreNat
<1>1. AntsMove(w)
  BY <1>0, DebitPays DEF CreatePool
<1>2. AssetsMove(w)
  <2>1. CASE assets' = assets
    BY <2>1 DEF AssetsMove
  <2>2. CASE assets[w][s] >= t /\ DebitAsset(w, s, t)
    BY <1>0, <2>2, DebitAssetPays
  <2> QED  BY <2>1, <2>2 DEF CreatePool
<1>3. RestMoves
  BY AnswerCounts DEF CreatePool, RestMoves, blockVars
<1> QED  BY <1>1, <1>2, <1>3 DEF Moves

LEMMA WrapAnetPays ==
  ASSUME NEW w \in Wallets, NEW n \in Units, WrapAnet(w, n)
  PROVE  Moves(w)
<1>0. n \in Nat /\ Wanet \in Symbols
  BY AmountsAreNat, NativeDexAssumption
<1>1. AntsMove(w)
  BY <1>0, DebitPays DEF WrapAnet
<1>2. AssetsMove(w)
  BY <1>0 DEF WrapAnet, CreditAsset, AssetsMove
<1>3. RestMoves
  BY AnswerCounts DEF WrapAnet, RestMoves, blockVars
<1> QED  BY <1>1, <1>2, <1>3 DEF Moves

LEMMA UnwrapWanetPays ==
  ASSUME NEW w \in Wallets, NEW n \in Units, UnwrapWanet(w, n)
  PROVE  Moves(w)
<1>0. n \in Nat /\ Wanet \in Symbols
  BY AmountsAreNat, NativeDexAssumption
<1>1. AntsMove(w)
  BY <1>0 DEF UnwrapWanet, AntsMove
<1>2. AssetsMove(w)
  BY <1>0 DEF UnwrapWanet, DebitAsset, AssetsMove
<1>3. RestMoves
  BY AnswerCounts DEF UnwrapWanet, RestMoves, blockVars
<1> QED  BY <1>1, <1>2, <1>3 DEF Moves

LEMMA AddLiquidityPays ==
  ASSUME AccountsOK, NEW w \in Wallets, NEW s \in Symbols, NEW a \in Units, NEW t \in Units,
         AddLiquidity(w, s, a, t)
  PROVE  Moves(w)
<1>0. a \in Nat /\ t \in Nat
  BY AmountsAreNat
<1>1. AntsMove(w)
  BY <1>0, DebitPays DEF AddLiquidity
<1>2. AssetsMove(w)
  <2>1. CASE assets' = assets
    BY <2>1 DEF AssetsMove
  <2>2. CASE assets[w][s] >= t /\ DebitAsset(w, s, t)
    BY <1>0, <2>2, DebitAssetPays
  <2> QED  BY <2>1, <2>2 DEF AddLiquidity
<1>3. RestMoves
  BY AnswerCounts DEF AddLiquidity, RestMoves, blockVars
<1> QED  BY <1>1, <1>2, <1>3 DEF Moves

LEMMA SwapPays ==
  ASSUME BooksInv, NEW w \in Wallets, NEW s \in Symbols, NEW n \in Units, NEW toToken \in BOOLEAN,
         NEW minOut, NEW deadline, Swap(w, s, n, toToken, minOut, deadline)
  PROVE  Moves(w)
<1> DEFINE out == Quote(pools[s], n, toToken)
<1>0. n \in Nat /\ FullPool(pools[s])
  BY AmountsAreNat DEF Swap, BooksInv, PoolsBooked
<1>1. out \in Nat
  BY <1>0, SwappedFull
<1>2. PICK paid \in BOOLEAN : Traded(w, s, n, out, toToken, paid)
  BY DEF Swap
<1>3. RestMoves
  BY AnswerCounts DEF Swap, RestMoves, blockVars
<1> HIDE DEF out
<1>4. CASE toToken
  <2>1. AntsMove(w)
    BY <1>0, <1>2, <1>4, DebitPays DEF Traded
  <2>2. AssetsMove(w)
    BY <1>1, <1>2, <1>4 DEF Traded, CreditAsset, AssetsMove
  <2> QED  BY <1>3, <2>1, <2>2 DEF Moves
<1>5. CASE ~toToken
  <2>1. AntsMove(w)
    BY <1>1, <1>2, <1>5 DEF Traded, AntsMove
  <2>2. AssetsMove(w)
    BY <1>0, <1>2, <1>5 DEF Traded, DebitAsset, AssetsMove
  <2> QED  BY <1>3, <2>1, <2>2 DEF Moves
<1> QED  BY <1>4, <1>5

LEMMA CreateTokenPays ==
  ASSUME NEW w \in Wallets, NEW s \in Symbols, NEW n \in Nat, NEW mintable,
         CreateToken(w, s, n, mintable)
  PROVE  Moves(w)
BY AnswerCounts
   DEF CreateToken, CreditAsset, Moves, AntsMove, AssetsMove, RestMoves, blockVars

LEMMA MintTokenPays ==
  ASSUME NEW w \in Wallets, NEW to \in Wallets, NEW s \in Symbols, NEW n \in Nat,
         MintToken(w, to, s, n)
  PROVE  Moves(w)
BY AnswerCounts
   DEF MintToken, CreditAsset, Moves, AntsMove, AssetsMove, RestMoves, blockVars

LEMMA TransferTokenPays ==
  ASSUME AccountsOK, NEW w \in Wallets, NEW to \in Wallets, NEW s \in Symbols, NEW n \in Nat,
         TransferToken(w, to, s, n)
  PROVE  Moves(w)
<1>1. AssetsMove(w)
  <2>1. w # to /\ n <= assets[w][s]
    <3>1. assets[w][s] \in Nat
      BY DEF AccountsOK, Balance
    <3> QED  BY <3>1 DEF TransferToken
  <2>2. CASE DebitAsset(w, s, n)
    BY <2>1, <2>2, DebitAssetPays
  <2>3. CASE Fits(assets[to][s], n) /\ MoveAsset(w, to, s, n)
    BY <2>1, <2>3 DEF MoveAsset, AssetsMove
  <2> QED  BY <2>2, <2>3 DEF TransferToken
<1>2. RestMoves
  BY AnswerCounts DEF TransferToken, RestMoves, blockVars
<1>3. ants' = ants
  BY DEF TransferToken
<1> QED  BY <1>1, <1>2, <1>3 DEF Moves, AntsMove

LEMMA ActivityMoves ==
  ASSUME NEW op, RecordActivity(op), NEW by
  PROVE  Moves(by)
BY AnswerCounts
   DEF RecordActivity, Moves, AntsMove, AssetsMove, RestMoves, accountVars, blockVars

\* Whoever's balances a request lowers has signed it.
SignedMoves == \E by : (by \in Wallets => signer' = by) /\ Moves(by)

Signers == Wallets \cup {Admin, NoSession}

LEMMA SignedMovesBy ==
  ASSUME NEW by, by \in Wallets => signer' = by, Moves(by)
  PROVE  SignedMoves
BY DEF SignedMoves

LEMMA AdminRequestsPay ==
  ASSUME AdminRequests
  PROVE  SignedMoves /\ signer' \in Signers
<1>0. NoSession \notin Wallets
  BY NativeDexAssumption
<1>1. Moves(NoSession)
  BY MintTestAssetPays, GenesisBootstrapPays, TopUpLiquidityPays, ActivityMoves
     DEF AdminRequests, PostDexMintAsset, PostGenesisBootstrap, PostAdminAddLiquidity,
         PostWithWrongKey
<1>2. signer' \in Signers
  BY DEF AdminRequests, PostDexMintAsset, PostGenesisBootstrap, PostAdminAddLiquidity,
         PostWithWrongKey, AdminMayMint, ByAdmin, Signers
<1> QED  BY <1>0, <1>1, <1>2 DEF SignedMoves

LEMMA WalletRequestsPay ==
  ASSUME AccountsOK, BooksInv, NEW by \in Wallets, NEW session,
         \/ PostDexCreatePool(by, session)
         \/ PostDexWrap(by, session) \/ PostDexUnwrap(by, session)
         \/ PostDexAddLiquidity(by, session) \/ PostDexSwapExecute(by, session)
         \/ \E wallet \in Wallets \cup {NoSession} : PostAppActivity(wallet, by, session)
  PROVE  SignedMoves /\ signer' \in Signers
<1> SUFFICES signer' = by /\ Moves(by)
  BY DEF SignedMoves, Signers
<1>1. CASE PostDexCreatePool(by, session)
  BY <1>1, CreatePoolPays DEF PostDexCreatePool, Authorised, SignedBy
<1>2. CASE PostDexWrap(by, session)
  BY <1>2, WrapAnetPays DEF PostDexWrap, Authorised, SignedBy
<1>3. CASE PostDexUnwrap(by, session)
  BY <1>3, UnwrapWanetPays DEF PostDexUnwrap, Authorised, SignedBy
<1>4. CASE PostDexAddLiquidity(by, session)
  BY <1>4, AddLiquidityPays DEF PostDexAddLiquidity, Authorised, SignedBy
<1>5. CASE PostDexSwapExecute(by, session)
  BY <1>5, SwapPays DEF PostDexSwapExecute, Authorised, SignedBy
<1>6. CASE \E wallet \in Wallets \cup {NoSession} : PostAppActivity(wallet, by, session)
  BY <1>6, ActivityMoves DEF PostAppActivity
<1> QED  BY <1>1, <1>2, <1>3, <1>4, <1>5, <1>6

LEMMA SignedRequestsPay ==
  ASSUME AccountsOK, BooksInv, NEW by \in Wallets,
         \/ PostAdminSwapExecute(by)
         \/ PostAnrc20Create(by) \/ PostAnrc20Mint(by) \/ PostAnrc20Transfer(by)
  PROVE  SignedMoves /\ signer' \in Signers
<1> SUFFICES signer' = by /\ Moves(by)
  BY DEF SignedMoves, Signers
<1>1. CASE PostAdminSwapExecute(by)
  BY <1>1, SwapPays DEF PostAdminSwapExecute, SignedBy
<1>2. CASE PostAnrc20Create(by)
  BY <1>2, CreateTokenPays, AmountsAreNat DEF PostAnrc20Create
<1>3. CASE PostAnrc20Mint(by)
  BY <1>3, MintTokenPays, AmountsAreNat DEF PostAnrc20Mint
<1>4. CASE PostAnrc20Transfer(by)
  BY <1>4, TransferTokenPays, AmountsAreNat DEF PostAnrc20Transfer
<1> QED  BY <1>1, <1>2, <1>3, <1>4

LEMMA RequestsPay ==
  ASSUME AccountsOK, BooksInv, AdminRequests \/ UserRequests
  PROVE  SignedMoves /\ signer' \in Signers
BY AdminRequestsPay, WalletRequestsPay, SignedRequestsPay DEF UserRequests

LEMMA MovesKeepAccounts ==
  ASSUME AccountsOK, NEW by, Moves(by)
  PROVE  AccountsOK'
<1>1. ants' \in [Wallets -> Balance]
  BY NativeDexAssumption DEF AccountsOK, Moves, AntsMove, Fits, Balance
<1>2. assets' \in [Wallets -> [Symbols -> Balance]]
  <2>0. assets \in [Wallets -> [Symbols -> Balance]]
    BY DEF AccountsOK
  <2>1. CASE assets' = assets
    BY <2>0, <2>1
  <2>2. ASSUME NEW w \in Wallets, NEW s \in Symbols, NEW n \in Nat,
               Fits(assets[w][s], n), assets' = [assets EXCEPT ![w][s] = @ + n]
        PROVE  assets' \in [Wallets -> [Symbols -> Balance]]
    BY <2>0, <2>2, NativeDexAssumption DEF Fits, Balance
  <2>3. ASSUME NEW w \in Wallets, NEW s \in Symbols, NEW n \in Nat,
               n <= assets[w][s], assets' = [assets EXCEPT ![w][s] = @ - n]
        PROVE  assets' \in [Wallets -> [Symbols -> Balance]]
    BY <2>0, <2>3, NativeDexAssumption DEF Balance
  <2>4. ASSUME NEW w \in Wallets, NEW to \in Wallets, to # w, NEW s \in Symbols, NEW n \in Nat,
               n <= assets[w][s], Fits(assets[to][s], n),
               assets' = [assets EXCEPT ![w][s] = @ - n, ![to][s] = @ + n]
        PROVE  assets' \in [Wallets -> [Symbols -> Balance]]
    <3>1. PICK b : b = [assets EXCEPT ![w][s] = @ - n]
      OBVIOUS
    <3>2. b \in [Wallets -> [Symbols -> Balance]] /\ b[to] = assets[to]
      BY <2>0, <2>4, <3>1, NativeDexAssumption DEF Balance
    <3>3. assets' = [b EXCEPT ![to][s] = @ + n]
      BY <2>0, <2>4, <3>1
    <3>4. Fits(b[to][s], n)
      BY <2>4, <3>2
    <3> QED  BY <3>2, <3>3, <3>4, NativeDexAssumption DEF Fits, Balance
  <2> QED  BY <2>1, <2>2, <2>3, <2>4 DEF Moves, AssetsMove
<1> QED  BY <1>1, <1>2 DEF AccountsOK, Balance

\* What a balance has lost, by signed.
LEMMA MovesLower ==
  ASSUME AccountsOK, NEW by, Moves(by), NEW w \in Wallets,
         ants'[w] < ants[w] \/ (\E s \in Symbols : assets'[w][s] < assets[w][s])
  PROVE  w = by
<1>1. CASE ants'[w] < ants[w]
  <2>1. ants \in [Wallets -> Nat]
    BY DEF AccountsOK, Balance
  <2>2. CASE ants' = ants
    BY <1>1, <2>1, <2>2
  <2>3. CASE \E x \in Wallets, n \in Nat : ants' = [ants EXCEPT ![x] = @ + n]
    BY <1>1, <2>1, <2>3
  <2>4. CASE \E n \in Nat : by \in Wallets /\ ants' = [ants EXCEPT ![by] = @ - n]
    BY <1>1, <2>1, <2>4
  <2> QED  BY <2>2, <2>3, <2>4 DEF Moves, AntsMove
<1>2. ASSUME NEW s \in Symbols, assets'[w][s] < assets[w][s], w # by PROVE FALSE
  <2>1. assets \in [Wallets -> [Symbols -> Nat]]
    BY DEF AccountsOK, Balance
  <2>2. CASE assets' = assets
    BY <1>2, <2>1, <2>2
  <2>3. ASSUME NEW x \in Wallets, NEW z \in Symbols, NEW n \in Nat,
               assets' = [assets EXCEPT ![x][z] = @ + n]
        PROVE  FALSE
    BY <1>2, <2>1, <2>3
  <2>4. ASSUME NEW z \in Symbols, NEW n \in Nat, by \in Wallets,
               assets' = [assets EXCEPT ![by][z] = @ - n]
        PROVE  FALSE
    BY <1>2, <2>1, <2>4
  <2>5. ASSUME NEW to \in Wallets, NEW z \in Symbols, NEW n \in Nat, by \in Wallets, to # by,
               assets' = [assets EXCEPT ![by][z] = @ - n, ![to][z] = @ + n]
        PROVE  FALSE
    BY <1>2, <2>1, <2>5
  <2> QED  BY <2>2, <2>3, <2>4, <2>5 DEF Moves, AssetsMove
<1> QED  BY <1>1, <1>2

RestOK ==
  /\ members \subseteq Wallets /\ pending \in BOOLEAN
  /\ height \in Nat /\ requests \in Nat /\ signer \in Signers

BalancesInv == AccountsOK /\ BooksInv /\ RestOK

LEMMA BalancesInit ==
  ASSUME Init
  PROVE  BalancesInv
<1>1. AccountsOK
  BY NativeDexAssumption DEF Init, NoAssets, AccountsOK, Balance
<1>2. RestOK
  BY NativeDexAssumption DEF Init, RestOK, Signers
<1> QED  BY <1>1, <1>2, BooksInit DEF BalancesInv

LEMMA BalancesStep ==
  ASSUME BalancesInv, StoredIsOpen, [Next]_vars
  PROVE  BalancesInv'
<1>1. BooksInv'
  BY BooksStep DEF BalancesInv
<1>2. CASE AdminRequests \/ UserRequests
  <2>1. SignedMoves /\ signer' \in Signers
    BY <1>2, RequestsPay DEF BalancesInv
  <2>2. PICK by : Moves(by)
    BY <2>1 DEF SignedMoves
  <2>3. AccountsOK'
    BY <2>2, MovesKeepAccounts DEF BalancesInv
  <2>4. RestOK'
    <3>1. pending' \in BOOLEAN
      BY <2>2 DEF BalancesInv, RestOK, Moves, RestMoves
    <3>2. members' \subseteq Wallets /\ height' \in Nat /\ requests' \in Nat
      BY <2>2 DEF BalancesInv, RestOK, Moves, RestMoves
    <3> QED  BY <2>1, <3>1, <3>2 DEF RestOK
  <2> QED  BY <1>1, <2>3, <2>4 DEF BalancesInv
<1>3. CASE Seal
  <2>1. /\ ants' = ants /\ assets' = assets /\ members' = members /\ requests' = requests
        /\ signer' = signer /\ pending' = FALSE /\ height' = height + 1
    BY <1>3 DEF Seal, accountVars
  <2>2. AccountsOK'
    BY <2>1 DEF BalancesInv, AccountsOK
  <2>3. pending' \in BOOLEAN
    BY <2>1
  <2>4. /\ members' \subseteq Wallets /\ height' \in Nat /\ requests' \in Nat
        /\ signer' \in Signers
    BY <2>1 DEF BalancesInv, RestOK
  <2> QED  BY <1>1, <2>2, <2>3, <2>4 DEF BalancesInv, RestOK
<1>4. CASE Restart
  <2>1. /\ ants' = StartAnts /\ assets' = NoAssets /\ members' = StartMembers
        /\ requests' = requests /\ signer' = signer /\ pending' = FALSE /\ height' = height
    BY <1>4 DEF Restart, blockVars
  <2>2. AccountsOK'
    BY <2>1, NativeDexAssumption DEF AccountsOK, NoAssets, Balance
  <2>3. pending' \in BOOLEAN
    BY <2>1
  <2>4. /\ members' \subseteq Wallets /\ height' \in Nat /\ requests' \in Nat
        /\ signer' \in Signers
    BY <2>1, NativeDexAssumption DEF BalancesInv, RestOK
  <2> QED  BY <1>1, <2>2, <2>3, <2>4 DEF BalancesInv, RestOK
<1>5. CASE UNCHANGED vars
  BY <1>1, <1>5 DEF vars, BalancesInv, AccountsOK, RestOK
<1> QED  BY <1>2, <1>3, <1>4, <1>5 DEF Next

THEOREM BalancesStayRight == Spec => []BalancesInv
<1>1. Init => BalancesInv
  BY BalancesInit
<1>2. BalancesInv /\ StoredIsOpen /\ [Next]_vars => BalancesInv'
  BY BalancesStep
<1>3. Spec => []StoredIsOpen
  BY BooksStayRight, PTL
<1> QED  BY <1>1, <1>2, <1>3, PTL DEF Spec

\* Every balance stays in u64 and no subtraction goes below zero, whatever
\* half-done requests leave behind: each addition to an account is checked and
\* each payment is.
THEOREM TypeCorrect == Spec => []TypeOK
<1>1. IInv /\ BalancesInv => TypeOK
  BY DEF IInv, BalancesOK, BalancesInv, AccountsOK, BooksInv, PoolsBooked, TokensBooked,
         FullPool, FullToken, RestOK, Signers, Balance, MarketOK, TypeOK
<1> QED  BY <1>1, Invariance, BalancesStayRight, PTL

\* Nothing but a wallet's own signed request lowers a balance of it: a pool's
\* other traders, the administrator's minting and the owner of a token cannot.
THEOREM OnlySignersPay == Spec => OnlySignerPays
<1> DEFINE Goal == last'.op # "restart" =>
                     \A w \in Wallets :
                       ants'[w] < ants[w] \/ (\E s \in Symbols : assets'[w][s] < assets[w][s])
                         => signer' = w
<1>1. BalancesInv /\ [Next]_vars => [Goal]_vars
  <2> SUFFICES ASSUME BalancesInv, Next, last'.op # "restart", NEW w \in Wallets,
                      ants'[w] < ants[w] \/ (\E s \in Symbols : assets'[w][s] < assets[w][s])
               PROVE  signer' = w
    OBVIOUS
  <2>1. CASE AdminRequests \/ UserRequests
    <3>1. SignedMoves
      BY <2>1, RequestsPay DEF BalancesInv
    <3>2. PICK by : (by \in Wallets => signer' = by) /\ Moves(by)
      BY <3>1 DEF SignedMoves
    <3>3. w = by
      BY <3>2, MovesLower DEF BalancesInv
    <3> QED  BY <3>2, <3>3
  <2>2. CASE Seal
    <3>1. ants' = ants /\ assets' = assets
      BY <2>2 DEF Seal, accountVars
    <3>2. ants[w] \in Nat /\ \A s \in Symbols : assets[w][s] \in Nat
      BY DEF BalancesInv, AccountsOK, Balance
    <3> QED  BY <3>1, <3>2
  <2>3. CASE Restart
    BY <2>3 DEF Restart, Did
  <2> QED  BY <2>1, <2>2, <2>3 DEF Next
<1>2. Spec => []BalancesInv
  BY BalancesStayRight
<1> HIDE DEF Goal
<1>3. Spec => [][Goal]_vars
  BY <1>1, <1>2, PTL DEF Spec
<1> QED  BY <1>3 DEF OnlySignerPays, Goal

------------------------------------------------------------------------------
(***************************************************************************)
(* Conservation.                                                           *)
(***************************************************************************)
\* What the wallets hold of a token, what the pools hold of ANET, and what the
\* pool of a token holds of it.
Held(b, s) == SumFunctionOnSet([w \in Wallets |-> b[w][s]], Wallets)

Pooled(ps) == SumFunctionOnSet([s \in DOMAIN ps |-> ps[s].anet], DOMAIN ps)

InPool(ps, s) == IF s \in DOMAIN ps THEN ps[s].token ELSE 0

AssetBook == [Wallets -> [Symbols -> Nat]]

LEMMA HeldColumn ==
  ASSUME NEW b \in AssetBook, NEW s \in Symbols
  PROVE  [w \in Wallets |-> b[w][s]] \in [Wallets -> Nat]
BY DEF AssetBook

\* c is b after w has received or paid n of s, or given it to another wallet.
AssetUp(b, c, w, s, n) ==
  b \in AssetBook /\ w \in Wallets /\ s \in Symbols /\ n \in Nat
  /\ c = [b EXCEPT ![w][s] = @ + n]

AssetDown(b, c, w, s, n) ==
  b \in AssetBook /\ w \in Wallets /\ s \in Symbols /\ n \in Nat /\ n <= b[w][s]
  /\ c = [b EXCEPT ![w][s] = @ - n]

LEMMA HeldUp ==
  ASSUME NEW b, NEW c, NEW w, NEW s, NEW n, AssetUp(b, c, w, s, n)
  PROVE  /\ Held(c, s) = Held(b, s) + n
         /\ \A x \in Symbols : x # s => Held(c, x) = Held(b, x)
<1>0. b \in AssetBook /\ w \in Wallets /\ s \in Symbols /\ n \in Nat
  BY DEF AssetUp
<1>1. PICK f : f = [v \in Wallets |-> b[v][s]]
  OBVIOUS
<1>2. PICK g : g = [v \in Wallets |-> c[v][s]]
  OBVIOUS
<1>3. Receives(f, g, w, n)
  BY <1>0, <1>1, <1>2 DEF AssetUp, AssetBook, Receives
<1>4. Held(c, s) = Held(b, s) + n
  BY <1>1, <1>2, <1>3, WalletReceives DEF Held
<1>5. ASSUME NEW x \in Symbols, x # s PROVE Held(c, x) = Held(b, x)
  <2>1. [v \in Wallets |-> c[v][x]] = [v \in Wallets |-> b[v][x]]
    BY <1>0, <1>5 DEF AssetUp, AssetBook
  <2> QED  BY <2>1 DEF Held
<1> QED  BY <1>4, <1>5

LEMMA HeldDown ==
  ASSUME NEW b, NEW c, NEW w, NEW s, NEW n, AssetDown(b, c, w, s, n)
  PROVE  /\ c \in AssetBook
         /\ Held(c, s) = Held(b, s) - n
         /\ \A x \in Symbols : x # s => Held(c, x) = Held(b, x)
<1>0. b \in AssetBook /\ w \in Wallets /\ s \in Symbols /\ n \in Nat /\ n <= b[w][s]
  BY DEF AssetDown
<1>1. PICK f : f = [v \in Wallets |-> b[v][s]]
  OBVIOUS
<1>2. PICK g : g = [v \in Wallets |-> c[v][s]]
  OBVIOUS
<1>3. Pays(f, g, w, n)
  BY <1>0, <1>1, <1>2 DEF AssetDown, AssetBook, Pays
<1>4. Held(c, s) = Held(b, s) - n
  BY <1>1, <1>2, <1>3, WalletPays DEF Held
<1>5. ASSUME NEW x \in Symbols, x # s PROVE Held(c, x) = Held(b, x)
  <2>1. [v \in Wallets |-> c[v][x]] = [v \in Wallets |-> b[v][x]]
    BY <1>0, <1>5 DEF AssetDown, AssetBook
  <2> QED  BY <2>1 DEF Held
<1>6. c \in AssetBook
  BY <1>0 DEF AssetDown, AssetBook
<1> QED  BY <1>4, <1>5, <1>6

\* The reserves of ANET: a pool more, or another pool in its place.
LEMMA PooledOpens ==
  ASSUME NEW ps, PoolsBooked(ps), NEW s, s \notin DOMAIN ps, NEW q, q.anet \in Nat,
         NEW qs, qs = With(ps, s, q)
  PROVE  Pooled(qs) = Pooled(ps) + q.anet
<1> DEFINE D == DOMAIN ps
<1>1. PICK f : f = [x \in DOMAIN ps |-> ps[x].anet]
  OBVIOUS
<1>2. PICK g : g = [x \in DOMAIN qs |-> qs[x].anet]
  OBVIOUS
<1>3. DOMAIN qs = D \cup {s} /\ \A x \in D : qs[x] = ps[x] /\ ps[x].anet \in Nat
  BY DEF With, PoolsBooked, FullPool, Pool
<1>4. g[s] = q.anet /\ \A x \in D : g[x] = f[x] /\ f[x] \in Nat
  BY <1>1, <1>2, <1>3 DEF With
<1>5. Summable(f, D) /\ Summable(g, D)
  BY <1>4 DEF Summable, PoolsBooked
<1>6. SumFunctionOnSet(g, D \cup {s}) = g[s] + SumFunctionOnSet(g, D)
  BY <1>4, <1>5, SumInsert
<1>7. SumFunctionOnSet(f, D) = SumFunctionOnSet(g, D) /\ SumFunctionOnSet(f, D) \in Int
  BY <1>4, <1>5, SumSame, SumType
<1>8. Pooled(ps) = SumFunctionOnSet(f, D) /\ Pooled(qs) = SumFunctionOnSet(g, D \cup {s})
  BY <1>1, <1>2, <1>3 DEF Pooled
<1> DEFINE x == SumFunctionOnSet(f, D)
<1>9. Pooled(ps) = x /\ Pooled(qs) = q.anet + x /\ x \in Int
  BY <1>4, <1>6, <1>7, <1>8
<1> HIDE DEF x
<1> QED  BY <1>9

LEMMA PooledChanges ==
  ASSUME NEW ps, PoolsBooked(ps), NEW s \in DOMAIN ps, NEW q, q.anet \in Nat,
         NEW qs, qs = [ps EXCEPT ![s] = q]
  PROVE  Pooled(qs) = Pooled(ps) - ps[s].anet + q.anet
<1> DEFINE D == DOMAIN ps
<1>1. PICK f : f = [x \in DOMAIN ps |-> ps[x].anet]
  OBVIOUS
<1>2. PICK g : g = [x \in DOMAIN qs |-> qs[x].anet]
  OBVIOUS
<1>3. DOMAIN qs = D /\ \A x \in D : ps[x].anet \in Nat /\ (x # s => qs[x] = ps[x])
  BY DEF PoolsBooked, FullPool, Pool
<1>4. g[s] = q.anet /\ (\A x \in D \ {s} : g[x] = f[x]) /\ \A x \in D : f[x] \in Nat
  BY <1>1, <1>2, <1>3
<1>5. ChangedAt(f, g, D, s)
  BY <1>4 DEF ChangedAt, Summable, PoolsBooked
<1>6. SumFunctionOnSet(g, D) = SumFunctionOnSet(f, D) - f[s] + g[s]
  BY <1>5, SumPut
<1>7. Pooled(ps) = SumFunctionOnSet(f, D) /\ Pooled(qs) = SumFunctionOnSet(g, D)
  BY <1>1, <1>2, <1>3 DEF Pooled
<1>8. f[s] = ps[s].anet
  BY <1>1
<1> QED  BY <1>4, <1>6, <1>7, <1>8

LEMMA PooledType ==
  ASSUME NEW ps, PoolsBooked(ps)
  PROVE  Pooled(ps) \in Int
<1>1. PICK f : f = [x \in DOMAIN ps |-> ps[x].anet]
  OBVIOUS
<1>2. Summable(f, DOMAIN ps)
  BY <1>1 DEF Summable, PoolsBooked, FullPool, Pool
<1> QED  BY <1>1, <1>2, SumType DEF Pooled

LEMMA HeldType ==
  ASSUME NEW b \in AssetBook, NEW s \in Symbols
  PROVE  Held(b, s) \in Int
<1>1. PICK f : f = [w \in Wallets |-> b[w][s]]
  OBVIOUS
<1>2. f \in [Wallets -> Nat]
  BY <1>1 DEF AssetBook
<1> QED  BY <1>1, <1>2, WalletSumType DEF Held

LEMMA InPoolType ==
  ASSUME NEW ps, PoolsBooked(ps), NEW s
  PROVE  InPool(ps, s) \in Int
BY DEF InPool, PoolsBooked, FullPool, Pool

\* The two amounts AcceptedConserves is about: all the ANET, with its wrapped
\* form, and all of a token.
Anet(a, b, ps) ==
  SumFunctionOnSet(a, Wallets) + Pooled(ps) + (Held(b, Wanet) + InPool(ps, Wanet))

TokenIn(b, ps, s) == Held(b, s) + InPool(ps, s)

Conserves ==
  /\ Anet(ants', assets', pools') = Anet(ants, assets, pools)
  /\ \A s \in Symbols \ {Wanet} : TokenIn(assets', pools', s) = TokenIn(assets, pools, s)

\* The wallets pay a ANTS and t of the token of s into its pool, or are paid by
\* it where the number is negative.
PaidIn(s, a, t) ==
  /\ s \in Symbols /\ a \in Int /\ t \in Int
  /\ SumFunctionOnSet(ants', Wallets) = SumFunctionOnSet(ants, Wallets) - a
  /\ Pooled(pools') = Pooled(pools) + a
  /\ Held(assets', s) = Held(assets, s) - t
  /\ InPool(pools', s) = InPool(pools, s) + t
  /\ \A x \in Symbols : x # s => /\ Held(assets', x) = Held(assets, x)
                                 /\ InPool(pools', x) = InPool(pools, x)

LEMMA SumsTyped ==
  ASSUME AccountsOK, BooksInv
  PROVE  /\ ants \in [Wallets -> Nat] /\ assets \in AssetBook
         /\ SumFunctionOnSet(ants, Wallets) \in Int
         /\ Pooled(pools) \in Int
         /\ \A s \in Symbols : Held(assets, s) \in Int /\ InPool(pools, s) \in Int
<1>1. ants \in [Wallets -> Nat] /\ assets \in AssetBook
  BY DEF AccountsOK, Balance, AssetBook
<1>2. SumFunctionOnSet(ants, Wallets) \in Int
  BY <1>1, WalletSumType
<1> QED  BY <1>1, <1>2, PooledType, HeldType, InPoolType DEF BooksInv

LEMMA PaidInConserves ==
  ASSUME AccountsOK, BooksInv, NEW s, NEW a, NEW t, PaidIn(s, a, t)
  PROVE  Conserves
<1> DEFINE A == SumFunctionOnSet(ants, Wallets)
           P == Pooled(pools)
           H(x) == Held(assets, x)
           I(x) == InPool(pools, x)
<1>1. A \in Int /\ P \in Int /\ \A x \in Symbols : H(x) \in Int /\ I(x) \in Int
  BY SumsTyped
<1>2. Wanet \in Symbols
  BY NativeDexAssumption
<1>3. /\ s \in Symbols /\ a \in Int /\ t \in Int
      /\ SumFunctionOnSet(ants', Wallets) = A - a /\ Pooled(pools') = P + a
      /\ Held(assets', s) = H(s) - t /\ InPool(pools', s) = I(s) + t
      /\ \A x \in Symbols : x # s => Held(assets', x) = H(x) /\ InPool(pools', x) = I(x)
  BY DEF PaidIn
<1>4. /\ Anet(ants, assets, pools) = A + P + (H(Wanet) + I(Wanet))
      /\ \A x : TokenIn(assets, pools, x) = H(x) + I(x)
  BY DEF Anet, TokenIn
<1>5. /\ Anet(ants', assets', pools')
           = SumFunctionOnSet(ants', Wallets) + Pooled(pools')
               + (Held(assets', Wanet) + InPool(pools', Wanet))
      /\ \A x : TokenIn(assets', pools', x) = Held(assets', x) + InPool(pools', x)
  BY DEF Anet, TokenIn
<1> HIDE DEF A, P, H, I
<1>6. \A x \in Symbols : Held(assets', x) + InPool(pools', x) = H(x) + I(x)
  <2> SUFFICES ASSUME NEW x \in Symbols
               PROVE  Held(assets', x) + InPool(pools', x) = H(x) + I(x)
    OBVIOUS
  <2>1. CASE x = s
    BY <1>1, <1>3, <2>1
  <2>2. CASE x # s
    BY <1>3, <2>2
  <2> QED  BY <2>1, <2>2
<1>7. A - a + (P + a) = A + P
  BY <1>1, <1>3
<1>8. Anet(ants', assets', pools') = Anet(ants, assets, pools)
  BY <1>2, <1>3, <1>4, <1>5, <1>6, <1>7
<1>9. \A x \in Symbols : TokenIn(assets', pools', x) = TokenIn(assets, pools, x)
  BY <1>4, <1>5, <1>6
<1> QED  BY <1>8, <1>9 DEF Conserves

\* The wallets get n wrapped ANTS for as many, or the other way round.
Wrapped(n) ==
  /\ n \in Int /\ pools' = pools
  /\ SumFunctionOnSet(ants', Wallets) = SumFunctionOnSet(ants, Wallets) - n
  /\ Held(assets', Wanet) = Held(assets, Wanet) + n
  /\ \A x \in Symbols : x # Wanet => Held(assets', x) = Held(assets, x)

LEMMA WrappedConserves ==
  ASSUME AccountsOK, BooksInv, NEW n, Wrapped(n)
  PROVE  Conserves
<1> DEFINE A == SumFunctionOnSet(ants, Wallets)
           P == Pooled(pools)
           H == Held(assets, Wanet)
           I == InPool(pools, Wanet)
<1>1. A \in Int /\ P \in Int /\ H \in Int /\ I \in Int /\ n \in Int
  BY SumsTyped, NativeDexAssumption DEF Wrapped
<1>2. /\ Anet(ants, assets, pools) = A + P + (H + I)
      /\ Anet(ants', assets', pools') = A - n + P + (H + n + I)
  BY DEF Wrapped, Anet
<1>3. \A x \in Symbols \ {Wanet} : TokenIn(assets', pools', x) = TokenIn(assets, pools, x)
  BY DEF Wrapped, TokenIn
<1> HIDE DEF A, P, H, I
<1>4. Anet(ants', assets', pools') = Anet(ants, assets, pools)
  BY <1>1, <1>2
<1> QED  BY <1>3, <1>4 DEF Conserves

\* The payments of the methods, as the sums see them.
LEMMA DebitSums ==
  ASSUME AccountsOK, NEW w \in Wallets, NEW n \in Nat, DebitAnet(w, n)
  PROVE  SumFunctionOnSet(ants', Wallets) = SumFunctionOnSet(ants, Wallets) - n
<1>1. Pays(ants, ants', w, n)
  BY DEF AccountsOK, Balance, DebitAnet, Pays
<1> QED  BY <1>1, WalletPays

LEMMA CreditSums ==
  ASSUME AccountsOK, NEW w \in Wallets, NEW n \in Nat, ants' = [ants EXCEPT ![w] = @ + n]
  PROVE  SumFunctionOnSet(ants', Wallets) = SumFunctionOnSet(ants, Wallets) + n
<1>1. Receives(ants, ants', w, n)
  BY DEF AccountsOK, Balance, Receives
<1> QED  BY <1>1, WalletReceives

LEMMA DebitAssetSums ==
  ASSUME AccountsOK, NEW w \in Wallets, NEW s \in Symbols, NEW n \in Nat,
         n <= assets[w][s], DebitAsset(w, s, n)
  PROVE  /\ Held(assets', s) = Held(assets, s) - n
         /\ \A x \in Symbols : x # s => Held(assets', x) = Held(assets, x)
<1>1. AssetDown(assets, assets', w, s, n)
  BY DEF AccountsOK, Balance, AssetBook, DebitAsset, AssetDown
<1> QED  BY <1>1, HeldDown

LEMMA CreditAssetSums ==
  ASSUME AccountsOK, NEW w \in Wallets, NEW s \in Symbols, NEW n \in Nat, CreditAsset(w, s, n)
  PROVE  /\ Held(assets', s) = Held(assets, s) + n
         /\ \A x \in Symbols : x # s => Held(assets', x) = Held(assets, x)
<1>1. AssetUp(assets, assets', w, s, n)
  BY DEF AccountsOK, Balance, AssetBook, CreditAsset, AssetUp
<1> QED  BY <1>1, HeldUp

LEMMA MoveAssetSums ==
  ASSUME AccountsOK, NEW w \in Wallets, NEW to \in Wallets, w # to, NEW s \in Symbols, NEW n \in Nat,
         n <= assets[w][s], MoveAsset(w, to, s, n)
  PROVE  \A x \in Symbols : Held(assets', x) = Held(assets, x)
<1>0. assets \in AssetBook
  BY DEF AccountsOK, Balance, AssetBook
<1>1. PICK b : b = [assets EXCEPT ![w][s] = @ - n]
  OBVIOUS
<1>2. AssetDown(assets, b, w, s, n)
  BY <1>0, <1>1 DEF AssetDown
<1>3. b \in AssetBook /\ Held(b, s) = Held(assets, s) - n
      /\ \A x \in Symbols : x # s => Held(b, x) = Held(assets, x)
  BY <1>2, HeldDown
<1>4. assets' = [b EXCEPT ![to][s] = @ + n]
  BY <1>0, <1>1 DEF MoveAsset, AssetBook
<1>5. AssetUp(b, assets', to, s, n)
  BY <1>3, <1>4 DEF AssetUp
<1>6. Held(assets', s) = Held(b, s) + n
      /\ \A x \in Symbols : x # s => Held(assets', x) = Held(b, x)
  BY <1>5, HeldUp
<1>7. Held(assets, s) \in Int
  BY <1>0, HeldType
<1>8. Held(assets', s) = Held(assets, s)
  BY <1>3, <1>6, <1>7
<1> QED  BY <1>3, <1>6, <1>8

\* The pools of the methods, as the sums see them.
LEMMA OpenedSums ==
  ASSUME BooksInv, NEW s \in Symbols, s \notin DOMAIN pools,
         NEW w, NEW a \in Units, NEW t \in Units, NEW fee,
         pools' = With(pools, s, NewPool(w, a, t, fee))
  PROVE  /\ Pooled(pools') = Pooled(pools) + a
         /\ InPool(pools', s) = InPool(pools, s) + t
         /\ \A x \in Symbols : x # s => InPool(pools', x) = InPool(pools, x)
<1>1. PICK q : q = NewPool(w, a, t, fee)
  OBVIOUS
<1>2. q.anet = a /\ q.token = t /\ a \in Nat /\ t \in Nat
  BY <1>1, AmountsAreNat DEF NewPool
<1>3. pools' = With(pools, s, q)
  BY <1>1
<1>4. Pooled(pools') = Pooled(pools) + q.anet
  BY <1>2, <1>3, PooledOpens DEF BooksInv
<1>5. InPool(pools', s) = t /\ InPool(pools, s) = 0
  BY <1>2, <1>3 DEF InPool, With
<1>6. \A x \in Symbols : x # s => InPool(pools', x) = InPool(pools, x)
  BY <1>3 DEF InPool, With
<1> QED  BY <1>2, <1>4, <1>5, <1>6

LEMMA ReplacedSums ==
  ASSUME BooksInv, NEW s \in DOMAIN pools, NEW q, FullPool(q),
         pools' = [pools EXCEPT ![s] = q]
  PROVE  /\ Pooled(pools') = Pooled(pools) - pools[s].anet + q.anet
         /\ InPool(pools', s) = q.token /\ InPool(pools, s) = pools[s].token
         /\ \A x \in Symbols : x # s => InPool(pools', x) = InPool(pools, x)
<1>1. q.anet \in Nat
  BY DEF FullPool, Pool
<1>2. Pooled(pools') = Pooled(pools) - pools[s].anet + q.anet
  BY <1>1, PooledChanges DEF BooksInv
<1>3. InPool(pools', s) = q.token /\ InPool(pools, s) = pools[s].token
  BY DEF InPool
<1>4. \A x \in Symbols : x # s => InPool(pools', x) = InPool(pools, x)
  BY DEF InPool
<1> QED  BY <1>2, <1>3, <1>4

\* The methods, when they accept.
LEMMA RefusalsAreNotOk ==
  ASSUME NEW op, Refuse(op)
  PROVE  ~last'.ok
BY DEF Refuse, Answer, Did

LEMMA CreatePoolConserves ==
  ASSUME AccountsOK, BooksInv, NEW w \in Wallets, NEW s \in Symbols, NEW a \in Units,
         NEW t \in Units, NEW fee, CreatePool(w, s, a, t, fee), last'.ok
  PROVE  Conserves
<1>0. a \in Nat /\ t \in Nat
  BY AmountsAreNat
<1>1. /\ s \notin DOMAIN pools /\ DebitAnet(w, a)
      /\ assets[w][s] >= t /\ DebitAsset(w, s, t)
      /\ pools' = With(pools, s, NewPool(w, a, t, fee))
  BY RefusalsAreNotOk DEF CreatePool
<1>2. assets[w][s] \in Nat
  BY DEF AccountsOK, Balance
<1>3. PaidIn(s, a, t)
  BY <1>0, <1>1, <1>2, DebitSums, DebitAssetSums, OpenedSums DEF PaidIn
<1> QED  BY <1>3, PaidInConserves

LEMMA AddLiquidityConserves ==
  ASSUME AccountsOK, BooksInv, NEW w \in Wallets, NEW s, NEW a \in Units,
         NEW t \in Units, AddLiquidity(w, s, a, t), last'.ok
  PROVE  Conserves
<1>0. a \in Nat /\ t \in Nat
  BY AmountsAreNat
<1>1. /\ s \in DOMAIN pools /\ DebitAnet(w, a)
      /\ assets[w][s] >= t /\ DebitAsset(w, s, t)
      /\ pools' = [pools EXCEPT ![s] = Deepened(pools[s], w, a, t)]
  BY RefusalsAreNotOk DEF AddLiquidity, Acceptable
<1>2. FullPool(pools[s]) /\ s \in Symbols
  BY <1>1 DEF BooksInv, PoolsBooked
<1>3. PICK q : q = Deepened(pools[s], w, a, t)
  OBVIOUS
<1>4. FullPool(q) /\ q.anet = pools[s].anet + a /\ q.token = pools[s].token + t
  BY <1>0, <1>2, <1>3, DeepenedFull
<1>5. /\ Pooled(pools') = Pooled(pools) - pools[s].anet + q.anet
      /\ InPool(pools', s) = q.token /\ InPool(pools, s) = pools[s].token
      /\ \A x \in Symbols : x # s => InPool(pools', x) = InPool(pools, x)
  BY <1>1, <1>3, <1>4, ReplacedSums
<1>6. Pooled(pools) \in Int /\ pools[s].anet \in Nat /\ assets[w][s] \in Nat
  BY <1>2, SumsTyped DEF FullPool, Pool, AccountsOK, Balance
<1>7. Pooled(pools') = Pooled(pools) + a /\ InPool(pools', s) = InPool(pools, s) + t
  BY <1>0, <1>4, <1>5, <1>6
<1>8. SumFunctionOnSet(ants', Wallets) = SumFunctionOnSet(ants, Wallets) - a
  BY <1>0, <1>1, DebitSums
<1>9. /\ Held(assets', s) = Held(assets, s) - t
      /\ \A x \in Symbols : x # s => Held(assets', x) = Held(assets, x)
  BY <1>0, <1>1, <1>2, <1>6, DebitAssetSums
<1>10. PaidIn(s, a, t)
  BY <1>0, <1>2, <1>5, <1>7, <1>8, <1>9 DEF PaidIn
<1> QED  BY <1>10, PaidInConserves

LEMMA WrapAnetConserves ==
  ASSUME AccountsOK, BooksInv, NEW w \in Wallets, NEW n \in Units, WrapAnet(w, n), last'.ok
  PROVE  Conserves
<1>0. n \in Nat /\ Wanet \in Symbols
  BY AmountsAreNat, NativeDexAssumption
<1>1. DebitAnet(w, n) /\ CreditAsset(w, Wanet, n) /\ pools' = pools
  BY RefusalsAreNotOk DEF WrapAnet, marketVars
<1>2. Wrapped(n)
  BY <1>0, <1>1, DebitSums, CreditAssetSums DEF Wrapped
<1> QED  BY <1>2, WrappedConserves

LEMMA UnwrapWanetConserves ==
  ASSUME AccountsOK, BooksInv, NEW w \in Wallets, NEW n \in Units, UnwrapWanet(w, n), last'.ok
  PROVE  Conserves
<1>0. n \in Nat /\ Wanet \in Symbols
  BY AmountsAreNat, NativeDexAssumption
<1>1. /\ assets[w][Wanet] >= n /\ DebitAsset(w, Wanet, n)
      /\ ants' = [ants EXCEPT ![w] = @ + n] /\ pools' = pools
  BY RefusalsAreNotOk DEF UnwrapWanet, marketVars
<1>2. assets[w][Wanet] \in Nat /\ SumFunctionOnSet(ants, Wallets) \in Int
      /\ Held(assets, Wanet) \in Int
  BY <1>0, SumsTyped DEF AccountsOK, Balance
<1>3. /\ SumFunctionOnSet(ants', Wallets) = SumFunctionOnSet(ants, Wallets) + n
      /\ Held(assets', Wanet) = Held(assets, Wanet) - n
      /\ \A x \in Symbols : x # Wanet => Held(assets', x) = Held(assets, x)
  BY <1>0, <1>1, <1>2, CreditSums, DebitAssetSums
<1>4. Wrapped(-n)
  BY <1>0, <1>1, <1>2, <1>3 DEF Wrapped
<1> QED  BY <1>4, WrappedConserves

LEMMA SwapConserves ==
  ASSUME AccountsOK, BooksInv, NEW w \in Wallets, NEW s \in Symbols, NEW n \in Units,
         NEW toToken \in BOOLEAN, NEW minOut, NEW deadline,
         Swap(w, s, n, toToken, minOut, deadline), last'.ok
  PROVE  Conserves
<1> DEFINE out == Quote(pools[s], n, toToken)
<1>0. n \in Nat
  BY AmountsAreNat
<1>1. s \in DOMAIN pools /\ FullPool(pools[s])
  BY DEF Swap, BooksInv, PoolsBooked
<1>2. PICK q : q = Swapped(pools[s], n, out, toToken)
  OBVIOUS
<1>3. /\ FullPool(q) /\ out \in Nat
      /\ q.anet = (IF toToken THEN pools[s].anet + n ELSE pools[s].anet - out)
      /\ q.token = (IF toToken THEN pools[s].token - out ELSE pools[s].token + n)
  BY <1>0, <1>1, <1>2, SwappedFull
<1>4. Traded(w, s, n, out, toToken, TRUE) /\ pools' = [pools EXCEPT ![s] = q]
  BY <1>2, RefusalsAreNotOk DEF Swap
<1> HIDE DEF out
<1>5. /\ Pooled(pools') = Pooled(pools) - pools[s].anet + q.anet
      /\ InPool(pools', s) = q.token /\ InPool(pools, s) = pools[s].token
      /\ \A x \in Symbols : x # s => InPool(pools', x) = InPool(pools, x)
  BY <1>1, <1>3, <1>4, ReplacedSums
<1>6. /\ Pooled(pools) \in Int /\ pools[s].anet \in Nat /\ pools[s].token \in Nat
      /\ assets[w][s] \in Nat /\ SumFunctionOnSet(ants, Wallets) \in Int
      /\ Held(assets, s) \in Int
  BY <1>1, SumsTyped DEF FullPool, Pool, AccountsOK, Balance
<1>7. CASE toToken
  <2>1. DebitAnet(w, n) /\ CreditAsset(w, s, out)
    BY <1>4, <1>7 DEF Traded
  <2>2. Pooled(pools') = Pooled(pools) + n /\ InPool(pools', s) = InPool(pools, s) + (-out)
    BY <1>0, <1>3, <1>5, <1>6, <1>7
  <2>3. SumFunctionOnSet(ants', Wallets) = SumFunctionOnSet(ants, Wallets) - n
    BY <1>0, <2>1, DebitSums
  <2>4. /\ Held(assets', s) = Held(assets, s) + out
        /\ \A x \in Symbols : x # s => Held(assets', x) = Held(assets, x)
    BY <1>3, <2>1, CreditAssetSums
  <2>5. Held(assets', s) = Held(assets, s) - (-out) /\ -out \in Int /\ n \in Int
    BY <1>0, <1>3, <1>6, <2>4
  <2>6. PaidIn(s, n, -out)
    BY <1>5, <2>2, <2>3, <2>4, <2>5 DEF PaidIn
  <2> QED  BY <2>6, PaidInConserves
<1>8. CASE ~toToken
  <2>1. /\ assets[w][s] >= n /\ DebitAsset(w, s, n)
        /\ ants' = [ants EXCEPT ![w] = @ + out]
    BY <1>4, <1>8 DEF Traded
  <2>2. Pooled(pools') = Pooled(pools) + (-out) /\ InPool(pools', s) = InPool(pools, s) + n
    BY <1>0, <1>3, <1>5, <1>6, <1>8
  <2>3. SumFunctionOnSet(ants', Wallets) = SumFunctionOnSet(ants, Wallets) + out
    BY <1>3, <2>1, CreditSums
  <2>4. /\ Held(assets', s) = Held(assets, s) - n
        /\ \A x \in Symbols : x # s => Held(assets', x) = Held(assets, x)
    BY <1>0, <1>6, <2>1, DebitAssetSums
  <2>5. SumFunctionOnSet(ants', Wallets) = SumFunctionOnSet(ants, Wallets) - (-out)
        /\ -out \in Int /\ n \in Int
    BY <1>0, <1>3, <1>6, <2>3
  <2>6. PaidIn(s, -out, n)
    BY <1>5, <2>2, <2>4, <2>5 DEF PaidIn
  <2> QED  BY <2>6, PaidInConserves
<1> QED  BY <1>7, <1>8

LEMMA TransferTokenConserves ==
  ASSUME AccountsOK, BooksInv, NEW w \in Wallets, NEW to \in Wallets, NEW s \in Symbols,
         NEW n \in Units, TransferToken(w, to, s, n), last'.ok
  PROVE  Conserves
<1>0. n \in Nat
  BY AmountsAreNat
<1>1. /\ w # to /\ assets[w][s] >= n /\ MoveAsset(w, to, s, n)
      /\ ants' = ants /\ pools' = pools
  BY RefusalsAreNotOk DEF TransferToken
<1>2. assets[w][s] \in Nat
  BY DEF AccountsOK, Balance
<1>3. \A x \in Symbols : Held(assets', x) = Held(assets, x)
  BY <1>0, <1>1, <1>2, MoveAssetSums
<1>4. Wanet \in Symbols
  BY NativeDexAssumption
<1> QED  BY <1>1, <1>3, <1>4 DEF Conserves, Anet, TokenIn

MovingOps == {"pool", "wrap", "unwrap", "liquidity", "swap", "transfer"}

\* What the other requests answer, they do not call a move.
LEMMA OthersAnswer ==
  ASSUME \/ AdminRequests
         \/ \E by, session, wallet : PostAppActivity(wallet, by, session)
         \/ \E by : PostAnrc20Create(by) \/ PostAnrc20Mint(by)
         \/ Seal \/ Restart
  PROVE  last'.op \notin MovingOps
<1> USE DEF MovingOps, Accept, Refuse, Answer, Did
<1>1. CASE PostDexMintAsset
  BY <1>1 DEF PostDexMintAsset, MintTestAsset
<1>2. CASE PostGenesisBootstrap
  BY <1>2 DEF PostGenesisBootstrap, GenesisBootstrap, MintFails
<1>3. CASE PostAdminAddLiquidity
  BY <1>3 DEF PostAdminAddLiquidity, TopUpLiquidity, MintFails
<1>4. CASE PostWithWrongKey
  BY <1>4 DEF PostWithWrongKey, RecordActivity
<1>5. CASE \E by, session, wallet : PostAppActivity(wallet, by, session)
  BY <1>5 DEF PostAppActivity, RecordActivity
<1>6. CASE \E by : PostAnrc20Create(by) \/ PostAnrc20Mint(by)
  <2>1. ASSUME NEW by, PostAnrc20Create(by) PROVE last'.op \notin MovingOps
    BY <2>1 DEF PostAnrc20Create, CreateToken
  <2>2. ASSUME NEW by, PostAnrc20Mint(by) PROVE last'.op \notin MovingOps
    <3>1. PICK to \in Wallets, s \in Symbols, n \in Units : MintToken(by, to, s, n)
      BY <2>2 DEF PostAnrc20Mint
    <3>2. last'.op = "minttoken"
      BY <3>1 DEF MintToken
    <3> QED  BY <3>2
  <2> QED  BY <1>6, <2>1, <2>2
<1>7. CASE Seal \/ Restart
  BY <1>7 DEF Seal, Restart
<1> QED  BY <1>1, <1>2, <1>3, <1>4, <1>5, <1>6, <1>7 DEF AdminRequests

LEMMA AcceptedMovesConserve ==
  ASSUME AccountsOK, BooksInv, Next, last'.ok, last'.op \in MovingOps
  PROVE  Conserves
<1>1. ASSUME NEW by \in Wallets, NEW session,
             \/ PostDexCreatePool(by, session)
             \/ PostDexWrap(by, session) \/ PostDexUnwrap(by, session)
             \/ PostDexAddLiquidity(by, session) \/ PostDexSwapExecute(by, session)
      PROVE  Conserves
  <2>1. CASE PostDexCreatePool(by, session)
    BY <2>1, CreatePoolConserves DEF PostDexCreatePool
  <2>2. CASE PostDexWrap(by, session)
    BY <2>2, WrapAnetConserves DEF PostDexWrap
  <2>3. CASE PostDexUnwrap(by, session)
    BY <2>3, UnwrapWanetConserves DEF PostDexUnwrap
  <2>4. CASE PostDexAddLiquidity(by, session)
    BY <2>4, AddLiquidityConserves DEF PostDexAddLiquidity
  <2>5. CASE PostDexSwapExecute(by, session)
    BY <2>5, SwapConserves DEF PostDexSwapExecute
  <2> QED  BY <1>1, <2>1, <2>2, <2>3, <2>4, <2>5
<1>2. ASSUME NEW by \in Wallets, PostAdminSwapExecute(by)
      PROVE  Conserves
  BY <1>2, SwapConserves DEF PostAdminSwapExecute
<1>3. ASSUME NEW by \in Wallets, PostAnrc20Transfer(by)
      PROVE  Conserves
  BY <1>3, TransferTokenConserves DEF PostAnrc20Transfer
<1> QED  BY <1>1, <1>2, <1>3, OthersAnswer DEF Next, UserRequests

\* A request that is accepted moves ANET and tokens between wallets and pools
\* and makes or loses none, to the unit: what a wallet is debited a pool gets,
\* and the other way round, whatever is rounded in between.
THEOREM AcceptedRequestsConserve == Spec => AcceptedConserves
<1> DEFINE Goal == last'.ok /\ last'.op \in {"pool", "wrap", "unwrap", "liquidity", "swap", "transfer"} =>
                     /\ AnetIn(ants', pools') + UnitsIn(assets', pools', Wanet)
                          = AnetIn(ants, pools) + UnitsIn(assets, pools, Wanet)
                     /\ \A s \in Symbols \ {Wanet} :
                          UnitsIn(assets', pools', s) = UnitsIn(assets, pools, s)
<1>1. Conserves => Goal
  <2>1. \A a, b, ps : AnetIn(a, ps) + UnitsIn(b, ps, Wanet) = Anet(a, b, ps)
    BY DEF AnetIn, UnitsIn, Anet, Pooled, Held, InPool
  <2>2. \A b, ps, s : UnitsIn(b, ps, s) = TokenIn(b, ps, s)
    BY DEF UnitsIn, TokenIn, Held, InPool
  <2> QED  BY <2>1, <2>2 DEF Conserves
<1>2. BalancesInv /\ [Next]_vars => [Goal]_vars
  <2> SUFFICES ASSUME BalancesInv, Next, last'.ok, last'.op \in MovingOps PROVE Conserves
    BY <1>1 DEF MovingOps
  <2> QED  BY AcceptedMovesConserve DEF BalancesInv
<1>3. Spec => []BalancesInv
  BY BalancesStayRight
<1> HIDE DEF Goal
<1>4. Spec => [][Goal]_vars
  BY <1>2, <1>3, PTL DEF Spec
<1> QED  BY <1>4 DEF AcceptedConserves, Goal
=============================================================================
