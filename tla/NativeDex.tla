------------------------------ MODULE NativeDex ------------------------------
(***************************************************************************)
(* The native exchange and the ANRC-20 tokens of a node: the dex_ and      *)
(* anrc20_ methods of NodeState (src/src/state.rs), the arithmetic of      *)
(* src/src/dex.rs, and the routes of src/src/rpc.rs that reach them.       *)
(*                                                                         *)
(* A method runs under the write lock, so a request is one step.  It stops *)
(* at its first error and rolls nothing back, so a step may be a refusal   *)
(* that has changed the accounts; such a refusal is a disjunct below.  A   *)
(* refusal that changes nothing is no step.                                *)
(*                                                                         *)
(* Balances are u64 (at most MaxUnits, and every addition is checked).     *)
(* Reserves and shares are u128 and bounded here by what wallets can pay   *)
(* in; products that leave u128 are not modelled.                          *)
(*                                                                         *)
(* The pools and the registry are written into every block and come back   *)
(* from the last one; the accounts come back from genesis.json and from    *)
(* the transfers in the blocks, which NodeLedger models, and the DEX adds  *)
(* to neither: that is what Restart does to them.                          *)
(***************************************************************************)
EXTENDS Integers, FiniteSets, Functions

CONSTANTS
  Wallets,          \* addresses
  Admin,            \* whoever holds ANET_DEX_ADMIN_KEY
  NoSession,        \* a request without a login cookie
  Symbols,          \* token symbols, normalised
  Wanet,            \* WANET_SYMBOL
  MaxUnits,         \* u64::MAX
  MaxFee,           \* MAX_FEE_BPS
  FeeDen,           \* the 10,000 basis points of a whole
  StartAnts,        \* balances start-up rebuilds
  StartActivated,   \* what is left of their activation
  StartMembers,     \* wallets with MIN_SESSIONS_FOR_ANET sessions
  Exempt,           \* bridge_funded_accounts
  AuthRequired,     \* explorer_auth_required
  AdminEndpoints,   \* ADMIN_ENDPOINTS_ENABLED
  NativeMint,       \* ANET_ALLOW_ADMIN_NATIVE_MINT
  TestMode,         \* ANET_ALLOW_INELIGIBLE_WALLET_TEST
  Units,            \* amounts of requests
  FeeRates,         \* fee_bps of requests
  MinOuts,          \* min_amount_out, 0 when absent
  Deadlines,        \* deadline_block, a large number when absent
  Ops,              \* the operations this instance enables
  MaxBlocks,        \* bound on the height
  MaxRequests       \* bound on the number of requests

AllOps == {"mint", "bootstrap", "pool", "wrap", "liquidity", "topup", "swap",
           "token", "restart", "audit"}

ASSUME NativeDexAssumption ==
  /\ IsFiniteSet(Wallets)
  /\ Admin \notin Wallets /\ NoSession \notin Wallets
  /\ Wanet \in Symbols
  /\ MaxUnits \in Nat
  /\ FeeDen \in Nat \ {0} /\ MaxFee \in Nat /\ MaxFee < FeeDen
  /\ StartAnts \in [Wallets -> 0 .. MaxUnits]
  /\ StartActivated \in [Wallets -> Nat]
  /\ \A w \in Wallets : StartActivated[w] <= StartAnts[w]
  /\ StartMembers \subseteq Wallets /\ Exempt \subseteq Wallets
  /\ {AuthRequired, AdminEndpoints, NativeMint, TestMode} \subseteq BOOLEAN
  /\ Units \subseteq 1 .. MaxUnits
  /\ FeeRates \subseteq Nat /\ MinOuts \subseteq Nat /\ Deadlines \subseteq Nat
  /\ Ops \subseteq AllOps
  /\ MaxBlocks \in Nat /\ MaxRequests \in Nat

VARIABLES
  ants,       \* ants_balance
  activated,  \* activated_ants
  members,    \* the wallets whose sessions reach the threshold
  assets,     \* asset_balances
  pools,      \* dex_pools
  registry,   \* token_registry
  pending,    \* pending_state_commit
  height,     \* the height of the last block
  saved,      \* its copies of the pools and of the registry
  requests,   \* how many requests there have been
  last,       \* history: the last request or other step, and its answer
  signer      \* history: who signed it

accountVars == <<ants, activated, members, assets>>
marketVars == <<pools, registry>>
blockVars == <<height, saved>>
vars == <<ants, activated, members, assets, pools, registry, pending, height,
          saved, requests, last, signer>>

Pool == [anet : Nat, token : Nat, lp : Nat, fee : 0 .. MaxFee, shares : [Wallets -> Nat]]

Token == [supply : Nat, owner : Wallets, mintable : BOOLEAN, held : [Wallets -> Nat]]

\* HashMap::insert
With(f, k, v) == [x \in DOMAIN f \cup {k} |-> IF x = k THEN v ELSE f[x]]

Empty == [s \in {} |-> 0]

NoAssets == [w \in Wallets |-> [s \in Symbols |-> 0]]

------------------------------------------------------------------------------
(***************************************************************************)
(* The arithmetic of dex.rs.                                               *)
(***************************************************************************)
\* What is left of the amount once the fee is taken.
AfterFee(n, fee) == (n * (FeeDen - fee)) \div FeeDen

\* Mutant of AmountOut: the trader is not charged for moving the price.
SpotAmountOut(n, in, out, fee) ==
  LET paid == (out * AfterFee(n, fee)) \div in IN IF paid < out THEN paid ELSE 0

\* What a swap of n pays out of reserves in and out; 0 stands for a refusal.
AmountOut(n, in, out, fee) ==
  (out * AfterFee(n, fee)) \div (in + AfterFee(n, fee))

\* Mutant of Newton: the estimate after the last one is returned.
NewtonOvershoots(v) ==
  LET better(x) == (x + v \div x) \div 2
      f[x \in 1 .. v] == IF better(x) < x THEN f[better(x)] ELSE better(x)
  IN  IF v <= 1 THEN v ELSE f[v]

\* integer_sqrt: Newton's method from above.
Newton(v) ==
  LET better(x) == (x + v \div x) \div 2
      f[x \in 1 .. v] == IF better(x) < x THEN f[better(x)] ELSE x
  IN  IF v <= 1 THEN v ELSE f[v]

InitialShares(a, t) == Newton(a * t)

\* A new pool and its only provider.
NewPool(w, a, t, fee) ==
  [anet |-> a, token |-> t, lp |-> InitialShares(a, t), fee |-> fee,
   shares |-> [x \in Wallets |-> IF x = w THEN InitialShares(a, t) ELSE 0]]

\* Mutant of Minted: the division rounds up.
MintedUp(p, a) == (a * p.lp + p.anet - 1) \div p.anet

\* The shares minted for a ANTS; 0 stands for a refusal.
Minted(p, a) == (a * p.lp) \div p.anet

\* The token that goes with a ANTS, to within one unit.
InRatio(p, a, t) == (a * p.token) \div p.anet \in (t - 1) .. (t + 1)

\* The pool with other reserves.
Reserves(p, a, t) == [p EXCEPT !.anet = a, !.token = t]

Issued(shares, w, m) == [shares EXCEPT ![w] = @ + m]

\* The pool once w has added a ANTS and t of the token.
Deepened(p, w, a, t) ==
  [Reserves(p, p.anet + a, p.token + t) EXCEPT
     !.lp = @ + Minted(p, a),
     !.shares = Issued(@, w, Minted(p, a))]

\* The pool once n has come in and out has gone out.
Swapped(p, n, out, toToken) ==
  IF toToken THEN Reserves(p, p.anet + n, p.token - out)
             ELSE Reserves(p, p.anet - out, p.token + n)

Quote(p, n, toToken) ==
  IF toToken THEN AmountOut(n, p.anet, p.token, p.fee)
             ELSE AmountOut(n, p.token, p.anet, p.fee)

Product(p) == p.anet * p.token

------------------------------------------------------------------------------
(***************************************************************************)
(* The accounts.                                                           *)
(***************************************************************************)
\* saturating_sub
Minus(m, n) == IF m < n THEN 0 ELSE m - n

\* ensure_eligible_account_mut; an account that is not there has nothing to
\* spend either.
Eligible(w) == TestMode \/ w \in Exempt \/ w \in members

\* Mutant of DebitAnet: the activation is left as it was.
DebitBalance(w, n) ==
  /\ ants[w] >= n
  /\ ants' = [ants EXCEPT ![w] = @ - n]
  /\ UNCHANGED activated

DebitAnet(w, n) ==
  /\ ants[w] >= n
  /\ ants' = [ants EXCEPT ![w] = @ - n]
  /\ activated' = [activated EXCEPT ![w] = Minus(@, n)]

DebitAsset(w, s, n) == assets' = [assets EXCEPT ![w][s] = @ - n]

CreditAsset(w, s, n) == assets' = [assets EXCEPT ![w][s] = @ + n]

\* Mutant of MoveAsset: nobody pays.
CopyAsset(w, to, s, n) == assets' = [assets EXCEPT ![to][s] = @ + n]

MoveAsset(w, to, s, n) ==
  assets' = [assets EXCEPT ![w][s] = @ - n, ![to][s] = @ + n]

\* The additions are checked.
Fits(balance, n) == balance + n <= MaxUnits

Did(op, ok) == last' = [op |-> op, ok |-> ok]

Answer(op, ok) ==
  /\ requests < MaxRequests
  /\ requests' = requests + 1
  /\ Did(op, ok)

\* Mutant of Accept: the consensus loop is not told.
AcceptQuietly(op) == UNCHANGED pending /\ Answer(op, TRUE)

\* The request is answered, and there is something for the next block.
Accept(op) == pending' = TRUE /\ Answer(op, TRUE)

\* The request is refused, though it has changed something.
Refuse(op) == UNCHANGED pending /\ Answer(op, FALSE)

------------------------------------------------------------------------------
(***************************************************************************)
(* The methods of NodeState.                                               *)
(***************************************************************************)
Init ==
  /\ ants = StartAnts
  /\ activated = StartActivated
  /\ members = StartMembers
  /\ assets = NoAssets
  /\ pools = Empty
  /\ registry = Empty
  /\ pending = FALSE
  /\ height = 0
  /\ saved = [pools |-> Empty, registry |-> Empty]
  /\ requests = 0
  /\ last = [op |-> "start", ok |-> TRUE]
  /\ signer = Admin

\* dex_mint_test_asset
MintTestAsset(w, s, n) ==
  /\ Fits(assets[w][s], n)
  /\ CreditAsset(w, s, n)
  /\ Accept("mint")
  /\ UNCHANGED <<ants, activated, members, marketVars, blockVars>>

\* What admin_genesis_bootstrap and admin_top_up_liquidity do first: w becomes a
\* member and both amounts are minted into its account.  The request ends here,
\* half done, when a balance would leave u64.
MintFails(op, w, s, a, t) ==
  /\ members' = members \cup {w}
  /\ IF Fits(ants[w], a)
     THEN ~Fits(assets[w][s], t) /\ ants' = [ants EXCEPT ![w] = @ + a]
     ELSE UNCHANGED ants
  /\ Refuse(op)
  /\ UNCHANGED <<activated, assets, marketVars, blockVars>>

\* Both amounts are minted and paid into a pool: only the activation goes down.
MintedAndSpent(w, s, a, t) ==
  /\ Fits(ants[w], a) /\ Fits(assets[w][s], t)
  /\ members' = members \cup {w}
  /\ activated' = [activated EXCEPT ![w] = Minus(@, a)]
  /\ UNCHANGED <<ants, assets>>

\* admin_genesis_bootstrap
GenesisBootstrap(w, s, a, t, fee) ==
  /\ s \notin DOMAIN pools
  /\ \/ MintFails("bootstrap", w, s, a, t)
     \/ /\ MintedAndSpent(w, s, a, t)
        /\ IF fee <= MaxFee
           THEN pools' = With(pools, s, NewPool(w, a, t, fee)) /\ Accept("bootstrap")
           ELSE UNCHANGED pools /\ Refuse("bootstrap")
        /\ UNCHANGED <<registry, blockVars>>

\* dex_create_pool
CreatePool(w, s, a, t, fee) ==
  /\ s \notin DOMAIN pools
  /\ Eligible(w)
  /\ DebitAnet(w, a)
  /\ \/ assets[w][s] < t /\ Refuse("pool") /\ UNCHANGED <<assets, pools>>
     \/ /\ assets[w][s] >= t
        /\ DebitAsset(w, s, t)
        /\ IF fee <= MaxFee
           THEN pools' = With(pools, s, NewPool(w, a, t, fee)) /\ Accept("pool")
           ELSE UNCHANGED pools /\ Refuse("pool")
  /\ UNCHANGED <<members, registry, blockVars>>

\* dex_wrap_anet
WrapAnet(w, n) ==
  /\ Eligible(w)
  /\ DebitAnet(w, n)
  /\ IF Fits(assets[w][Wanet], n)
     THEN CreditAsset(w, Wanet, n) /\ Accept("wrap")
     ELSE UNCHANGED assets /\ Refuse("wrap")
  /\ UNCHANGED <<members, marketVars, blockVars>>

\* dex_unwrap_wanet
UnwrapWanet(w, n) ==
  /\ Eligible(w)
  /\ assets[w][Wanet] >= n
  /\ DebitAsset(w, Wanet, n)
  /\ IF Fits(ants[w], n)
     THEN ants' = [ants EXCEPT ![w] = @ + n] /\ Accept("unwrap")
     ELSE UNCHANGED ants /\ Refuse("unwrap")
  /\ UNCHANGED <<activated, members, marketVars, blockVars>>

\* The checks of dex_add_liquidity before the provider pays.
Acceptable(s, a, t) ==
  s \in DOMAIN pools /\ InRatio(pools[s], a, t) /\ Minted(pools[s], a) > 0

\* dex_add_liquidity
AddLiquidity(w, s, a, t) ==
  /\ Acceptable(s, a, t)
  /\ Eligible(w)
  /\ DebitAnet(w, a)
  /\ \/ assets[w][s] < t /\ Refuse("liquidity") /\ UNCHANGED <<assets, pools>>
     \/ /\ assets[w][s] >= t
        /\ DebitAsset(w, s, t)
        /\ pools' = [pools EXCEPT ![s] = Deepened(@, w, a, t)]
        /\ Accept("liquidity")
  /\ UNCHANGED <<members, registry, blockVars>>

\* admin_top_up_liquidity: what was minted stays when dex_add_liquidity refuses.
TopUpLiquidity(w, s, a, t) ==
  \/ MintFails("topup", w, s, a, t)
  \/ /\ Acceptable(s, a, t)
     /\ MintedAndSpent(w, s, a, t)
     /\ pools' = [pools EXCEPT ![s] = Deepened(@, w, a, t)]
     /\ Accept("topup")
     /\ UNCHANGED <<registry, blockVars>>
  \/ /\ ~Acceptable(s, a, t)
     /\ Fits(ants[w], a) /\ Fits(assets[w][s], t)
     /\ members' = members \cup {w}
     /\ ants' = [ants EXCEPT ![w] = @ + a]
     /\ CreditAsset(w, s, t)
     /\ Refuse("topup")
     /\ UNCHANGED <<activated, marketVars, blockVars>>

\* The wallet's side of a swap: it pays n and is to receive out; paid says
\* whether it did, or its balance would have left u64.
Traded(w, s, n, out, toToken, paid) ==
  IF toToken
  THEN /\ DebitAnet(w, n)
       /\ paid = Fits(assets[w][s], out)
       /\ IF paid THEN CreditAsset(w, s, out) ELSE UNCHANGED assets
  ELSE /\ assets[w][s] >= n
       /\ DebitAsset(w, s, n)
       /\ paid = Fits(ants[w], out)
       /\ ants' = IF paid THEN [ants EXCEPT ![w] = @ + out] ELSE ants
       /\ UNCHANGED activated

\* dex_swap: the wallet is settled before min_amount_out is looked at, and the
\* product of the reserves is compared after they have been changed.
Swap(w, s, n, toToken, minOut, deadline) ==
  /\ height <= deadline
  /\ s \in DOMAIN pools
  /\ Eligible(w)
  /\ LET out == Quote(pools[s], n, toToken)
         after == Swapped(pools[s], n, out, toToken)
     IN  /\ out > 0
         /\ \E paid \in BOOLEAN :
              /\ Traded(w, s, n, out, toToken, paid)
              /\ IF paid /\ out >= minOut
                 THEN /\ pools' = [pools EXCEPT ![s] = after]
                      /\ IF Product(after) >= Product(pools[s])
                         THEN Accept("swap") ELSE Refuse("swap")
                 ELSE UNCHANGED pools /\ Refuse("swap")
  /\ UNCHANGED <<members, registry, blockVars>>

\* anrc20_create_token
CreateToken(w, s, n, mintable) ==
  /\ s \notin DOMAIN registry
  /\ Fits(assets[w][s], n)
  /\ CreditAsset(w, s, n)
  /\ registry' = With(registry, s,
       [supply |-> n, owner |-> w, mintable |-> mintable,
        held |-> [x \in Wallets |-> IF x = w THEN n ELSE 0]])
  /\ Accept("create")
  /\ UNCHANGED <<ants, activated, members, pools, blockVars>>

\* Mutant of MintedTo: the supply is left as it was.
HeldBy(r, to, n) == [r EXCEPT !.held[to] = @ + n]

\* The registry's entry once n more are minted to a wallet.
MintedTo(r, to, n) ==
  [r EXCEPT !.supply = @ + n, !.held[to] = @ + n]

\* anrc20_mint: the registry is changed before the account is; an overflow of
\* the account's balance leaves it changed.  The entry of a wallet fits in u64
\* whenever the supply does.
MintToken(w, to, s, n) ==
  /\ s \in DOMAIN registry
  /\ registry[s].mintable /\ registry[s].owner = w
  /\ Fits(registry[s].supply, n)
  /\ registry' = [registry EXCEPT ![s] = MintedTo(@, to, n)]
  /\ IF Fits(assets[to][s], n)
     THEN CreditAsset(to, s, n) /\ Accept("minttoken")
     ELSE UNCHANGED assets /\ Refuse("minttoken")
  /\ UNCHANGED <<ants, activated, members, pools, blockVars>>

\* anrc20_transfer: the accounts are changed before the registry is looked at.
\* An account that has come by the token in a swap may hold more of it than its
\* entry in the registry says.
TransferToken(w, to, s, n) ==
  LET recorded == s \in DOMAIN registry /\ registry[s].held[w] >= n
  IN  /\ w # to
      /\ assets[w][s] >= n
      /\ \/ /\ ~Fits(assets[to][s], n)
            /\ DebitAsset(w, s, n)
            /\ Refuse("transfer") /\ UNCHANGED registry
         \/ /\ Fits(assets[to][s], n) /\ ~recorded
            /\ MoveAsset(w, to, s, n)
            /\ Refuse("transfer") /\ UNCHANGED registry
         \/ /\ Fits(assets[to][s], n) /\ recorded
            /\ MoveAsset(w, to, s, n)
            /\ registry' = [registry EXCEPT ![s].held[w] = @ - n,
                                            ![s].held[to] = @ + n]
            /\ Accept("transfer")
      /\ UNCHANGED <<ants, activated, members, pools, blockVars>>

------------------------------------------------------------------------------
(***************************************************************************)
(* The routes.  A user's request names a wallet, carries an action that    *)
(* some wallet has signed, and comes with a session or without one.        *)
(***************************************************************************)
\* What a session cookie proves, where one is required at all.
InSession(wallet, session) == ~AuthRequired \/ session = wallet

\* The wallet verify_signed_action_authorization returns is the one named.
SignedBy(wallet, by) == wallet = by /\ signer' = by

Authorised(wallet, by, session) == InSession(wallet, session) /\ SignedBy(wallet, by)

\* The routes for the holder of the administrator's key.
ByAdmin == signer' = Admin

AdminMayMint == AdminEndpoints /\ NativeMint /\ ByAdmin

PostDexMintAsset ==
  /\ "mint" \in Ops
  /\ ByAdmin
  /\ \E w \in Wallets, s \in Symbols, n \in Units : MintTestAsset(w, s, n)

PostGenesisBootstrap ==
  /\ "bootstrap" \in Ops
  /\ AdminMayMint
  /\ \E w \in Wallets, s \in Symbols, a, t \in Units, fee \in FeeRates :
       GenesisBootstrap(w, s, a, t, fee)

PostAdminAddLiquidity ==
  /\ "topup" \in Ops
  /\ AdminMayMint
  /\ \E w \in Wallets, s \in Symbols, a, t \in Units : TopUpLiquidity(w, s, a, t)

\* record_app_activity: an event for the next block, which alone makes one.
RecordActivity(op) ==
  /\ Accept(op)
  /\ UNCHANGED <<accountVars, marketVars, blockVars>>

\* A call with the wrong key is answered with an error and recorded, like one
\* that asks for the address of a seed.
PostWithWrongKey ==
  /\ "audit" \in Ops
  /\ signer' = NoSession
  /\ RecordActivity("wrongkey")

\* post_app_activity: what names a wallet is signed by it or comes with its
\* session; what names none, NoSession here, is anybody's.
PostAppActivity(wallet, by, session) ==
  /\ "audit" \in Ops
  /\ wallet # NoSession => wallet \in {by, session}
  /\ signer' = by
  /\ RecordActivity("activity")

PostDexCreatePool(by, session) ==
  /\ "pool" \in Ops
  /\ \E w \in Wallets, s \in Symbols, a, t \in Units, fee \in FeeRates :
       Authorised(w, by, session) /\ CreatePool(w, s, a, t, fee)

PostDexWrap(by, session) ==
  /\ "wrap" \in Ops
  /\ \E w \in Wallets, n \in Units : Authorised(w, by, session) /\ WrapAnet(w, n)

PostDexUnwrap(by, session) ==
  /\ "wrap" \in Ops
  /\ \E w \in Wallets, n \in Units : Authorised(w, by, session) /\ UnwrapWanet(w, n)

PostDexAddLiquidity(by, session) ==
  /\ "liquidity" \in Ops
  /\ \E w \in Wallets, s \in Symbols, a, t \in Units :
       Authorised(w, by, session) /\ AddLiquidity(w, s, a, t)

PostDexSwapExecute(by, session) ==
  /\ "swap" \in Ops
  /\ \E w \in Wallets, s \in Symbols, n \in Units, toToken \in BOOLEAN,
        minOut \in MinOuts, deadline \in Deadlines :
       Authorised(w, by, session) /\ Swap(w, s, n, toToken, minOut, deadline)

\* post_admin_dex_swap_execute wants the key and the trader's signature, and no
\* session.
PostAdminSwapExecute(by) ==
  /\ "swap" \in Ops
  /\ AdminEndpoints
  /\ SignedBy(by, by)
  /\ \E s \in Symbols, n \in Units, toToken \in BOOLEAN,
        minOut \in MinOuts, deadline \in Deadlines :
       Swap(by, s, n, toToken, minOut, deadline)

\* The ANRC-20 routes take the wallet from the signed action and ask for no
\* session.
PostAnrc20Create(by) ==
  /\ "token" \in Ops
  /\ signer' = by
  /\ \E s \in Symbols, n \in Units \cup {0}, mintable \in BOOLEAN :
       CreateToken(by, s, n, mintable)

PostAnrc20Mint(by) ==
  /\ "token" \in Ops
  /\ signer' = by
  /\ \E to \in Wallets, s \in Symbols, n \in Units : MintToken(by, to, s, n)

PostAnrc20Transfer(by) ==
  /\ "token" \in Ops
  /\ signer' = by
  /\ \E to \in Wallets, s \in Symbols, n \in Units : TransferToken(by, to, s, n)

------------------------------------------------------------------------------
(***************************************************************************)
(* Blocks and restarts.                                                    *)
(***************************************************************************)
Snapshot == [pools |-> pools, registry |-> registry]

\* create_block.  There may be other work than the DEX's for a block.
Seal ==
  /\ height < MaxBlocks
  /\ height' = height + 1
  /\ saved' = Snapshot
  /\ pending' = FALSE
  /\ Did("seal", TRUE)
  /\ UNCHANGED <<accountVars, marketVars, requests, signer>>

\* The process stops and starts: from_genesis.
Restart ==
  /\ "restart" \in Ops
  /\ ants' = StartAnts
  /\ activated' = StartActivated
  /\ members' = StartMembers
  /\ assets' = NoAssets
  /\ pools' = saved.pools
  /\ registry' = saved.registry
  /\ pending' = FALSE
  /\ Did("restart", TRUE)
  /\ UNCHANGED <<blockVars, requests, signer>>

AdminRequests ==
  \/ PostDexMintAsset \/ PostGenesisBootstrap \/ PostAdminAddLiquidity
  \/ PostWithWrongKey

UserRequests ==
  \/ \E by \in Wallets, session \in Wallets \cup {NoSession} :
       \/ PostDexCreatePool(by, session)
       \/ PostDexWrap(by, session) \/ PostDexUnwrap(by, session)
       \/ PostDexAddLiquidity(by, session) \/ PostDexSwapExecute(by, session)
       \/ \E wallet \in Wallets \cup {NoSession} : PostAppActivity(wallet, by, session)
  \/ \E by \in Wallets :
       \/ PostAdminSwapExecute(by)
       \/ PostAnrc20Create(by) \/ PostAnrc20Mint(by) \/ PostAnrc20Transfer(by)

Next == AdminRequests \/ UserRequests \/ Seal \/ Restart

Spec == Init /\ [][Next]_vars

------------------------------------------------------------------------------
(***************************************************************************)
(* Properties.                                                             *)
(***************************************************************************)
MarketOK(ps, rs) ==
  /\ DOMAIN ps \subseteq Symbols /\ \A s \in DOMAIN ps : ps[s] \in Pool
  /\ DOMAIN rs \subseteq Symbols /\ \A s \in DOMAIN rs : rs[s] \in Token

\* The state is well-formed: in particular no balance leaves u64, and no
\* subtraction, from a balance or from a reserve, goes below zero.
TypeOK ==
  /\ ants \in [Wallets -> 0 .. MaxUnits]
  /\ activated \in [Wallets -> Nat]
  /\ members \subseteq Wallets
  /\ assets \in [Wallets -> [Symbols -> 0 .. MaxUnits]]
  /\ MarketOK(pools, registry)
  /\ pending \in BOOLEAN
  /\ height \in Nat /\ requests \in Nat
  /\ MarketOK(saved.pools, saved.registry)
  /\ signer \in Wallets \cup {Admin, NoSession}

\* No pool, live or stored, is ever drained of one of its sides, however swaps
\* and deposits round: dex_add_liquidity divides by the ANET reserve without
\* asking whether it is zero.
ReservesPositive ==
  \A ps \in {pools, saved.pools} : \A s \in DOMAIN ps :
    ps[s].anet > 0 /\ ps[s].token > 0

\* What is left of an activation is never more than the balance it is part of:
\* the Web2 sync subtracts the one from the other and stops when it cannot.
ActivatedBounded == \A w \in Wallets : activated[w] <= ants[w]

SharesAddUp ==
  \A s \in DOMAIN pools :
    /\ pools[s].lp > 0
    /\ pools[s].lp = SumFunctionOnSet(pools[s].shares, Wallets)

RegistryAddsUp ==
  \A s \in DOMAIN registry :
    registry[s].supply = SumFunctionOnSet(registry[s].held, Wallets)

\* Every pool has shares, and the positions of its providers add up to them; the
\* supply of a token is what its registry says wallets hold.  dex_add_liquidity,
\* anrc20_mint and anrc20_transfer change the one before the other and can stop
\* in between.
BooksAddUp == SharesAddUp /\ RegistryAddsUp

\* A change of the pools is either in the last block or known to the consensus
\* loop as work for the next one, whatever requests failed in between.
PoolsCommitted == pending \/ saved.pools = pools

\* What a swap pays is the most that leaves the product of the reserves, after
\* the fee, as large as it was: no rounding in the trader's favour, and not a
\* unit lost beside it.
QuoteIsBest ==
  \A s \in DOMAIN pools : \A n \in Units, toToken \in BOOLEAN :
    LET p == pools[s]
        after(out) == Swapped(p, AfterFee(n, p.fee), out, toToken)
        out == Quote(p, n, toToken)
    IN  /\ Product(after(out)) >= Product(p)
        /\ Product(after(out + 1)) < Product(p)

\* The product of a pool's reserves never shrinks, whatever swaps and deposits
\* are made of it; only a restart goes back, to the last block's pool.
ProductGrows ==
  [][last'.op # "restart" =>
       \A s \in DOMAIN pools :
         s \in DOMAIN pools' /\ Product(pools'[s]) >= Product(pools[s])]_vars

\* A deposit does not take from the providers who are already there: per share
\* there is as much ANET as before, and all the shares together lose less than
\* two units of the token, which is what the check of the ratio lets through.
ShareKept ==
  [][last'.op \in {"liquidity", "topup"} =>
       \A s \in DOMAIN pools :
         LET p == pools[s]
             q == pools'[s]
         IN  /\ q.anet * p.lp >= p.anet * q.lp
             /\ (q.token - p.token + 2) * p.lp > p.token * (q.lp - p.lp)]_vars

\* The shares of a new pool are the integer square root of the product of its
\* reserves.
SharesAreRoot ==
  [][\A s \in DOMAIN pools' \ DOMAIN pools :
       LET p == pools'[s]
       IN  p.lp * p.lp <= Product(p) /\ Product(p) < (p.lp + 1) * (p.lp + 1)]_vars

AnetIn(balances, ps) ==
  SumFunctionOnSet(balances, Wallets)
    + SumFunctionOnSet([s \in DOMAIN ps |-> ps[s].anet], DOMAIN ps)

UnitsIn(balances, ps, s) ==
  SumFunctionOnSet([w \in Wallets |-> balances[w][s]], Wallets)
    + IF s \in DOMAIN ps THEN ps[s].token ELSE 0

\* An accepted request that mints nothing neither makes nor loses anything: ANET
\* and its wrapped form together, and every other token, are the same in the
\* wallets and the pools before and after.
AcceptedConserves ==
  [][last'.ok /\ last'.op \in {"pool", "wrap", "unwrap", "liquidity", "swap", "transfer"} =>
       /\ AnetIn(ants', pools') + UnitsIn(assets', pools', Wanet)
            = AnetIn(ants, pools) + UnitsIn(assets, pools, Wanet)
       /\ \A s \in Symbols \ {Wanet} :
            UnitsIn(assets', pools', s) = UnitsIn(assets, pools, s)]_vars

\* While the node runs, a wallet's balances fall only by a request it signed,
\* whatever else is minted into it or spent from it.
OnlySignerPays ==
  [][last'.op # "restart" =>
       \A w \in Wallets :
         ants'[w] < ants[w] \/ (\E s \in Symbols : assets'[w][s] < assets[w][s])
           => signer' = w]_vars
==============================================================================
