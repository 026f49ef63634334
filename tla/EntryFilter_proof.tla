------------------------- MODULE EntryFilter_proof --------------------------
(***************************************************************************)
(* For any set of fields, any limit and any supply: the authorities of a   *)
(* mint that was verified stay gone until the BUY, its largest holder is   *)
(* within the limit, up to the rounding, when the share is computed from   *)
(* two reads, and no gate is undone by a later one.  A read of an older    *)
(* state is trusted for as long as the pipeline takes because what it saw  *)
(* cannot come back.                                                       *)
(***************************************************************************)
EXTENDS EntryFilter, TLAPS

(* From the account read on, by whichever way the mint got past it.         *)
Cleared ==
  pc \in {"supply", "largest", "entry", "admitted"} /\ Verified =>
    (rug.freeze => ~chain.freeze) /\ (rug.mint => ~chain.mintable)

(* The finalised account has every authority that is left.                  *)
Older ==
  /\ account.freeze = FALSE => chain.freeze = FALSE
  /\ account.mintable = FALSE => chain.mintable = FALSE

USE FilterAssumption

(* The chain only ever takes authorities away. *)
LEMMA ChainStep ==
  ASSUME chain \in Mints, Chain
  PROVE  /\ chain.freeze = FALSE => chain'.freeze = FALSE
         /\ chain.mintable = FALSE => chain'.mintable = FALSE
<1>1. ASSUME NEW auth \in {"freeze", "mintable"}, Revoke(auth)
      PROVE  /\ chain.freeze = FALSE => chain'.freeze = FALSE
             /\ chain.mintable = FALSE => chain'.mintable = FALSE
  BY <1>1 DEF Revoke, Mints
<1>2. ASSUME NEW l \in 0..MaxSupply, NEW r \in 0..MaxSupply, Trade(l, r)
      PROVE  /\ chain.freeze = FALSE => chain'.freeze = FALSE
             /\ chain.mintable = FALSE => chain'.mintable = FALSE
  BY <1>2 DEF Trade, Mints
<1>3. ASSUME NEW part \in {"largest", "rest"}, MintMore(part) \/ Burn(part)
      PROVE  /\ chain.freeze = FALSE => chain'.freeze = FALSE
             /\ chain.mintable = FALSE => chain'.mintable = FALSE
  BY <1>3 DEF MintMore, Burn, Mints
<1>4. ASSUME FinaliseAccount \/ FinaliseSupply PROVE chain' = chain
  BY <1>4 DEF FinaliseAccount, FinaliseSupply
<1> QED
  BY <1>1, <1>2, <1>3, <1>4 DEF Chain

(* The types hold initially.                                                *)
LEMMA TypeStart == Init => TypeOK
<1> SUFFICES ASSUME Init PROVE TypeOK
  OBVIOUS
<1>1. rug \in RugSettings
  BY DEF Init
<1>2. /\ gates \in [Fields -> SUBSET Kinds] /\ ev \in [Fields -> {"missing", "bad", "good"}]
      /\ chain \in Mints /\ pc = "stream"
  BY DEF Init
<1>3. total \in 0..MaxSupply
  BY DEF Init, Supply, Mints
<1>5. account \in [freeze : BOOLEAN, mintable : BOOLEAN, empty : BOOLEAN]
  BY DEF Init, Account, Mints
<1>4. erred \in BOOLEAN /\ burnt \in BOOLEAN
  BY Zenon DEF Init
<1> QED
  BY <1>1, <1>2, <1>3, <1>4, <1>5, Zenon DEF TypeOK

(* Every step of AllowMint, of the gates and of the chain keeps the types.  *)
LEMMA TypeInduction == TypeOK /\ [Next]_vars => TypeOK'
<1> SUFFICES ASSUME TypeOK, [Next]_vars PROVE TypeOK'
  OBVIOUS
<1> USE DEF TypeOK, config, Decide
<1>0. Supply \in 0..MaxSupply
  BY DEF Supply, Mints
<1>1. CASE OnMsg
  BY <1>1 DEF OnMsg
<1>2. CASE RequireInitialBuy
  BY <1>2 DEF RequireInitialBuy
<1>3. CASE RPCFails
  BY <1>3 DEF RPCFails
<1>4. ASSUME NEW sane \in BOOLEAN, ReadAccount(sane) PROVE TypeOK'
  BY <1>4 DEF ReadAccount
<1>5. CASE ReadSupply
  BY <1>5, <1>0 DEF ReadSupply
<1>6. CASE ReadLargest
  BY <1>6 DEF ReadLargest
<1>7. CASE EntrySnapshotPasses
  BY <1>7 DEF EntrySnapshotPasses
<1>8. ASSUME NEW auth \in {"freeze", "mintable"}, Revoke(auth) PROVE TypeOK'
  BY <1>8 DEF Revoke, Mints
<1>9. ASSUME NEW l \in 0..MaxSupply, NEW r \in 0..MaxSupply, Trade(l, r) PROVE TypeOK'
  BY <1>9 DEF Trade, Mints, Supply
<1>10. ASSUME NEW part \in {"largest", "rest"}, MintMore(part) PROVE TypeOK'
  BY <1>10 DEF MintMore, Mints, Supply
<1>11. ASSUME NEW part \in {"largest", "rest"}, Burn(part) PROVE TypeOK'
  BY <1>11 DEF Burn, Mints
<1>12. CASE FinaliseAccount
  BY <1>12 DEF FinaliseAccount, Account, Mints
<1>13. CASE FinaliseSupply
  BY <1>13, <1>0 DEF FinaliseSupply
<1>14. CASE UNCHANGED vars
  BY <1>14 DEF vars
<1> QED
  BY <1>1, <1>2, <1>3, <1>4, <1>5, <1>6, <1>7, <1>8, <1>9, <1>10, <1>11, <1>12, <1>13, <1>14
     DEF Next, HandleMint, AllowMint, Chain

(* The finalised account follows the chain, which gives nothing back.       *)
LEMMA OlderInduction == TypeOK /\ Older /\ [Next]_vars => Older'
<1> SUFFICES ASSUME TypeOK, Older, [Next]_vars PROVE Older'
  OBVIOUS
<1>1. CASE FinaliseAccount
  BY <1>1 DEF FinaliseAccount, Account, Older
<1>2. CASE Chain /\ account' = account
  BY <1>2, ChainStep DEF Older, TypeOK
<1>3. CASE UNCHANGED <<chain, account>>
  BY <1>3 DEF Older
<1> QED
  BY <1>1, <1>2, <1>3 DEF Next, OnMsg, HandleMint, RequireInitialBuy, AllowMint, ReadAccount,
     ReadSupply, ReadLargest, RPCFails, EntrySnapshotPasses, Chain, Revoke, Trade, MintMore,
     Burn, FinaliseSupply, vars

(* Past the account read, a mint that was let through without an RPC error  *)
(* has no authority left, and the chain never gives one back.               *)
LEMMA ClearedInduction == TypeOK /\ Older /\ Cleared /\ [Next]_vars => Cleared'
<1> SUFFICES ASSUME TypeOK, Older, Cleared, [Next]_vars PROVE Cleared'
  OBVIOUS
<1> USE DEF Cleared, Verified, config, Decide
<1>1. CASE OnMsg
  BY <1>1 DEF OnMsg
<1>2. CASE RequireInitialBuy
  BY <1>2 DEF RequireInitialBuy
<1>3. CASE RPCFails
  BY <1>3 DEF RPCFails
<1>4. ASSUME NEW sane \in BOOLEAN, ReadAccount(sane) PROVE Cleared'
  <2>1. account.freeze \in BOOLEAN /\ account.mintable \in BOOLEAN
    BY DEF TypeOK
  <2> QED
    BY <1>4, <2>1 DEF ReadAccount, Older
<1>5. CASE ReadSupply
  BY <1>5 DEF ReadSupply
<1>6. CASE ReadLargest
  BY <1>6 DEF ReadLargest
<1>7. CASE EntrySnapshotPasses
  BY <1>7 DEF EntrySnapshotPasses
<1>8. CASE Chain
  <2>1. UNCHANGED <<rug, pc, erred>>
    BY <1>8 DEF Chain, Revoke, Trade, MintMore, Burn, FinaliseAccount, FinaliseSupply
  <2>2. chain.freeze \in BOOLEAN /\ chain.mintable \in BOOLEAN
    BY DEF TypeOK, Mints
  <2>3. /\ chain.freeze = FALSE => chain'.freeze = FALSE
        /\ chain.mintable = FALSE => chain'.mintable = FALSE
    BY <1>8, ChainStep DEF TypeOK
  <2> QED
    BY <2>1, <2>2, <2>3
<1>9. CASE UNCHANGED vars
  BY <1>9 DEF vars
<1> QED
  BY <1>1, <1>2, <1>3, <1>4, <1>5, <1>6, <1>7, <1>8, <1>9 DEF Next, HandleMint, AllowMint

(* AllowMint reads the authorities some calls before the BUY: nobody can    *)
(* freeze, or mint more of, a token it verified, then or later.             *)
THEOREM AuthoritiesStayGone == Spec => []AuthoritiesGone
<1>1. Init => TypeOK /\ Older /\ Cleared
  BY TypeStart DEF Init, Older, Account, Cleared
<1>2. TypeOK /\ Cleared => AuthoritiesGone
  BY DEF Cleared, AuthoritiesGone
<1> QED
  BY <1>1, <1>2, TypeInduction, OlderInduction, ClearedInduction, PTL DEF Spec

-----------------------------------------------------------------------------
(* The gates, by the stages the mint has passed.  The event and the         *)
(* configuration do not change on the way.                                  *)
Gated ==
  /\ pc \notin {"stream", "dropped"} => Passes({"allow", "deny"})
  /\ pc \notin {"stream", "handle", "dropped"} => Passes({"require"})
  /\ pc = "admitted" => Passes({"min"})

(* Every step keeps that.                                                   *)
LEMMA GatedInduction == TypeOK /\ Gated /\ [Next]_vars => Gated'
<1> SUFFICES ASSUME TypeOK, Gated, [Next]_vars PROVE Gated'
  OBVIOUS
<1>0. UNCHANGED <<gates, ev>>
  BY DEF Next, OnMsg, HandleMint, RequireInitialBuy, AllowMint, ReadAccount, ReadSupply, ReadLargest,
     RPCFails, EntrySnapshotPasses, Chain, Revoke, Trade, MintMore, Burn, FinaliseAccount,
     FinaliseSupply, vars, config
<1>1. \A kinds : Passes(kinds)' = Passes(kinds)
  BY <1>0 DEF Passes
<1>2. CASE OnMsg
  BY <1>1, <1>2 DEF OnMsg, AllowStreamEvent, Decide, Gated
<1>3. CASE RequireInitialBuy
  BY <1>1, <1>3 DEF RequireInitialBuy, Decide, Gated
<1>4. CASE AllowMint
  BY <1>1, <1>4 DEF AllowMint, ReadAccount, ReadSupply, ReadLargest, RPCFails, Decide, Gated
<1>5. CASE EntrySnapshotPasses
  BY <1>1, <1>5 DEF EntrySnapshotPasses, Decide, Gated
<1>6. CASE Chain \/ UNCHANGED vars
  BY <1>1, <1>6 DEF Chain, Revoke, Trade, MintMore, Burn, FinaliseAccount, FinaliseSupply, vars, Gated
<1> QED
  BY <1>2, <1>3, <1>4, <1>5, <1>6 DEF Next, HandleMint

(* AllowStreamEvent, the initialBuy requirement and entrySnapshotPasses     *)
(* together: what is bought satisfies every gate of its fields, whichever   *)
(* of the three looked at the field, and whatever AllowMint met.            *)
THEOREM EveryGateHolds == Spec => []GatesAgree
<1>1. Init => TypeOK /\ Gated
  BY TypeStart DEF Init, Gated
<1>2. TypeOK /\ Gated => GatesAgree
  <2> SUFFICES ASSUME TypeOK, Gated, pc = "admitted", NEW f \in Fields
               PROVE  /\ ev[f] = "bad" => gates[f] \subseteq {"require"}
                      /\ ev[f] = "missing" => gates[f] \cap {"allow", "require"} = {}
    BY DEF GatesAgree
  <2>1. gates[f] \subseteq Kinds
    BY DEF TypeOK
  <2>2. /\ \A k \in gates[f] \cap {"allow", "deny"} : ev[f] \notin Rejected(k)
        /\ \A k \in gates[f] \cap {"require"} : ev[f] \notin Rejected(k)
        /\ \A k \in gates[f] \cap {"min"} : ev[f] \notin Rejected(k)
    BY DEF Gated, Passes
  <2>3. /\ Rejected("allow") = {"missing", "bad"} /\ Rejected("require") = {"missing"}
        /\ Rejected("deny") = {"bad"} /\ Rejected("min") = {"bad"}
    BY DEF Rejected
  <2> QED
    BY <2>1, <2>2, <2>3 DEF Kinds
<1> QED
  BY <1>1, <1>2, TypeInduction, GatedInduction, PTL DEF Spec

-----------------------------------------------------------------------------
(* Since the moment of the state that checkTopHolderPct reads first the     *)
(* supply only grows, unless some of it is burnt: trades keep it, an        *)
(* authority given up keeps it.                                             *)
SupplyRead == burnt = FALSE => total <= Supply

(* Every step keeps that.                                                   *)
LEMMA SupplyInduction == TypeOK /\ SupplyRead /\ [Next]_vars => SupplyRead'
<1> SUFFICES ASSUME TypeOK, SupplyRead, [Next]_vars, burnt' = FALSE
             PROVE  total' <= Supply'
  BY DEF SupplyRead
<1>0. /\ chain \in Mints /\ total \in Nat /\ Supply \in Nat
      /\ chain.largest \in Nat /\ chain.rest \in Nat
  BY DEF TypeOK, Mints, Supply
<1>1. CASE UNCHANGED <<chain, total, burnt>>
  BY <1>1 DEF SupplyRead, Supply
<1>2. ASSUME NEW auth \in {"freeze", "mintable"}, Revoke(auth) PROVE total' <= Supply'
  <2>1. burnt' = burnt /\ total' = total /\ Supply' = Supply
    BY <1>0, <1>2 DEF Revoke, Supply, Mints
  <2> QED
    BY <2>1 DEF SupplyRead
<1>3. ASSUME NEW l \in 0..MaxSupply, NEW r \in 0..MaxSupply, Trade(l, r) PROVE total' <= Supply'
  <2>1. burnt' = burnt /\ total' = total /\ Supply' = Supply
    BY <1>0, <1>3 DEF Trade, Supply, Mints
  <2> QED
    BY <2>1 DEF SupplyRead
<1>4. ASSUME NEW part \in {"largest", "rest"}, MintMore(part) PROVE total' <= Supply'
  <2>1. burnt' = burnt /\ total' = total /\ Supply' = Supply + 1
    BY <1>0, <1>4 DEF MintMore, Supply, Mints
  <2> QED
    BY <1>0, <2>1 DEF SupplyRead
<1>5. ASSUME NEW part \in {"largest", "rest"}, Burn(part) PROVE FALSE
  BY <1>5 DEF Burn
<1>6. CASE FinaliseSupply
  BY <1>0, <1>6 DEF FinaliseSupply, Supply
<1>7. CASE OnMsg \/ HandleMint \/ FinaliseAccount \/ UNCHANGED vars
  <2>1. UNCHANGED <<chain, total, burnt>>
    BY <1>7 DEF OnMsg, HandleMint, RequireInitialBuy, AllowMint, ReadAccount, ReadSupply,
       ReadLargest, RPCFails, EntrySnapshotPasses, FinaliseAccount, vars
  <2> QED
    BY <1>1, <2>1
<1> QED
  BY <1>2, <1>3, <1>4, <1>5, <1>6, <1>7 DEF Next, Chain

(* Products grow with their factors.                                        *)
LEMMA Product ==
  ASSUME NEW a \in Nat, NEW b \in Nat, NEW c \in Nat, NEW d \in Nat, a <= b, c <= d
  PROVE  a * c <= b * d
<1>1. a * c <= b * c
  OBVIOUS
<1>2. b * c <= b * d
  OBVIOUS
<1>3. a * c \in Nat /\ b * c \in Nat /\ b * d \in Nat
  OBVIOUS
<1> QED
  BY <1>1, <1>2, <1>3

(* checkTopHolderPct computes a share from two calls and rounds it: what it *)
(* lets through had, at the moment of the second call, a largest holder     *)
(* within the limit, or above it by less than the next float64, unless      *)
(* supply was burnt since the state that the first call saw.                *)
THEOREM HolderIsWithinLimit == Spec => HolderWithinLimit
<1>1. Init => TypeOK /\ SupplyRead
  BY TypeStart DEF Init, SupplyRead, Supply, Mints
<1>2. TypeOK /\ SupplyRead /\ [Next]_vars
        => [pc = "largest" /\ pc' = "entry" /\ ~erred' /\ ~burnt
              => Share < (Limit + 1) * Supply]_vars
  <2> SUFFICES ASSUME TypeOK, SupplyRead, Next, pc = "largest", pc' = "entry",
                      ~erred', ~burnt
               PROVE  Share < (Limit + 1) * Supply
    OBVIOUS
  <2>0. burnt = FALSE
    BY Zenon DEF TypeOK
  <2>1. ReadLargest
    BY DEF Next, OnMsg, HandleMint, RequireInitialBuy, AllowMint, ReadAccount, ReadSupply, RPCFails,
       EntrySnapshotPasses, Chain, Revoke, Trade, MintMore, Burn, FinaliseAccount, FinaliseSupply
  <2>2. PICK n \in Rounded : n <= Limit
    BY <2>1 DEF ReadLargest, Decide
  <2>3. /\ total \in Nat /\ Supply \in Nat /\ total <= Supply /\ Limit \in Nat /\ Share \in Nat
    <3>1. chain.largest \in Nat /\ 100 * Grid \in Nat
      BY DEF TypeOK, Mints
    <3>2. Share \in Nat
      BY <3>1 DEF Share
    <3> QED
      BY <2>0, <3>2 DEF TypeOK, SupplyRead, Mints, Supply
  <2>4. n \in Nat /\ Share < n * total + total
    BY <2>2 DEF Rounded
  <2>5. n * total + total = (n + 1) * total
    BY <2>3, <2>4
  <2>6. (n + 1) * total <= (Limit + 1) * Supply
    BY <2>2, <2>3, <2>4, Product
  <2>7. (n + 1) * total \in Nat /\ (Limit + 1) * Supply \in Nat
    BY <2>3, <2>4
  <2> QED
    BY <2>3, <2>4, <2>5, <2>6, <2>7
<1> QED
  BY <1>1, <1>2, TypeInduction, SupplyInduction, PTL DEF Spec, HolderWithinLimit
=============================================================================
