---------------------------- MODULE EntryFilter -----------------------------
(***************************************************************************)
(* The gates between a stream event and a BUY: filter.AllowStreamEvent in  *)
(* onMsg, then in HandleMint the initialBuy requirement, filter.AllowMint  *)
(* (three RPC reads of a mint that goes on changing) and                   *)
(* entrySnapshotPasses.  The activity gate is left out.  Two of the reads  *)
(* are answered from the finalised state of the chain, which is older than *)
(* the confirmed one that the third sees.                                  *)
(* A field of the event is "missing" or, for the thresholds and lists of   *)
(* its gates, "bad" or "good"; the amounts of the token are small numbers. *)
(***************************************************************************)
EXTENDS Integers

CONSTANTS Fields,    \* fields of a StreamEvent
          Grid,      \* float64 numbers per percent, about the limit
          Limit,     \* FILTER_MAX_TOP_HOLDER_PCT, the number of that float64
          MaxSupply  \* bound: units of the token

ASSUME FilterAssumption ==
  Grid \in Nat \ {0} /\ Limit \in 1..(100 * Grid) /\ MaxSupply \in Nat \ {0}

\* Kinds of gate a field may have: on the stream one that wants the field
\* ("allow") and one that does not ("deny"); before the BUY one that wants it
\* there ("require") and a threshold on it ("min").
Kinds == {"allow", "deny", "require", "min"}

RugSettings == [on : BOOLEAN, failOpen : BOOLEAN, freeze : BOOLEAN,
                mint : BOOLEAN, holder : BOOLEAN]

VARIABLES gates,   \* configuration: the gates of each field
          rug,     \* configuration: FILTER_ANTI_RUG, FILTER_RPC_FAIL_OPEN ...
          ev,      \* the event
          chain,   \* the mint: its authorities, the largest holder, the others
          account, \* its finalised account, until it is read
          total,   \* its finalised supply, then the supply that was read
          pc,      \* where the mint is on its way to the BUY
          erred,   \* history: an RPC call failed
          burnt    \* history: supply was burnt since there was total of it

config == <<gates, rug, ev>>
vars   == <<config, chain, account, total, pc, erred, burnt>>

Supply  == chain.largest + chain.rest
Account == [freeze |-> chain.freeze, mintable |-> chain.mintable, empty |-> Supply = 0]

Mints == {c \in [freeze : BOOLEAN, mintable : BOOLEAN,
                 largest : 0..MaxSupply, rest : 0..MaxSupply] :
            c.largest + c.rest <= MaxSupply}

TypeOK ==
  /\ gates \in [Fields -> SUBSET Kinds]
  /\ rug \in RugSettings
  /\ ev \in [Fields -> {"missing", "bad", "good"}]
  /\ chain \in Mints
  /\ account \in [freeze : BOOLEAN, mintable : BOOLEAN, empty : BOOLEAN]
  /\ pc \in {"stream", "handle", "account", "supply", "largest", "entry",
             "admitted", "dropped"}
  /\ total \in 0..MaxSupply
  /\ erred \in BOOLEAN /\ burnt \in BOOLEAN

Init ==
  /\ gates \in [Fields -> SUBSET Kinds]
  /\ rug \in {r \in RugSettings :
                r.on \/ ~(r.failOpen \/ r.freeze \/ r.mint \/ r.holder)}
  /\ ev \in [Fields -> {"missing", "bad", "good"}]
  /\ chain \in Mints /\ account = Account /\ total = Supply
  /\ pc = "stream"
  /\ erred = FALSE /\ burnt = FALSE

-----------------------------------------------------------------------------
(* What each kind of gate rejects. *)

(* Faulty variant: a gate of the stream lets an event pass that lacks the field. *)
RejectedPresent(kind) == IF kind = "require" THEN {"missing"} ELSE {"bad"}

Rejected(kind) ==
  CASE kind = "allow"   -> {"missing", "bad"}
    [] kind = "require" -> {"missing"}
    [] OTHER            -> {"bad"}

\* No field's gate of one of these kinds rejects the event.
Passes(kinds) ==
  \A f \in Fields : \A k \in gates[f] \cap kinds : ev[f] \notin Rejected(k)

AllowStreamEvent == Passes({"allow", "deny"})

\* The gate answers: the mint goes on to a stage, or is dropped.
Decide(ok, stage) == pc' = IF ok THEN stage ELSE "dropped"

OnMsg ==
  /\ pc = "stream"
  /\ Decide(AllowStreamEvent, "handle")
  /\ UNCHANGED <<config, chain, account, total, erred, burnt>>

RequireInitialBuy ==
  /\ pc = "handle"
  /\ Decide(Passes({"require"}), IF rug.on THEN "account" ELSE "entry")
  /\ UNCHANGED <<config, chain, account, total, erred, burnt>>

(* Faulty variant: FILTER_RPC_FAIL_OPEN is not looked at. *)
RPCAlwaysOpen ==
  /\ pc \in {"account", "supply", "largest"}
  /\ Decide(TRUE, "entry")
  /\ erred' = TRUE
  /\ UNCHANGED <<config, chain, account, total, burnt>>

\* FILTER_RPC_FAIL_OPEN: an RPC error lets the mint through, past the reads
\* that are left, or drops it.
RPCFails ==
  /\ pc \in {"account", "supply", "largest"}
  /\ Decide(rug.failOpen, "entry")
  /\ erred' = TRUE
  /\ UNCHANGED <<config, chain, account, total, burnt>>

\* getAccountInfo answers.  A mint without an account, or with one that is not
\* an initialised SPL mint, is dropped, fail-open or not.
ReadAccount(sane) ==
  /\ pc = "account"
  /\ Decide(/\ sane /\ ~account.empty
            /\ ~(rug.freeze /\ account.freeze)
            /\ ~(rug.mint /\ account.mintable),
            IF rug.holder THEN "supply" ELSE "entry")
  /\ UNCHANGED <<config, chain, account, total, erred, burnt>>

\* checkTopHolderPct: the supply, ...
ReadSupply ==
  /\ pc = "supply"
  /\ Decide(total > 0, "largest")
  /\ UNCHANGED <<config, chain, account, total, erred, burnt>>

(* Faulty variant: the quotient in integers. *)
ReadLargestTruncated ==
  /\ pc = "largest"
  /\ Decide((chain.largest \div total) * 100 * Grid <= Limit, "entry")
  /\ UNCHANGED <<config, chain, account, total, erred, burnt>>

\* The float64 numbers next to the share of the largest holder, in percent:
\* the number itself when it is one.
Share == 100 * Grid * chain.largest

Rounded == {n \in 0..(100 * Grid * MaxSupply) :
              n * total < Share + total /\ Share < n * total + total}

\* ... then, in a second call, the largest holder.  The quotient of two
\* big.Float is rounded, and rounded again to a float64.
ReadLargest ==
  /\ pc = "largest"
  /\ \E n \in Rounded : Decide(n <= Limit, "entry")
  /\ UNCHANGED <<config, chain, account, total, erred, burnt>>

EntrySnapshotPasses ==
  /\ pc = "entry"
  /\ Decide(Passes({"min"}), "admitted")
  /\ UNCHANGED <<config, chain, account, total, erred, burnt>>

-----------------------------------------------------------------------------
(* Meanwhile the mint changes on chain.  The SPL Token program lets an      *)
(* authority be given up for good, and supply be minted only by one.        *)

Revoke(auth) ==
  /\ auth \in {"freeze", "mintable"} /\ chain[auth]
  /\ chain' = [chain EXCEPT ![auth] = FALSE]
  /\ UNCHANGED <<config, account, pc, total, erred, burnt>>

Trade(l, r) ==
  /\ l + r = Supply
  /\ chain' = [chain EXCEPT !.largest = l, !.rest = r]
  /\ UNCHANGED <<config, account, pc, total, erred, burnt>>

MintMore(part) ==
  /\ chain.mintable /\ Supply < MaxSupply
  /\ part \in {"largest", "rest"}
  /\ chain' = [chain EXCEPT ![part] = @ + 1]
  /\ UNCHANGED <<config, account, pc, total, erred, burnt>>

Burn(part) ==
  /\ part \in {"largest", "rest"} /\ chain[part] > 0
  /\ chain' = [chain EXCEPT ![part] = @ - 1]
  /\ burnt' = TRUE
  /\ UNCHANGED <<config, account, pc, total, erred>>

\* The chain is finalised up to now.  The calls are answered by different
\* nodes, hence at moments of their own; what a call has read is not followed.
FinaliseAccount ==
  /\ pc \in {"stream", "handle", "account"}
  /\ account' = Account
  /\ UNCHANGED <<config, chain, total, pc, erred, burnt>>

FinaliseSupply ==
  /\ pc \in {"stream", "handle", "account", "supply"}
  /\ total' = Supply /\ burnt' = FALSE
  /\ UNCHANGED <<config, chain, account, pc, erred>>

AllowMint ==
  \/ \E sane \in BOOLEAN : ReadAccount(sane)
  \/ ReadSupply \/ ReadLargest \/ RPCFails

HandleMint == RequireInitialBuy \/ AllowMint \/ EntrySnapshotPasses

Chain ==
  \/ \E auth \in {"freeze", "mintable"} : Revoke(auth)
  \/ \E l, r \in 0..MaxSupply : Trade(l, r)
  \/ \E part \in {"largest", "rest"} : MintMore(part) \/ Burn(part)
  \/ FinaliseAccount \/ FinaliseSupply

Next == OnMsg \/ HandleMint \/ Chain

Spec == Init /\ [][Next]_vars

-----------------------------------------------------------------------------
(* Properties *)

Verified == rug.on /\ (erred => ~rug.failOpen)

\* When the bot buys a mint it could verify, or fails safe, nobody can freeze
\* the tokens it buys or mint more, although the authorities were read some
\* calls before the BUY, from a state that was old by then, and the chain has
\* moved since.
AuthoritiesGone ==
  pc = "admitted" /\ Verified =>
    (rug.freeze => ~chain.freeze) /\ (rug.mint => ~chain.mintable)

\* The share of the largest holder is computed from two reads made at two
\* moments, the first of an older state, and rounded.  Unless supply was burnt
\* since that state, a mint that passes had, at the moment of the second read,
\* a largest holder that exceeds the limit by less than one float64: supply
\* minted meanwhile never lets a larger one through, and the rounding only a
\* holder above the limit by less than that.
HolderWithinLimit ==
  [][pc = "largest" /\ pc' = "entry" /\ ~erred' /\ ~burnt
       => Share < (Limit + 1) * Supply]_vars

\* What AllowMint and the entry snapshot let through also satisfies every gate
\* of the stream and of the entry, whichever of them looked at the field first:
\* a missing field gets past the thresholds before the BUY, so only the gates
\* of the stream keep a mint out that says nothing of itself.
GatesAgree ==
  pc = "admitted" =>
    \A f \in Fields :
      /\ ev[f] = "bad" => gates[f] \subseteq {"require"}
      /\ ev[f] = "missing" => gates[f] \cap {"allow", "require"} = {}
=============================================================================
