--------------------------- MODULE FencingTokens ---------------------------
(* Fencing tokens in time: issued with an expiry, renewed while they are     *)
(* valid if they are for an emergency, and signed with keys that a restart   *)
(* may replace.  A signature is the key it was made with; a token made of    *)
(* other fields than those signed is no token here.  An issue begins a chain,*)
(* a renewal goes on with the chain of its token: the field chain is a       *)
(* history that the code does not keep.                                      *)
EXTENDS Integers, FiniteSetsExt

CONSTANTS
  Incidents,             \* incident_id of callers, and those drawn by uuid4()
  Severities,            \* of tokens; "emergency" is the one that renews
  Validities,            \* validity_seconds and extension_seconds of callers
  MaxRenewal, MaxTotal,  \* _MAX_RENEWAL_SECONDS, _MAX_TOTAL_SECONDS
  MaxTokens, MaxTime, MaxKeys  \* bounds: tokens, time and restarts

ASSUME FencingAssumption ==
  /\ Validities \subseteq Nat \ {0} /\ MaxRenewal \in Nat /\ MaxTotal \in Nat
  /\ "emergency" \in Severities
  /\ MaxTokens \in Nat /\ MaxTime \in Nat /\ MaxKeys \in Nat

VARIABLES
  tokens,  \* tokens handed out: id, chain, severity, issued, until, key
  key,     \* _PRIVATE_KEY and _PUBLIC_KEY, or _SECRET; 0: not loaded
  clock,
  keys     \* number of keys generated
tokenVars == <<tokens, key, clock, keys>>

Token(id, chain, severity, until) ==
  [id |-> id, chain |-> chain, severity |-> severity, issued |-> clock, until |-> until,
   key |-> key]
NewChain == Cardinality({t.chain : t \in tokens}) + 1

(* verify_token() of both modules *)
Valid(t) == key > 0 /\ clock <= t.until /\ t.key = key

Alive(id) == \E t \in tokens : t.id = id /\ Valid(t)
Lasting(chain) == \E t \in tokens : t.chain = chain /\ Valid(t)

(* renew_token(): what it makes valid_until, at most the longest life seen   *)
(* from issued_at, which each renewal sets anew.                             *)
Renewed(t, extension) ==
  Min({clock + Min({extension, MaxRenewal}), t.issued + MaxTotal})

-----------------------------------------------------------------------------
TokenInit == tokens = {} /\ key = 0 /\ clock = 0 /\ keys = 0

(* init_keys(), init_secret() at start-up; a development key is a new one.   *)
LoadKey ==
  /\ key = 0 /\ keys < MaxKeys
  /\ \E new \in {1, keys + 1} : key' = new /\ keys' = Max({keys, new})
  /\ UNCHANGED <<tokens, clock>>

Restart == key # 0 /\ key' = 0 /\ UNCHANGED <<tokens, clock, keys>>

(* create_token(), create_internal_token(): the incident is the caller's, who *)
(* may have named it before, or a new one.                                   *)
Create(id, severity, validity) ==
  /\ key # 0 /\ Cardinality(tokens) < MaxTokens
  /\ tokens' = tokens \cup {Token(id, NewChain, severity, clock + validity)}
  /\ UNCHANGED <<key, clock, keys>>

RenewLapsed(t, extension) ==  \* mutant: only the cap of the chain is checked
  /\ key # 0 /\ Cardinality(tokens) < MaxTokens
  /\ t.severity = "emergency" /\ t.key = key /\ clock < t.issued + MaxTotal
  /\ tokens' = tokens \cup {Token(t.id, t.chain, t.severity, Renewed(t, extension))}
  /\ UNCHANGED <<key, clock, keys>>
Renew(t, extension) ==
  /\ key # 0 /\ Cardinality(tokens) < MaxTokens
  /\ t.severity = "emergency" /\ Valid(t) /\ clock < t.issued + MaxTotal
  /\ tokens' = tokens \cup {Token(t.id, t.chain, t.severity, Renewed(t, extension))}
  /\ UNCHANGED <<key, clock, keys>>

Pass == clock < MaxTime /\ clock' = clock + 1 /\ UNCHANGED <<tokens, key, keys>>

TokenNext ==
  \/ LoadKey \/ Restart \/ Pass
  \/ \E id \in Incidents, severity \in Severities, validity \in Validities :
       Create(id, severity, validity)
  \/ \E t \in tokens, extension \in Validities : Renew(t, extension)

TokenSpec == TokenInit /\ [][TokenNext]_tokenVars

-----------------------------------------------------------------------------
TokenTypeOK ==
  /\ clock \in 0..MaxTime /\ key \in 0..keys /\ keys \in 0..MaxKeys
  /\ \A t \in tokens : t.key \in 1..keys /\ t.severity \in Severities
                       /\ t.issued <= clock /\ t.issued <= t.until

(* While keys stay loaded an authority that has lapsed does not come back by *)
(* a renewal: once no token of a chain is valid, none ever is again, and an  *)
(* incident none of whose tokens is valid has a valid one again only when a  *)
(* caller issues it a new one.                                               *)
LapsedChainsStayDead ==
  [][key' = key =>
       /\ \A t \in tokens : Lasting(t.chain)' => Lasting(t.chain)
       /\ \A id \in Incidents :
            Alive(id)' => \/ Alive(id)
                          \/ \E t \in tokens' : t.id = id /\ \A u \in tokens : u.chain # t.chain]_tokenVars

(* However often it is renewed, a chain reaches into the future no further   *)
(* than one renewal, or than the validity it was created with: when its      *)
(* holder stops renewing it ends within that time.  What is not an emergency *)
(* has one token only.  How long a holder may go on renewing is not bounded: *)
(* see ChainsEndAtTheCap.                                                    *)
GrantsAreShort ==
  \A t \in tokens :
    LET same == {u \in tokens : u.chain = t.chain}
        first == {u \in same : \A v \in same : u.issued <= v.issued}
    IN /\ t.until - t.issued > MaxRenewal => t \in first /\ t.until - t.issued \in Validities
       /\ t.severity # "emergency" => same = {t}

(* An authority that is not renewed in time ends, soon and for good. *)
AuthorityEnds == [](TokenTypeOK /\ GrantsAreShort) /\ LapsedChainsStayDead

(* "30 minutes - absolute cap for any token chain": no renewal makes a chain *)
(* last longer than that, from the first of its tokens.  The code measures   *)
(* it from the time of issue, which the renewal before has refreshed, so a   *)
(* chain can be renewed for ever.                                            *)
ChainsEndAtTheCap ==
  \A t, u \in tokens : t.chain = u.chain => t.until <= u.issued + MaxTotal
=============================================================================
