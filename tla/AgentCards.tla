------------------------------ MODULE AgentCards -------------------------------
(***************************************************************************)
(* Agent cards: identities sign them with a term, a provider registers     *)
(* those that verify and keeps the newest versions of each identity, and a *)
(* validator asks the revocation list before it looks at a signature.      *)
(***************************************************************************)
EXTENDS Integers, Sequences, SequencesExt, FiniteSetsExt

CONSTANTS
  Dids,
  PeerDids,       \* those whose key is in the DID itself
  Types,
  LastVersion,    \* bound
  Term,           \* ttl of a card
  LastHour,       \* bound: the clock
  MaxCards        \* max_cards_per_did

ASSUME CardAssumption ==
  LastVersion \in Nat /\ Term \in Nat /\ LastHour \in Nat /\ MaxCards \in Nat \ {0}

VARIABLES
  hour,
  cards,      \* cards[d]: the registered ones, best first
  barred,     \* the provider's caller revoked the identity: RevocationList
  verdict     \* the last answer: of register or of the validator

cVars == <<hour, cards, barred, verdict>>

Init == hour = 0 /\ cards = [d \in Dids |-> <<>>] /\ barred = {} /\ verdict = "none"

(* The cards that create_card made until now, by signing it; an unsigned   *)
(* card, or one changed after it was signed, is one its DID did not sign.  *)
Created == [did : Dids, version : 1 .. LastVersion, type : Types,
            expires : {h + Term : h \in 0 .. hour}, by : Dids \cup {"nobody"}]
Hour == /\ hour < LastHour /\ hour' = hour + 1 /\ UNCHANGED <<cards, barred, verdict>>

IsExpired(card) == hour > card.expires
VerifiesWith(card, key) == card.by = key

(* The key comes with the call or from the DID; only did:peer has it.      *)
Resolves(d) == d \in PeerDids

Slip_Stale(card, kept) == FALSE
Stale(card, kept) == kept # <<>> /\ card.version < kept[1].version
(* A card of the same version takes the place of the best one.             *)
Replaced(card, kept) == IF kept # <<>> /\ kept[1].version = card.version THEN Tail(kept) ELSE kept
(* register sorts by version, which puts a card that is not stale, and so  *)
(* newer than all that are left, before them.                              *)
Kept(card, kept) ==
  LET all == <<card>> \o Replaced(card, kept)
  IN  SubSeq(all, 1, Min({MaxCards, Len(all)}))

Answer(a) == verdict' = a
Register(card, given) ==
  /\ CASE card.by = "nobody" -> Answer("refused") /\ UNCHANGED cards
       [] card.by # "nobody" /\ given = "none" /\ ~Resolves(card.did) -> Answer("raises") /\ UNCHANGED cards
       [] OTHER ->
            LET key == IF given = "none" THEN card.did ELSE given IN
            IF ~VerifiesWith(card, key) \/ IsExpired(card) \/ Stale(card, cards[card.did])
            THEN Answer("refused") /\ UNCHANGED cards
            ELSE Answer("accepted") /\ cards' = [cards EXCEPT ![card.did] = Kept(card, @)]
  /\ UNCHANGED <<hour, barred>>

RemoveDid(d) == cards' = [cards EXCEPT ![d] = <<>>] /\ UNCHANGED <<hour, barred, verdict>>
Bar(d) == barred' = barred \cup {d} /\ UNCHANGED <<hour, cards, verdict>>
Unbar(d) == barred' = barred \ {d} /\ UNCHANGED <<hour, cards, verdict>>

(* validate_with_revocation: the list first, then the signature.           *)
Validate(card, key) ==
  /\ Answer(IF card.did \in barred THEN "revoked" ELSE IF VerifiesWith(card, key) THEN "valid" ELSE "invalid")
  /\ UNCHANGED <<hour, cards, barred>>

Lookup(d) == cards[d][1]
LookupByType(type) == {Lookup(d) : d \in {e \in Dids : cards[e] # <<>> /\ cards[e][1].type = type}}

Next ==
  \/ Hour
  \/ \E card \in Created : \/ \E given \in {"none", card.did} : Register(card, given)
                          \/ \E key \in Dids : Validate(card, key)
  \/ \E d \in Dids : RemoveDid(d) \/ Bar(d) \/ Unbar(d)
Spec == Init /\ [][Next]_cVars

-----------------------------------------------------------------------------
(* Whatever order cards arrive in, the one that is looked up only goes     *)
(* forward: a registered identity is known by its newest accepted card,    *)
(* listed under the type of that card and no other, until it is removed.   *)
Advances ==
  /\ \A type \in Types, card \in UNION {LookupByType(u) : u \in Types} :
       card \in LookupByType(type) <=> card.type = type
  /\ \A d \in Dids :
       /\ cards[d] # <<>> /\ cards'[d] # <<>> => cards'[d][1].version >= cards[d][1].version
       /\ cards'[d] # cards[d] /\ cards'[d] # <<>> =>
            /\ Len(cards'[d]) <= MaxCards
            /\ \A i \in 2 .. Len(cards'[d]) : cards'[d][i].version < cards'[d][1].version
            /\ cards'[d][1].by = d /\ hour <= cards'[d][1].expires
CardsOnlyAdvance == [][Advances]_cVars
=============================================================================
