----------------------------- MODULE PaidTokens -----------------------------
(***************************************************************************)
(* pkg/paid: the tokens with which a purchase is played.  The API signs    *)
(* them with its private key (createToken), the player checks them with    *)
(* the public key that it has fetched when it started (InitPubKey).        *)
(*                                                                         *)
(* What is at the address of the key need not be a key.  Without a PEM     *)
(* block the player starts all the same, with no key at all.  The API may  *)
(* take a new pair of keys; a player that runs does not notice.            *)
(***************************************************************************)
EXTENDS Integers

CONSTANTS
    KeyPairs,  \* pairs of keys of the API
    Kilo,      \* 1024
    Second,    \* the nanoseconds of a second
    WordSize,  \* 2^64
    Malformed, \* a token that is none
    None       \* no key, no token

ASSUME PaidTokensAssumption ==
    /\ Kilo \in Nat \ {0}
    /\ Second \in Nat \ {0}
    /\ WordSize \in Nat \ {0} /\ WordSize % 2 = 0
    /\ {None, Malformed} \cap KeyPairs = {} /\ None # Malformed

VARIABLES
    apiKey,  \* the pair of keys that the API uses
    pubKM    \* the key in pubKM, None when it has none or the player is down

keys == <<apiKey, pubKM>>

-----------------------------------------------------------------------------
(* The expiry of a token, in seconds from its creation.                     *)
FlipBit(n, b) == IF (n \div b) % 2 = 1 THEN n - b ELSE n + b

\* Mutant of Expiry: the 10 seconds per MB that its comment speaks of.
ExpiryAsWritten(size) == ((size \div Kilo) \div Kilo) * 10

\* ExpTenSecPer100MB.  In Go ^ is the exclusive or, and binds less than / and
\* *: 1024^2*10 flips the bits of 20 in the size in KB.  The duration is an
\* int64 of nanoseconds.
Expiry(size) ==
    LET duration == (FlipBit(FlipBit(size \div Kilo, 4), 16) * Second) % WordSize
    IN  (IF duration < WordSize \div 2 THEN duration ELSE duration - WordSize) \div Second

-----------------------------------------------------------------------------
(* Tokens: signed by a pair of keys, for the stream that is asked for or    *)
(* another, with the seconds they have left.                                *)

Tokens == [signer : KeyPairs, own : BOOLEAN, left : Nat]

ASSUME NoTokenAssumption == None \notin Tokens /\ Malformed \notin Tokens

\* Mutant of Token: the seconds that are left may be negative.
TokenInThePast(own, size) == [signer |-> apiKey, own |-> own, left |-> Expiry(size)]

\* createToken: one that is in the past when it is created stays there.
Token(own, size) ==
    [signer |-> apiKey, own |-> own, left |-> IF Expiry(size) > 0 THEN Expiry(size) ELSE 0]

IsToken(t) == t \notin {None, Malformed}

Aged(t) == IF IsToken(t) /\ t.left > 0 THEN [t EXCEPT !.left = @ - 1] ELSE t

\* Mutant of VerifyStreamAccess: without a key nothing is verified.
VerifyWithKeyOnly(t) ==
    IF IsToken(t) /\ pubKM = None THEN "ok"
    ELSE IF IsToken(t) /\ pubKM = t.signer /\ t.left > 0 /\ t.own THEN "ok" ELSE "forged"

\* VerifyStreamAccess over ValidateToken.  The signature is checked whether the
\* token is expired or not, and panics without a key to check it with.
VerifyStreamAccess(t) ==
    CASE t = Malformed -> "malformed"
      [] t # Malformed /\ pubKM = None -> "panic"
      [] t # Malformed /\ pubKM # None ->
            CASE t.signer # pubKM -> "forged"
              [] t.signer = pubKM /\ t.left = 0 -> "expired"
              [] t.signer = pubKM /\ t.left > 0 -> IF t.own THEN "ok" ELSE "otherStream"

-----------------------------------------------------------------------------
(* The keys.                                                                *)
Rotate(k) == k # apiKey /\ apiKey' = k /\ UNCHANGED pubKM

\* InitPubKey, with a key or without.  What is in a PEM block but no key is a
\* panic, at the type assertion before the error is looked at.
InitPubKey == pubKM' \in {apiKey, None} /\ UNCHANGED apiKey
=============================================================================
