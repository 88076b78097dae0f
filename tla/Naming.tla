------------------------------- MODULE Naming -------------------------------
(***************************************************************************)
(* How a name a shopper types becomes a catalogue key                      *)
(* (server/trug/normalise.py).  Lower-casing and collapsing white space    *)
(* are layout: a name is represented by the key they produce, so the keys  *)
(* are opaque values and the one relation between keys the code looks at,  *)
(* "this key is that key with an s on the end", is the constant Plurals.   *)
(***************************************************************************)
CONSTANTS
    Keys,       \* lower-cased, single-spaced names
    Plurals,    \* the pairs <<k, k + "s">> among Keys
    Blank       \* the empty key; it may or may not be one of Keys

PluralsOf(k) == {p \in Keys : <<k, p>> \in Plurals}
SingularsOf(k) == {s \in Keys : <<s, k>> \in Plurals}

ASSUME NamingAssumption ==
    /\ Plurals \subseteq Keys \X Keys
    /\ \A k \in Keys : \A p, q \in PluralsOf(k) : p = q
    /\ \A k \in Keys : \A s, t \in SingularsOf(k) : s = t
    /\ \A k \in Keys : <<k, k>> \notin Plurals

(***************************************************************************)
(* The key a name is filed under, given the catalogue keys in use.  The    *)
(* clauses are tried in order; a fold only ever lands on a known key.      *)
(***************************************************************************)
Normalise(key, known) ==
    IF key \in known
      THEN key
      ELSE IF SingularsOf(key) \cap known # {}
             THEN CHOOSE s \in SingularsOf(key) : s \in known
             ELSE IF key # Blank /\ PluralsOf(key) \cap known # {}
                    THEN CHOOSE p \in PluralsOf(key) : p \in known
                    ELSE key
=============================================================================
