-------------------------- MODULE TranslationCache --------------------------
(***************************************************************************)
(* What an address translation cache promises: it remembers translations   *)
(* it was given, each tag at most one, unaltered; it forgets any of them   *)
(* when told to; and it forgets one on its own account only to make room   *)
(* for a new tag when it is full.                                          *)
(***************************************************************************)
CONSTANTS Slots,        \* the places for a translation
          Tag, Data,
          None          \* not a member of Data

VARIABLE cache      \* the translation of every tag, None when not cached

Cached == {t \in Tag : cache[t] # None}

\* As many tags are cached as there are slots.
Full == \E f \in [Slots -> Cached] : \A i, j \in Slots : f[i] = f[j] => i = j

Init == cache = [t \in Tag |-> None]

\* Remember d for t, giving up the translations in lost.
Store(t, d, lost) ==
    cache' = [u \in Tag |-> IF u = t THEN d
                            ELSE IF u \in lost THEN None ELSE cache[u]]

\* What an operation made of the translation of t.
New(t) == {cache'[t]} \cap Data

Refresh == \E t \in Cached : \E d \in New(t) : Store(t, d, {})

Install == \E t \in Tag \ Cached : \E d \in New(t) : Store(t, d, {})

Replace == /\ Full
           /\ \E t \in Tag \ Cached, u \in Cached : \E d \in New(t) : Store(t, d, {u})

Forget == \E S \in SUBSET {t \in Cached : cache'[t] = None} :
             cache' = [u \in Tag |-> IF u \in S THEN None ELSE cache[u]]

Next == Refresh \/ Install \/ Replace \/ Forget

Spec == Init /\ [][Next]_cache
=============================================================================
