--------------------------- MODULE MCTextClient ---------------------------
(* All texts of a letter, the separator and the dot up to length 4, patterns  *)
(* up to length 2, and the backslash as a pattern.                            *)
EXTENDS TextClient

MCChars    == {"a", "/", ".", BACKSLASH}
Words(m)   == UNION {[1 .. k -> {"a", "/", "."}] : k \in 0 .. m}
MCDelim    == "/"
MCInputs   == Words(4)
MCPatterns == Words(2) \union {<<BACKSLASH>>}
=============================================================================
