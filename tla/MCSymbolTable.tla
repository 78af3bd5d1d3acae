--------------------------- MODULE MCSymbolTable ---------------------------
(***************************************************************************)
(* SymbolTable for TLC.  The names are model values; their hash values are *)
(* chosen so that names meet in the tables of capacity 5 and 11.           *)
(***************************************************************************)
EXTENDS SymbolTable, TLC

CONSTANTS n1, n2, n3, n4, n5, v1, v2

MCHash == (n1 :> 3) @@ (n2 :> 3) @@ (n3 :> 14) @@ (n4 :> 4) @@ (n5 :> 7)

(* PRIMES, as far as TLC's integers go.                                    *)
MCPrimes == <<2, 5, 11, 23, 47, 97>>
=============================================================================
