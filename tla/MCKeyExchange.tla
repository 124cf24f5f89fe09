--------------------------- MODULE MCKeyExchange ---------------------------
(* Model checking of KeyExchange: numbers of two digits in base 4. *)
EXTENDS KeyExchange

MCPrimes == {3, 7, 11, 13}     \* 3 has one digit
MCSecrets == {2, 3, 6, 7, 15}
MCStale == {0, 9, 14}

=============================================================================
