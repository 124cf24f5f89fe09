------------------------------ MODULE GmpBytes ------------------------------
(***************************************************************************)
(* The loops of GMP that write a number to a buffer of bytes (mpz_export)  *)
(* and read one from it (mpz_import), for the arguments with which the     *)
(* programs call them: words of one byte, most significant first, without  *)
(* nails.  A byte has BYTE_BITS bits and a limb LIMB_BITS.                 *)
(*                                                                         *)
(* A run exports a number z to the front of a buffer with any contents,    *)
(* and then imports the whole buffer.                                      *)
(***************************************************************************)
EXTENDS Numbers, Sequences

CONSTANTS
    BYTE_BITS,    \* 8 in the code
    LIMB_BITS,    \* GMP_NUMB_BITS
    ExportInputs  \* the numbers that are exported

BytesAssumption ==
    /\ BYTE_BITS \in Nat \ {0}
    /\ BASE = Power(2, BYTE_BITS)
    /\ LIMB_BITS \in Nat
    /\ BYTE_BITS <= LIMB_BITS
    /\ ExportInputs \subseteq BufferValues

VARIABLES
    pc,       \* "export", "import" or "done"
    z,        \* the number that is exported
    held,     \* history: what the buffer held before
    data,     \* the buffer
    dp,       \* the byte that is written or read next
    zp,       \* the limb that is read or written next
    limb,     \* bits that wait to be written
    lbits,    \* how many
    result    \* the number that is imported, from its least limb on

vars == <<pc, z, held, data, dp, zp, limb, lbits, result>>

LIMB == Power(2, LIMB_BITS)

\* The limb of number n at position i: SIZ(n) many are not zero.
LimbOf(n, i) == (n \div Power(LIMB, i)) % LIMB

\* Mutant: as many bytes as the buffer has.
Mut_CountOf(n) == WIDTH

\* MPN_SIZEINBASE_2EXP: the words that n needs; none if it is zero.
CountOf(n) == WIDTH - Unwritten(n)

\* The number that a buffer of bytes stands for.
ValueOf(bytes) ==
    LET value[i \in 0 .. WIDTH] ==
            IF i = 0 THEN 0 ELSE (value[i - 1] * BASE) + bytes[i]
    IN  value[WIDTH]

BufferOf(n) == [i \in 1 .. WIDTH |-> (n \div Weight[WIDTH - i]) % BASE]

Init ==
    /\ z \in ExportInputs
    /\ held \in BufferValues
    /\ pc = "export"
    /\ data = BufferOf(held)
    /\ dp = CountOf(z)
    /\ zp = 0
    /\ limb = 0
    /\ lbits = 0
    /\ result = 0

(***************************************************************************)
(* EXTRACT(8): the least significant byte of what is left of z goes to dp. *)
(* If the limb has too few bits left, the next one is fetched.             *)
(***************************************************************************)
\* Mutant: the bits that were written stay in the limb.
Mut_ExtractByte ==
    LET newlimb == LimbOf(z, zp)
    IN  [byte |-> (limb + newlimb * Power(2, lbits)) % BASE, rest |-> newlimb]

ExtractByte ==
    LET newlimb == LimbOf(z, zp)
    IN  [byte |-> (limb + newlimb * Power(2, lbits)) % BASE,
         rest |-> newlimb \div Power(2, BYTE_BITS - lbits)]

Extract ==
    /\ pc = "export"
    /\ dp # 0
    /\ \/ /\ lbits >= BYTE_BITS
          /\ data' = [data EXCEPT ![dp] = limb % BASE]
          /\ limb' = limb \div BASE
          /\ lbits' = lbits - BYTE_BITS
          /\ UNCHANGED zp
       \/ /\ lbits < BYTE_BITS
          /\ data' = [data EXCEPT ![dp] = ExtractByte.byte]
          /\ limb' = ExtractByte.rest
          /\ lbits' = lbits + LIMB_BITS - BYTE_BITS
          /\ zp' = zp + 1
    /\ dp' = dp - 1
    /\ UNCHANGED <<pc, z, held, result>>

\* mpz_export returns, and mpz_import starts with the last byte.
Return ==
    /\ pc = "export"
    /\ dp = 0
    /\ pc' = "import"
    /\ dp' = WIDTH
    /\ zp' = 0
    /\ limb' = 0
    /\ lbits' = 0
    /\ UNCHANGED <<z, held, data, result>>

(***************************************************************************)
(* ACCUMULATE(8): the byte at dp goes on top of the bits in limb; a full   *)
(* limb is stored, and what is left of the byte begins the next one.  The  *)
(* shift in the full limb loses the bits that do not fit.                  *)
(***************************************************************************)
\* Mutant: the bytes are put together in the wrong order.
Mut_Joined(byte) == (limb * BASE + byte) % LIMB

Joined(byte) == (limb + byte * Power(2, lbits)) % LIMB

Accumulate ==
    LET byte == data[dp]
        bits == lbits + BYTE_BITS
    IN
    /\ pc = "import"
    /\ dp # 0
    /\ \/ /\ bits < LIMB_BITS
          /\ limb' = Joined(byte)
          /\ lbits' = bits
          /\ UNCHANGED <<zp, result>>
       \/ /\ bits >= LIMB_BITS
          /\ result' = result + Joined(byte) * Power(LIMB, zp)
          /\ zp' = zp + 1
          /\ lbits' = bits - LIMB_BITS
          /\ limb' = byte \div Power(2, BYTE_BITS - (bits - LIMB_BITS))
    /\ dp' = dp - 1
    /\ UNCHANGED <<pc, z, held, data>>

\* The last, partial limb is stored and the number normalised.
Finish ==
    /\ pc = "import"
    /\ dp = 0
    /\ pc' = "done"
    /\ result' = result + IF lbits # 0 THEN limb * Power(LIMB, zp) ELSE 0
    /\ UNCHANGED <<z, held, data, dp, zp, limb, lbits>>

Next == Extract \/ Return \/ Accumulate \/ Finish

Spec == Init /\ [][Next]_vars

-----------------------------------------------------------------------------
(***************************************************************************)
(* The export loop writes what Numbers says: the digits of z, flush with   *)
(* the front of the buffer, and behind them what the buffer held before.   *)
(***************************************************************************)
ExportAgrees == pc = "import" => ValueOf(data) = Export(z, held)

(***************************************************************************)
(* While it runs, nothing of z is lost or written twice: what is written,  *)
(* what waits in limb and what is unread make up z.  So all of z has been  *)
(* read at the end, which mpz_export asserts.                              *)
(***************************************************************************)
Written ==
    [i \in 1 .. WIDTH |-> IF i \in dp + 1 .. CountOf(z) THEN data[i] ELSE 0]

NothingLost ==
    pc = "export" =>
        z = (ValueOf(Written) \div Weight[WIDTH - CountOf(z)])
            + (limb + (z \div Power(LIMB, zp)) * Power(2, lbits)) * Weight[CountOf(z) - dp]

(***************************************************************************)
(* The import loop reads the number that the whole buffer stands for, with *)
(* the bytes behind a short number as part of it.                          *)
(***************************************************************************)
ImportAgrees == pc = "done" => result = Import(Export(z, held))

=============================================================================
