------------------------------ MODULE FileStore ------------------------------
(***************************************************************************)
(* What writing a file to the SD card promises, whatever carries the file: *)
(* blocks are stored one after the other, and success is reported only     *)
(* when all of them are stored and the file is closed, unless the card     *)
(* itself failed.                                                          *)
(***************************************************************************)
EXTENDS Integers, Sequences

CONSTANT NBlocks      \* number of blocks of the file

VARIABLES result,     \* "pending", "ok" or "failed"
          file,       \* "none", "open" or "closed"
          contents,   \* the blocks stored
          cardError   \* an operation of the card has failed

store == <<result, file, contents, cardError>>

Init == result = "pending" /\ file = "none" /\ contents = <<>> /\ cardError = FALSE

Open == /\ file = "none" /\ contents = <<>>
        /\ file' = "open"
        /\ UNCHANGED <<result, contents, cardError>>

\* Without a card error the next block is stored; after one, some later block.
Write == /\ file = "open"
         /\ \E b \in 1 .. NBlocks :
               /\ \A i \in 1 .. Len(contents) : contents[i] < b
               /\ ~cardError => b = Len(contents) + 1
               /\ contents' = Append(contents, b)
         /\ UNCHANGED <<result, file, cardError>>

\* Closed before it is complete only after a card error.
Close == /\ file = "open"
         /\ cardError \/ Len(contents) = NBlocks
         /\ file' = "closed"
         /\ UNCHANGED <<result, contents, cardError>>

CardFails == /\ cardError' = TRUE
             /\ UNCHANGED <<result, file, contents>>

Succeed == /\ result = "pending"
           /\ cardError \/ (file = "closed" /\ Len(contents) = NBlocks)
           /\ result' = "ok"
           /\ UNCHANGED <<file, contents, cardError>>

Fail == /\ result = "pending"
        /\ result' = "failed"
        /\ UNCHANGED <<file, contents, cardError>>

Next == Open \/ Write \/ Close \/ CardFails \/ Succeed \/ Fail

Spec == Init /\ [][Next]_store
=============================================================================
