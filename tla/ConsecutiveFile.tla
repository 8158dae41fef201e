--------------------------- MODULE ConsecutiveFile ---------------------------
(***************************************************************************)
(* Files that the processes of a communicator write and read together      *)
(* (io/MPIInputOutput.hpp): the values of a process follow those of the    *)
(* processes with lower ranks.  A file is a sequence of values, the file   *)
(* system a function from the names of the files there are.  What the      *)
(* processes hold is a sequence of sequences: one per rank, from 1.        *)
(***************************************************************************)
EXTENDS Integers, SequencesExt, TLC

\* MPI_Exscan over the numbers of values; on the first rank the position stays 0.
Position(values, k) == Len(FlattenSeq(SubSeq(values, 1, k - 1)))

\* The file is created, deleted and created, or opened as it is: then what lies behind the
\* new values stays.
writeValuesConsecutive(files, name, values, replaceExistingFile) ==
    LET new == FlattenSeq(values)
        old == IF name \in DOMAIN files /\ ~replaceExistingFile THEN files[name] ELSE <<>>
    IN  (name :> new \o SubSeq(old, Len(new) + 1, Len(old))) @@ files

\* Otherwise a runtime_error is thrown, as it is if the file cannot be opened.
checkFileSizeConsecutive(files, name, values) ==
    name \in DOMAIN files /\ Len(files[name]) = Len(FlattenSeq(values))

readValuesConsecutive(file, values) ==
    [k \in DOMAIN values |->
        LET pos == Position(values, k) IN SubSeq(file, pos + 1, pos + Len(values[k]))]

\* The reduce functions in use: std::plus on data, std::min on the sizes of subspaces.
Reduced(fn, a, b) == IF fn = "plus" THEN a + b ELSE Min({a, b})

\* The loop of one process over the chunks that fit into its buffer; from value r + 1 on.
ReadReduceLoop(fn, own, file, pos, numElementsToBuffer) ==
    LET loop[r \in 0..Len(own)] ==
            IF r = Len(own) THEN <<>>
            ELSE LET n == Min({numElementsToBuffer, Len(own) - r})
                     buffer == SubSeq(file, pos + r + 1, pos + r + n)
                 IN  [i \in 1..n |-> Reduced(fn, own[r + i], buffer[i])] \o loop[r + n]
    IN  loop[0]

readReduceValuesConsecutive(file, values, numElementsToBuffer, fn) ==
    [k \in DOMAIN values |->
        ReadReduceLoop(fn, values[k], file, Position(values, k), numElementsToBuffer)]

=============================================================================
