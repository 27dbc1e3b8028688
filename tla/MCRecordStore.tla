--------------------------- MODULE MCRecordStore ---------------------------
(* Small instances of RecordStore for TLC: the two services, and symmetry. *)
EXTENDS RecordStore, TLC

MCKnowledgeOperations == {"put", "update", "delete"}
MCMemoryOperations == {"put", "update", "delete", "purge"}
MCNever == {None}
MCAtOneOrNever == {1, None}

\* Threads, and keys, are interchangeable.
MCSymmetry == Permutations(Threads) \cup Permutations(Keys)
=============================================================================
