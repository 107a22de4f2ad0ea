---------------------------- MODULE VerifiedRead ----------------------------
(***************************************************************************)
(* verify_promoted_result (durable_promotion.py) running beside promotions *)
(* and beside others who touch the evidence.  It reads the receipt and the *)
(* artifact one after the other, then looks at both names once more.       *)
(***************************************************************************)
EXTENDS DurablePromotion

VARIABLES
  reader,     \* where verify_promoted_result is
  seen,       \* what it read at the artifact's and the receipt's name
  coexisted   \* history: both files it read were in place at one instant

reading == <<reader, seen, coexisted>>

ReaderPhases ==
  {"idle", "read_art", "again_rcp", "again_art", "verified"}

\* DurablePromotionError: the caller may ask again.
Rejected == reader' = "idle" /\ seen' = [n \in {"art", "rcp"} |-> NoFile]

\* Mutant: only the inode is compared.
SameInode(f, g) ==
  /\ f # NoFile /\ g # NoFile
  /\ f.id = g.id

\* _revalidate_durable_read compares the file's inode, size and mtime.
SameStamp(f, g) ==
  /\ f # NoFile /\ g # NoFile
  /\ f.id = g.id /\ f.ver = g.ver

\* _read_durable_file ends by looking at the path again: its result is the
\* file in place at that moment.  A rejection here changes nothing.
ReadReceipt ==
  /\ reader = "idle"
  /\ file["rcp"] # NoFile /\ file["rcp"].data \in Promoters
  /\ reader' = "read_art"
  /\ seen' = [seen EXCEPT !["rcp"] = file["rcp"]]
  /\ UNCHANGED coexisted

ReadArtifact ==
  /\ reader = "read_art"
  /\ IF file["art"] # NoFile /\ file["art"].data = Bytes[seen["rcp"].data]
       THEN reader' = "again_rcp" /\ seen' = [seen EXCEPT !["art"] = file["art"]]
       ELSE Rejected
  /\ UNCHANGED coexisted

\* The same file with the same bytes, whatever its stamps say.
SameFile(f, g) == f # NoFile /\ f.id = g.id /\ f.data = g.data

RevalidateReceipt ==
  /\ reader = "again_rcp"
  /\ IF SameStamp(file["rcp"], seen["rcp"])
       THEN /\ reader' = "again_art"
            /\ coexisted' = (/\ SameFile(file["rcp"], seen["rcp"])
                             /\ SameFile(file["art"], seen["art"]))
            /\ UNCHANGED seen
       ELSE Rejected /\ coexisted' = FALSE

RevalidateArtifact ==
  /\ reader = "again_art"
  /\ IF SameStamp(file["art"], seen["art"])
       THEN reader' = "verified" /\ UNCHANGED <<seen, coexisted>>
       ELSE Rejected /\ coexisted' = FALSE

Read ==
  /\ ReadReceipt \/ ReadArtifact \/ RevalidateReceipt \/ RevalidateArtifact
  /\ UNCHANGED vars

ReadInit ==
  /\ Init
  /\ reader = "idle"
  /\ seen = [n \in {"art", "rcp"} |-> NoFile]
  /\ coexisted = FALSE

ReadNext == Read \/ (Next /\ UNCHANGED reading)

ReadSpec == ReadInit /\ [][ReadNext]_<<vars, reading>>

-----------------------------------------------------------------------------
ReadTypeOK ==
  /\ reader \in ReaderPhases
  /\ seen \in [{"art", "rcp"} -> File \cup {NoFile}]
  /\ coexisted \in BOOLEAN

\* A pair that verify_promoted_result accepted was in place as a pair: at
\* one instant the very files it read stood at both names, whatever was
\* replaced or rewritten while it read them one after the other.
\* (verify_promoted_result, _revalidate_durable_read)
VerifiedPairCoexisted == reader = "verified" => coexisted

=============================================================================
