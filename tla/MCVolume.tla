------------------------------ MODULE MCVolume ------------------------------
(* Small instances of Volume for TLC. *)
EXTENDS Volume

CONSTANTS t1, t2

Entry(type, state, secret) ==
    [type |-> type, state |-> state, secret |-> secret]

\* An unencrypted volume with one snapshot.
PlainDisk ==
    [encrypted |-> FALSE, containerBag |-> "none", extent |-> "absent",
     entries |-> <<>>, masterKey |-> FALSE, snapshotTree |-> "good",
     snapshots |-> 1, sealed |-> FALSE, sealedBlock |-> "volume",
     root |-> TRUE, rootMapped |-> TRUE, files |-> {"file"}]

\* Sealed volumes, read through a snapshot or not at all.
SealedDisk == [PlainDisk EXCEPT !.sealed = TRUE, !.containerBag = "readable"]
SealedDamagedDisk == [SealedDisk EXCEPT !.sealedBlock = "damaged"]
SealedTreeDamagedDisk == [SealedDisk EXCEPT !.snapshotTree = "damaged"]

\* Volumes that cannot be opened or have no file system.
RootlessDisk ==
    [PlainDisk EXCEPT !.root = FALSE, !.snapshotTree = "none", !.snapshots = 0]
UnmappedDisk ==
    [PlainDisk EXCEPT !.rootMapped = FALSE, !.snapshotTree = "none",
                      !.snapshots = 0]

\* Encrypted volumes: a hint that is skipped and two key encrypted keys, for
\* the user's password and for the recovery password.
EncryptedDisk ==
    [PlainDisk EXCEPT
        !.encrypted = TRUE, !.containerBag = "readable", !.extent = "present",
        !.masterKey = TRUE,
        !.entries = <<Entry(2, "good", "right"), Entry(3, "good", "right"),
                      Entry(3, "good", "rescue")>>]
OneKeyDisk ==
    [EncryptedDisk EXCEPT !.entries = <<Entry(3, "good", "right")>>]
EmptyBagDisk == [EncryptedDisk EXCEPT !.extent = "empty"]
NoMasterKeyDisk == [EncryptedDisk EXCEPT !.masterKey = FALSE]
DamagedKeyDisk ==
    [EncryptedDisk EXCEPT !.entries = <<Entry(3, "good", "right"),
                                        Entry(3, "damaged", "rescue")>>]
UnsupportedKeyDisk ==
    [EncryptedDisk EXCEPT !.entries = <<Entry(3, "unsupported", "right"),
                                        Entry(3, "good", "right")>>]
\* The container's key bag is locked, as on a machine with a T2 chip.
LockedBagDisk ==
    [EncryptedDisk EXCEPT !.containerBag = "locked", !.extent = "absent",
                          !.entries = <<>>, !.masterKey = FALSE]

\* The container has no key bag, or one that does not name the volume.
NoBagDisk == [LockedBagDisk EXCEPT !.containerBag = "none"]
NoExtentDisk == [LockedBagDisk EXCEPT !.containerBag = "readable"]
KeylessDisks == {LockedBagDisk, NoBagDisk, NoExtentDisk}

OpenDisks == {PlainDisk, SealedDisk, SealedDamagedDisk, SealedTreeDamagedDisk,
              RootlessDisk, UnmappedDisk, EmptyBagDisk}
KeyDisks == {EncryptedDisk, OneKeyDisk, NoMasterKeyDisk, DamagedKeyDisk,
             UnsupportedKeyDisk} \cup KeylessDisks
AllDisks == OpenDisks \cup KeyDisks
PlainDisks == {PlainDisk}
\* No disk has more than the one snapshot 0.
AnyIndex == {-1, 0, 1}
=============================================================================
