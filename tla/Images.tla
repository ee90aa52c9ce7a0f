------------------------------- MODULE Images -------------------------------
(***************************************************************************)
(* The firmware image store (api/mod.rs, put_image and delete_image): an   *)
(* upload is written to the temporary file of its name, synced and renamed *)
(* over the image, while other uploads of that name do the same and an     *)
(* update reads the image.  A file is an inode; a name leads to one.       *)
(***************************************************************************)
EXTENDS Absent, Naturals, FiniteSets

CONSTANT Uploads                 \* uploads of one image name, with bodies that differ

ASSUME NoInodeAssumption == None \notin Uploads

VARIABLES temp, image,           \* the inode each name leads to, or None
          bytes,                 \* per inode (named for the upload that made it) whose bytes are in it
          upload,                \* per upload: its step and the inode it has open
          overlap                \* history: two uploads ran at a time

imvars == <<temp, image, bytes, upload, overlap>>

ImInit ==
    /\ temp = None /\ image = None
    /\ bytes = [u \in Uploads |-> {}]
    /\ upload = [u \in Uploads |-> [pc |-> "idle", open |-> None]]
    /\ overlap = FALSE

Running == {u \in Uploads : upload[u].pc \in {"write", "rename"}}

\* File::create makes the file, or empties the one that has the name.
Create(u) ==
    /\ upload[u].pc = "idle"
    /\ LET inode == IF temp = None THEN u ELSE temp
       IN  /\ temp' = inode
           /\ bytes' = [bytes EXCEPT ![inode] = {}]
           /\ upload' = [upload EXCEPT ![u] = [pc |-> "write", open |-> inode]]
    /\ overlap' = (overlap \/ Running # {})
    /\ UNCHANGED image

\* write_all and sync_all, or neither.
Write(u) ==
    /\ upload[u].pc = "write"
    /\ bytes' = [bytes EXCEPT ![upload[u].open] = @ \union {u}]
    /\ upload' = [upload EXCEPT ![u].pc = "rename"]
    /\ UNCHANGED <<temp, image, overlap>>

WriteImageFails(u) ==
    /\ upload[u].pc = "write"
    /\ upload' = [upload EXCEPT ![u].pc = "done"]
    /\ UNCHANGED <<temp, image, bytes, overlap>>

RenameFirst(u) == \* mutant: renamed before it is written
    /\ upload[u].pc = "write"
    /\ IF temp = None THEN UNCHANGED <<temp, image>> ELSE image' = temp /\ temp' = None
    /\ upload' = [upload EXCEPT ![u].pc = "done"]
    /\ UNCHANGED <<bytes, overlap>>
RenameImage(u) ==
    /\ upload[u].pc = "rename"
    /\ IF temp = None THEN UNCHANGED <<temp, image>> ELSE image' = temp /\ temp' = None
    /\ upload' = [upload EXCEPT ![u].pc = "done"]
    /\ UNCHANGED <<bytes, overlap>>

DeleteImage ==
    /\ image # None /\ image' = None
    /\ UNCHANGED <<temp, bytes, upload, overlap>>

\* The process ends: its uploads with it.
UploadsEnd ==
    /\ Running # {}
    /\ upload' = [u \in Uploads |-> IF u \in Running THEN [upload[u] EXCEPT !.pc = "done"] ELSE upload[u]]
    /\ UNCHANGED <<temp, image, bytes, overlap>>

ImNext ==
    \/ \E u \in Uploads : Create(u) \/ Write(u) \/ WriteImageFails(u) \/ RenameImage(u)
    \/ DeleteImage \/ UploadsEnd

ImSpec == ImInit /\ [][ImNext]_imvars

-----------------------------------------------------------------------------
Whole(inode) == \E u \in Uploads : bytes[inode] = {u}

(* While uploads of a name come one after the other, what has the name is one  *)
(* whole upload, whatever a failed write, a delete or a restart left of the    *)
(* temporary file before (api/mod.rs, put_image).                              *)
ImagesOK == ~overlap /\ image # None => Whole(image)

(* Documented at put_image (api/mod.rs:2079, a half-upload or a reset never    *)
(* becomes an image): whatever has the image's name is one whole upload.       *)
HalfIsNoImage == image # None => Whole(image)
=============================================================================
