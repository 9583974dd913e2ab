--------------------------- MODULE EvidenceVault ---------------------------
(***************************************************************************)
(* EvidenceVault (evidence_vault.cpp) and its caller PrepareEvidenceFrame  *)
(* (camera_module.cpp): the encrypted originals on disk.  A file is its    *)
(* age in days, up to Retain, once its header can be read; what follows    *)
(* the header, cut off or not, matters to nobody here.  A photo is named   *)
(* after the millisecond it was taken at, so its file is a new one; the    *)
(* one exception is the photo of a confirmed dumping, always "confirm".    *)
(* The clock (NowUnix) is taken to be right.                               *)
(***************************************************************************)
EXTENDS Integers

CONSTANTS
  Shot,      \* pool of names with a time in them
  Confirm,   \* the name "confirm"
  None,      \* no name
  Retain     \* retain_days; 0 keeps for ever

ASSUME VaultOK == Confirm \notin Shot /\ None \notin Shot \cup {Confirm} /\ Retain \in Nat

VARIABLES
  files,     \* vault_dir
  writing    \* the file each thread is in StoreOriginal with

vaultVars == <<files, writing>>

Name == Shot \cup {Confirm}
Writer == {"main", "servo"}   \* the threads that take photos

Gone == -2
Stub == -1     \* shorter than its header

VaultTypeOK ==
  /\ files \in [Name -> Gone..Retain]
  /\ writing \in [Writer -> Name \cup {None}]

VaultInit ==
  /\ files = [n \in Name |-> Gone]
  /\ writing = [w \in Writer |-> None]
-----------------------------------------------------------------------------
(* Mutants: an operator named after a definition and a fault is that       *)
(* definition with the fault; no specification uses it.                    *)

(* retain_days = 30 expires after 29 *)
ExpiredEarly(n) == Retain > 0 /\ files[n] >= 0 /\ files[n] >= Retain - 1

(* now_unix > expire_at in days *)
ExpiredLate(n) == Retain > 0 /\ files[n] > Retain

-----------------------------------------------------------------------------
(* IsExpired: a file whose header cannot be read never expires.            *)
Expired(n) == Retain > 0 /\ files[n] >= 0 /\ files[n] >= Retain

(* The time that passes, a day at a time.                                  *)
Aged(n) == IF files[n] >= 0 /\ files[n] < Retain THEN files[n] + 1 ELSE files[n]

NewDay == files' = [n \in Name |-> Aged(n)] /\ UNCHANGED writing

(* StoreOriginal creates or truncates the file, ...                        *)
Create(w, n) ==
  /\ writing[w] = None
  /\ n = Confirm \/ files[n] = Gone
  /\ files' = [files EXCEPT ![n] = Stub]
  /\ writing' = [writing EXCEPT ![w] = n]

(* ... and writes it.  A failure is reported, and leaves what there is.    *)
Finish(w) ==
  /\ writing[w] # None
  /\ \E outcome \in {Stub, 0} : files' = [files EXCEPT ![writing[w]] = outcome]
  /\ writing' = [writing EXCEPT ![w] = None]

(* A crash leaves of the files being written what reached the disk.        *)
Torn ==
  /\ \E headed \in SUBSET {writing[w] : w \in Writer} :
       files' = [n \in Name |-> IF n \in headed THEN 0 ELSE files[n]]
  /\ writing' = [w \in Writer |-> None]

(* SweepExpired, one file: it is removed, or cannot be.                    *)
Purge(n, removed) ==
  /\ files' = IF removed THEN [files EXCEPT ![n] = Gone] ELSE files
  /\ UNCHANGED writing
=============================================================================
