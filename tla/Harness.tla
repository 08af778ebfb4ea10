------------------------------- MODULE Harness -------------------------------
(***************************************************************************)
(* The shell scripts around the test programs: aibreann/check.sh ("smoke", *)
(* one disk per operation), brannagh/check.sh ("stress"), and dsk/mkdsk.sh *)
(* and dsk/umdsk.sh with the recipe of dsk/Makefile that calls them        *)
(* ("make"), all over shlib/bsd.lib.  Scripts run one after the other, as  *)
(* often as anybody likes; any command may fail, and the kernel under test *)
(* may panic while the test program runs.                                  *)
(*                                                                         *)
(* Faulty... definitions are plausible bugs that no specification uses.    *)
(***************************************************************************)
EXTENDS Integers, Sequences, FiniteSets

CONSTANTS
  Units,       (* device units; vnd0 .. vnd3 on NetBSD                      *)
  NFUNCS,      (* operations of the smoke test, what "aibreann -n" prints   *)
  NoUnit       (* no device                                                 *)

ASSUME HarnessAssumption ==
  /\ IsFiniteSet(Units) /\ NoUnit \notin Units
  /\ NFUNCS \in Nat \ {0}

VARIABLES
  sudo,        (* whether ${SUDO} is a command or empty                     *)
  script,      (* the script that runs, or that ran last                    *)
  pc,          (* its next command                                          *)
  acount,      (* the smoke test's operation                                *)
  md,          (* the script's device                                       *)
  units,       (* the image that each device is configured for              *)
  mounts,      (* the devices mounted on ${MNT}, the topmost last           *)
  mdtxt,       (* the contents of md.txt                                    *)
  image,       (* what is in each image file                                *)
  rc,          (* what the last script returned                             *)
  before,      (* the devices that were configured when the script started  *)
  trouble      (* a script has failed since the last boot                   *)

disks  == <<units, mounts, mdtxt, image>>
result == <<rc, before, trouble>>
vars   == <<sudo, script, pc, acount, md, units, mounts, mdtxt, image, rc,
            before, trouble>>

Scripts == {"smoke", "stress", "make"}
Images  == {"rd51", "ra81"}

(* stress unpacks the image that make has built next to the archive; smoke *)
(* unpacks its own.                                                        *)
ImageOf(s) == IF s = "smoke" THEN "rd51" ELSE "ra81"
Mine       == ImageOf(script)

Configured == {u \in Units : units[u] # "none"}
InUse      == \E u \in Units : units[u] = Mine

Init ==
  /\ sudo \in BOOLEAN
  /\ script = "none"
  /\ pc = "idle"
  /\ acount = 0
  /\ md = NoUnit
  /\ units = [u \in Units |-> "none"]
  /\ mounts = <<>>
  /\ mdtxt = NoUnit
  /\ image \in [Images -> {"used"}]
  /\ rc = 0
  /\ before = {}
  /\ trouble = FALSE

-----------------------------------------------------------------------------
Return(r) ==
  /\ rc' = r
  /\ pc' = "idle"
  /\ trouble' = (trouble \/ r # 0)
  /\ UNCHANGED before

Continue(next) == pc' = next /\ UNCHANGED result

(* A check begins with the image; the recipe of make begins with mkdsk.sh, *)
(* whose image was unpacked long ago.                                      *)
FirstStep(s) == IF s = "make" THEN "config" ELSE "unpack"

Start ==
  /\ pc = "idle"
  /\ script' \in Scripts
  /\ pc' = FirstStep(script')
  /\ acount' = 0
  /\ md' = NoUnit
  /\ before' = Configured
  /\ UNCHANGED <<sudo, disks, rc, trouble>>

FaultyUnpackOnce ==
  /\ pc = "unpack"
  /\ \/ /\ image' = IF acount > 0 THEN image
                    ELSE [image EXCEPT ![Mine] = IF InUse THEN "broken" ELSE "pristine"]
        /\ Continue("config")
     \/ /\ image' \in {image, [image EXCEPT ![Mine] = "broken"]}
        /\ Return(1)
  /\ UNCHANGED <<sudo, script, acount, md, units, mounts, mdtxt>>

(* ${GZCAT} < ${dsk} > ...: the file is no good if a device still uses its *)
(* old contents.  Without an archive nothing happens to it, but when the   *)
(* decompressor fails the redirection has emptied the file already.        *)
Unpack ==
  /\ pc = "unpack"
  /\ \/ /\ image' = [image EXCEPT ![Mine] = IF InUse THEN "broken" ELSE "pristine"]
        /\ Continue("config")
     \/ /\ image' \in {image, [image EXCEPT ![Mine] = "broken"]}
        /\ Return(1)
  /\ UNCHANGED <<sudo, script, acount, md, units, mounts, mdtxt>>

(* bstg_dskvnconfig(): the first unit that vnconfig accepts; if disklabel  *)
(* fails then the unit is given back, which may fail in its turn.          *)
Config ==
  /\ pc = "config"
  /\ \/ \E u \in Units \ Configured :
          /\ units' = [units EXCEPT ![u] = Mine]
          /\ \/ /\ md' = u
                /\ mdtxt' = IF script = "make" THEN u ELSE mdtxt
                /\ Continue(IF script = "make" THEN "newfs" ELSE "mount")
             \/ /\ Return(1)
                /\ UNCHANGED <<md, mdtxt>>
     \/ /\ Return(1)
        /\ UNCHANGED <<md, mdtxt, units>>
  /\ UNCHANGED <<sudo, script, acount, mounts, image>>

(* bstg_undskvnconfig(): a device that is mounted is busy.                 *)
Mounted(u)    == \E i \in 1 .. Len(mounts) : mounts[i] = u
Unconfig(u)   == units' = [units EXCEPT ![u] = "none"]
Release(u)    == IF Mounted(u) THEN UNCHANGED units
                               ELSE Unconfig(u) \/ UNCHANGED units

Newfs ==
  /\ pc = "newfs"
  /\ image' = [image EXCEPT ![Mine] = "used"]
  /\ \/ Continue("mount") /\ UNCHANGED units
     \/ Return(1) /\ Release(md)
  /\ UNCHANGED <<sudo, script, acount, md, mounts, mdtxt>>

(* bstg_bsdmount().  When it fails the device is given back, but the smoke *)
(* test calls the shell function by way of ${SUDO}, which only works when  *)
(* that is empty.                                                          *)
Mount ==
  /\ pc = "mount"
  /\ \/ /\ mounts' = Append(mounts, md)
        /\ Continue("run")
        /\ UNCHANGED units
     \/ /\ Return(1)
        /\ IF script = "smoke" /\ sudo THEN UNCHANGED units ELSE Release(md)
        /\ UNCHANGED mounts
  /\ UNCHANGED <<sudo, script, acount, md, mdtxt, image>>

(* The test program, whose exit status the checks do not look at, or the   *)
(* commands of the recipe between mkdsk.sh and umdsk.sh, which stop make   *)
(* when they fail.  umdsk.sh takes its device from md.txt.                 *)
Run ==
  /\ pc = "run"
  /\ image' = [image EXCEPT ![Mine] = "used"]
  /\ \/ Continue("umount")
     \/ script = "make" /\ Return(1)
  /\ md' = IF script = "make" THEN mdtxt ELSE md
  /\ UNCHANGED <<sudo, script, acount, units, mounts, mdtxt>>

(* The kernel panics: nothing is configured or mounted after the reboot.   *)
Panic ==
  /\ pc = "run"
  /\ script' = "none"
  /\ pc' = "idle"
  /\ md' = NoUnit
  /\ units' = [u \in Units |-> "none"]
  /\ mounts' = <<>>
  /\ image' = [image EXCEPT ![Mine] = "used"]
  /\ before' = {}
  /\ trouble' = FALSE
  /\ UNCHANGED <<sudo, acount, mdtxt, rc>>

(* umount ${MNT} takes what was mounted last.                              *)
Umount ==
  /\ pc = "umount"
  /\ \/ /\ mounts' = SubSeq(mounts, 1, Len(mounts) - 1)
        /\ Continue(IF script = "make" THEN "unconfig" ELSE "fsck")
     \/ /\ Return(1)
        /\ UNCHANGED mounts
  /\ UNCHANGED <<sudo, script, acount, md, units, mdtxt, image>>

Fsck ==
  /\ pc = "fsck"
  /\ Continue("unconfig") \/ Return(1)
  /\ UNCHANGED <<sudo, script, acount, md, disks>>

(* What follows a check that has succeeded: aibreann_checkall() goes on to *)
(* the next operation.                                                     *)
Succeed ==
  IF script = "smoke" /\ acount + 1 < NFUNCS
  THEN Continue("unpack") /\ acount' = acount + 1
  ELSE Return(0) /\ UNCHANGED acount

FaultyReleaseDevice ==
  /\ pc = "unconfig"
  /\ Succeed
  /\ UNCHANGED <<sudo, script, md, disks>>

FaultyReleaseUnchecked ==
  /\ pc = "unconfig"
  /\ Release(md)
  /\ Succeed
  /\ UNCHANGED <<sudo, script, md, mounts, mdtxt, image>>

ReleaseDevice ==
  /\ pc = "unconfig"
  /\ Release(md)
  /\ IF units'[md] = "none" THEN Succeed
                            ELSE Return(1) /\ UNCHANGED acount
  /\ UNCHANGED <<sudo, script, md, mounts, mdtxt, image>>

Next ==
  \/ Start
  \/ Unpack
  \/ Config
  \/ Newfs
  \/ Mount
  \/ Run
  \/ Panic
  \/ Umount
  \/ Fsck
  \/ ReleaseDevice

Spec == Init /\ [][Next]_vars

-----------------------------------------------------------------------------
TypeOK ==
  /\ sudo \in BOOLEAN
  /\ script \in Scripts \cup {"none"}
  /\ pc \in {"idle", "unpack", "config", "newfs", "mount", "run", "umount",
             "fsck", "unconfig"}
  /\ acount \in 0 .. (NFUNCS - 1)
  /\ md \in Units \cup {NoUnit}
  /\ mdtxt \in Units \cup {NoUnit}
  /\ units \in [Units -> Images \cup {"none"}]
  /\ mounts \in Seq(Configured)
  /\ image \in [Images -> {"pristine", "used", "broken"}]
  /\ rc \in {0, 1}
  /\ before \subseteq Units
  /\ trouble \in BOOLEAN

(* A script that succeeds gives its device back, and no other one.  The    *)
(* smoke test does so for each of the disks that it goes through.          *)
SuccessReleases ==
  pc = "idle" /\ script # "none" /\ rc = 0 => Configured = before

(* A script that fails leaves one device behind at most, although it has   *)
(* several ways to leave one, and releases none that is not its own.       *)
FailureLeaksOne ==
  script # "none" =>
    before \subseteq Configured /\ Cardinality(Configured \ before) <= 1

(* Each operation of the smoke test, and the stress test, gets an image    *)
(* that is unpacked and that no other device uses.  A panic in the middle  *)
(* is no exception.  A script that has failed is one only while a device   *)
(* that it left is configured for the same image.                          *)
StartsFresh ==
  pc = "run" /\ script # "make" =>
    \/ /\ image[Mine] = "pristine"
       /\ \A u \in Units \ {md} : units[u] # Mine
    \/ trouble /\ \E u \in before : units[u] = Mine

=============================================================================
