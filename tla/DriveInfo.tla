----------------------------- MODULE DriveInfo -----------------------------
(***************************************************************************)
(* Drive::hardware_identifiers and Drive::capabilities (drive.rs): what     *)
(* they make of the structures that libcdio fills.  A set of flags is the   *)
(* set of their names, a string the sequence of its characters.             *)
(***************************************************************************)
EXTENDS SequencesExt

MiscCapabilities  == {"CloseTray", "Eject", "Lock", "SelectSpeed", "SelectDisc", "MultiSession",
                      "MediaChanged", "Reset"}
ReadCapabilities  == {"Audio", "CdDa", "CdPlusG", "CdR", "CdRw", "DvdR", "DvdPlusR", "DvdRam", "DvdRom",
                      "DvdRw", "DvdPlusRw", "C2Errors", "Mode2Form1", "Mode2Form2", "Mcn", "Isrc"}
WriteCapabilities == {"CdR", "CdRw", "DvdR", "DvdPlusR", "DvdRam", "DvdRw", "DvdPlusRw", "Mrw", "BurnProof"}

-----------------------------------------------------------------------------
\* str::trim_end
Padding == " "
TrimEnd(text) == SubSeq(text, 1, SelectLastInSeq(text, LAMBDA char : char # Padding))

DriveIdentifiers(hwinfo) ==
  IF ~hwinfo.found THEN [status |-> "OperationError"]
  ELSE [status |-> "Ok", value |-> [model    |-> TrimEnd(hwinfo.psz_model),
                                    vendor   |-> TrimEnd(hwinfo.psz_vendor),
                                    revision |-> TrimEnd(hwinfo.psz_revision)]]

\* Mutant: the flags without a name are dropped, as from_bits_truncate does.
DriveCapabilitiesTruncated(cap) ==
  [status |-> "Ok", value |-> [read |-> cap.read \intersect ReadCapabilities,
                               write |-> cap.write \intersect WriteCapabilities,
                               misc |-> cap.misc \intersect MiscCapabilities]]

\* from_bits fails for a set with a flag that has no name.
DriveCapabilities(cap) ==
  IF /\ cap.read \subseteq ReadCapabilities
     /\ cap.write \subseteq WriteCapabilities
     /\ cap.misc \subseteq MiscCapabilities
  THEN [status |-> "Ok", value |-> [read |-> cap.read, write |-> cap.write, misc |-> cap.misc]]
  ELSE [status |-> "OperationError"]

-----------------------------------------------------------------------------
(***************************************************************************)
(* What a drive is, and the structures that libcdio makes of it.            *)
(***************************************************************************)
DriveCalls == {"Drive::hardware_identifiers", "capabilities"}

\* Nothing, each flag alone, all but each, and all.
FlagSets(flags) == {{}, flags} \union UNION {{{f}, flags \ {f}} : f \in flags}

DriveNames == {<<>>, <<"A">>, <<Padding, "A", Padding, "B">>}

Drives(c) ==
  CASE c = "Drive::hardware_identifiers" -> [found : BOOLEAN, model : DriveNames, vendor : DriveNames,
                                               revision : DriveNames, padding : 0..2]
    [] c = "capabilities" ->
         [known : BOOLEAN, read : FlagSets(ReadCapabilities), write : {{}}, misc : {{"Eject"}}]
         \union
         [known : BOOLEAN, read : {{"Mcn"}}, write : FlagSets(WriteCapabilities), misc : FlagSets(MiscCapabilities)]

\* External: cdio_get_hwinfo pads a name with spaces; cdio_get_drive_cap has
\* flags of its own for a drive that it knows nothing about.
DriveStructure(c, a) ==
  CASE c = "Drive::hardware_identifiers" ->
         LET padded(name) == name \o [k \in 1..a.padding |-> Padding]
         IN  [found |-> a.found, psz_model |-> padded(a.model), psz_vendor |-> padded(a.vendor),
              psz_revision |-> padded(a.revision)]
    [] c = "capabilities" ->
         LET unknown == IF a.known THEN {} ELSE {"Unknown"}
         IN  [read |-> a.read \union unknown, write |-> a.write \union unknown, misc |-> a.misc \union unknown]

DriveResult(c, structure) ==
  IF c = "capabilities" THEN DriveCapabilities(structure) ELSE DriveIdentifiers(structure)

-----------------------------------------------------------------------------
\* The names without their padding; the flags, of a drive that libcdio knows.
DriveSays(c, a, value) ==
  CASE c = "Drive::hardware_identifiers" ->
         a.found /\ value = [model |-> a.model, vendor |-> a.vendor, revision |-> a.revision]
    [] c = "capabilities" ->
         a.known /\ value = [read |-> a.read, write |-> a.write, misc |-> a.misc]

\* Every flag that libcdio has for a drive that it knows has a name here.
DriveUnderstood(c, a, status) ==
  CASE c = "Drive::hardware_identifiers" -> a.found => status = "Ok"
    [] c = "capabilities"                  -> a.known => status = "Ok"
=============================================================================
