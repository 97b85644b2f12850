----------------------------- MODULE MCInstaller -----------------------------
(* Model values for TLC's runs of Installer. *)
EXTENDS InstallerProps, TLC

CONSTANTS medium, stick, tiny, p1, p2, p3, noDisk, noPath

MCFiles == <<"kernel", "root">>

\* Names of disks are alike.
Names == Permutations({p1, p2, p3})
=============================================================================
