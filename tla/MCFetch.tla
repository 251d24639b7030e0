------------------------------- MODULE MCFetch -------------------------------
(***************************************************************************)
(* Three downloads like those of ARMPLATDB's dl section: a prebuilt zip    *)
(* with an MD5SUMS file (dl.archive), an image copied as it is with one    *)
(* (dl.img.android.ramdisk), and the repo tool, copied, with none          *)
(* (dl.tool.repo).                                                         *)
(***************************************************************************)
EXTENDS Fetch

MCKeys     == {"archive", "ramdisk", "repo"}
MCOrder    == <<"archive", "ramdisk", "repo">>
MCMd5Keys  == {"archive", "ramdisk"}
MCArchives == {"archive"}
MCNoLength == {}
\* The repo tool's server sends no Content-Length.
MCNoLengthRepo == {"repo"}
=============================================================================
