---------------------------- MODULE MCRtpSources ----------------------------
(* A small instance of RtpSources: three identifiers and two addresses on  *)
(* one host; the other host is our own, whose address is Self.             *)
EXTENDS RtpSources, TLC

CONSTANTS s1, s2, s3

MCSSRCs == {s1, s2, s3}
MCAddresses == {<<"A", 1>>, <<"A", 2>>}
MCSymmetry == Permutations(MCSSRCs)
=============================================================================
