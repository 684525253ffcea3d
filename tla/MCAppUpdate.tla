---------------------------- MODULE MCAppUpdate ----------------------------
(* A build without a version, or a prerelease, is what is installed to begin with;
   then come the release of the prerelease, whose package the installers refuse,
   and the next release, which published no checksums. *)
EXTENDS AppUpdate
R(v, core_, tag, s) == [v |-> v, ver |-> TRUE, core |-> core_, tag |-> tag, pre |-> tag # Plain, asset |-> TRUE, sums |-> s]
Build == [v |-> 0, ver |-> FALSE, core |-> 0, tag |-> Plain, pre |-> FALSE, asset |-> FALSE, sums |-> FALSE]
History == <<Build, R(1, 1, 1, TRUE), R(2, 1, Plain, TRUE), R(3, 2, Plain, FALSE)>>
=============================================================================
