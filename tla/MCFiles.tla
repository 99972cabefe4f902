------------------------------ MODULE MCFiles ------------------------------
(* Instances of Files for TLC.                                             *)
EXTENDS Files, TLC

CONSTANTS proc1, proc2, na, testsuite, devnull

MCOpenflags == {{}, {"O_CREATE", "O_TRUNC", "O_RDWR", "O_APPEND"}}
MCNodes == {11}

\* open() treats all names alike: the names that some call singles out, and
\* root, are used where these calls are.
MCPaths == [data |-> {na, Root}, exec |-> {na}, pipes |-> {na, Root},
            names |-> Names \cup {Root}]
=============================================================================
