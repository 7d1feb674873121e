----------------------------- MODULE MCAdmission -----------------------------
(***************************************************************************)
(* Every kind of line: a person, an account past the last regular uid, a   *)
(* person without a shell and root for passwd; for shadow every hash, and  *)
(* around a usable one every aging field at its edges on the days 0 to 2.  *)
(***************************************************************************)
EXTENDS Admission

MCLines ==
    {[uid |-> 1000, shell |-> "bash"], [uid |-> 60001, shell |-> "bash"],
     [uid |-> 1000, shell |-> "nologin"], [uid |-> 0, shell |-> "bash"]}

Entry(hash, expire, last_change, max) ==
    [hash |-> hash, expire |-> expire, last_change |-> last_change,
     max |-> max]

MCEntries ==
    {Entry(hash, expire, Unset, Unset) :
        hash \in Hashes \ {"sha512"}, expire \in {Unset, 1}}
    \cup {Entry("sha512", expire, last_change, max) :
             expire \in {Unset, 0, 1}, last_change \in {Unset, 0, 1},
             max \in {Unset, 0, 1}}
=============================================================================
