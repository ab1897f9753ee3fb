-------------------------- MODULE MCCloudDispatch --------------------------
(* Four requests: a wave file (174), a reference change (145), a parameter *)
(* behind it in the table (114), and a sign nobody registered (8).         *)
EXTENDS CloudDispatch

CONSTANTS wave, refs, switch, other

MCFrames == {wave, refs, switch, other}
MCSign == [f \in MCFrames |->
    CASE f = wave -> 174 [] f = refs -> 145 [] f = switch -> 114 [] f = other -> 8]

=============================================================================
