----------------------------- MODULE MCClients ------------------------------
(* The DAV objects, the terminal's input, the file transfer and the fetcher *)
(* share no state, so one of them runs in each behaviour: focus names it    *)
(* and the others rest in one of their first states.                        *)
EXTENDS DavObjects, Terminal, Xmodem, Fetch, TLC

CONSTANTS c1, c2

VARIABLE focus

MCDefault == [u \in Uids |-> IF u = "u1" THEN "d1" ELSE "d2"]
MCSymmetry == Permutations(Clients)

clientsVars == <<dvars, tvars, xvars, fvars, focus>>

MCInit ==
    /\ DavInit /\ TerminalInit /\ XmodemInit /\ FetchInit
    /\ focus \in {"dav", "terminal", "xmodem", "fetch"}
    /\ focus # "dav" => ~files
    /\ focus # "xmodem" => xr.limit = CHOOSE n \in Limits : TRUE
    /\ focus # "fetch" => source.leave /\ source.kind = CHOOSE k \in Kinds : TRUE

MCNext ==
    /\ UNCHANGED focus
    /\ \/ focus = "dav" /\ DavNext /\ UNCHANGED <<tvars, xvars, fvars>>
       \/ focus = "terminal" /\ TerminalNext /\ UNCHANGED <<dvars, xvars, fvars>>
       \/ focus = "xmodem" /\ XmodemNext /\ UNCHANGED <<dvars, tvars, fvars>>
       \/ focus = "fetch" /\ FetchNext /\ UNCHANGED <<dvars, tvars, xvars>>

MCSpec == MCInit /\ [][MCNext]_clientsVars

(* The component that runs is well typed; the others are where they began. *)
ClientsTypeOK ==
    /\ focus = "dav" => DavTypeOK
    /\ focus = "terminal" => TerminalTypeOK
    /\ focus = "xmodem" => XmodemTypeOK
    /\ focus = "fetch" => FetchTypeOK
=============================================================================
