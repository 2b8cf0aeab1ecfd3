------------------------ MODULE DHCPv6RequestedOptions ------------------------
(***************************************************************************)
(* The requested-options set of DHCPv6Client.c: the process-wide globals  *)
(* DHCPv6RequestedOptionsDefault/-Count and DHCPv6RequestedOptions/-Count, *)
(* DHCPv6ClientSetRequestedOptions that installs the service's list,       *)
(* DHCPv6ClientOptionIsOK that filters the options of a reply, and the ORO *)
(* that DHCPv6ClientMakePacket writes into every message.                  *)
(*                                                                         *)
(* A C array with its count is a record [ptr, count]: ptr is NULL or the   *)
(* sequence of option codes the pointer designates.  The service's array   *)
(* is stored by pointer, never copied.                                     *)
(***************************************************************************)
EXTENDS Naturals, Sequences, SequencesExt

CONSTANTS
    Options,        \* option codes a reply may carry
    Lists,          \* arrays the service may install (sequences of codes)
    MaxCount,       \* largest count the service passes with a NULL array
    OROCap,         \* codes that fit in the ORO of the 1500-byte buffer
    NULL

\* Option codes of RFC 3315/3646/7710 used by the file.
CLIENTID == 1
SERVERID == 2
IA_NA == 3
IA_TA == 4
IAADDR == 5
ORO == 6
PREFERENCE == 7
ELAPSED_TIME == 8
RELAY_MSG == 9
AUTH == 11
UNICAST == 12
STATUS_CODE == 13
RAPID_COMMIT == 14
USER_CLASS == 15
VENDOR_CLASS == 16
VENDOR_OPTS == 17
INTERFACE_ID == 18
RECONF_MSG == 19
RECONF_ACCEPT == 20
DNS_SERVERS == 23
DOMAIN_LIST == 24
CAPTIVE_PORTAL_URL == 103

\* DHCPv6RequestedOptionsStatic.
Static == [ptr |-> <<DNS_SERVERS, DOMAIN_LIST, CAPTIVE_PORTAL_URL>>, count |-> 3]

\* The options OptionIsOK's switch accepts whatever was requested.
AlwaysOK == {CLIENTID, SERVERID, ORO, ELAPSED_TIME, UNICAST, RAPID_COMMIT,
             IA_NA, IAADDR, STATUS_CODE, IA_TA, PREFERENCE, RELAY_MSG, AUTH,
             USER_CLASS, VENDOR_CLASS, VENDOR_OPTS, INTERFACE_ID, RECONF_MSG,
             RECONF_ACCEPT}

VARIABLES
    default,    \* DHCPv6RequestedOptionsDefault / -DefaultCount
    requested,  \* DHCPv6RequestedOptions / -Count
    oro,        \* the ORO of the last packet MakePacket built
    made        \* outcome of the last MakePacket: "none", "ok", "failed"

vars == <<default, requested, oro, made>>

\* The arrays a caller may pass: NULL with any count, or an array with a
\* count up to its length (zero included); a larger count would have the
\* code read past the caller's array.
Calls == [ptr : {NULL}, count : 0..MaxCount]
           \cup UNION {[ptr : {l}, count : 0..Len(l)] : l \in Lists}

Init ==
    /\ default = Static
    /\ requested = Static
    /\ oro = <<>>
    /\ made = "none"

\* DHCPv6ClientSetRequestedOptions: a non-NULL array with a non-zero count
\* replaces the default, anything else restores the static list; the
\* current list then becomes the default.
SetRequestedOptions(arg) ==
    LET d == IF arg.ptr # NULL /\ arg.count # 0 THEN arg ELSE Static
    IN  /\ default' = d /\ requested' = d
        /\ UNCHANGED <<oro, made>>

\* The loop of DHCPv6ClientOptionIsOK over DHCPv6RequestedOptions[0..count-1]
\* (here 1-based), reading each entry until one matches.
\* Mutant: the loop stops one entry early.
RECURSIVE InList(_, _)
InList_Short(o, i) ==
    /\ i < requested.count
    /\ requested.ptr[i] = o \/ InList(o, i + 1)

InList(o, i) ==
    /\ i <= requested.count
    /\ requested.ptr[i] = o \/ InList(o, i + 1)

\* DHCPv6ClientOptionIsOK.
OptionIsOK(o) == o \in AlwaysOK \/ InList(o, 1)

\* DHCPv6ClientMakePacket's ORO: the current list is added to the option
\* area; when it does not fit, the message is not built (NULL returned).
MakePacket ==
    /\ IF requested.count <= OROCap
         THEN oro' = SubSeq(requested.ptr, 1, requested.count) /\ made' = "ok"
         ELSE made' = "failed" /\ UNCHANGED oro
    /\ UNCHANGED <<default, requested>>

Next ==
    \/ \E arg \in Calls : SetRequestedOptions(arg)
    \/ MakePacket

Spec == Init /\ [][Next]_vars

-----------------------------------------------------------------------------
\* DHCPv6ClientOptionIsOK accepts exactly the always-allowed options and
\* the codes of the current requested list, the set the ORO last built
\* asked for when the list has not changed since.
OptionIsOKMatchesList ==
    requested.ptr # NULL => \A o \in Options :
        OptionIsOK(o) <=>
            o \in AlwaysOK \cup ToSet(SubSeq(requested.ptr, 1, requested.count))

\* Spec 4.3: the ORO asks for the union of the static default (DNS servers,
\* domain list, captive portal URL) and the service's override.
OROHasStaticDefault ==
    made = "ok" => ToSet(Static.ptr) \subseteq ToSet(oro)
=============================================================================
