------------------------------ MODULE Options ------------------------------
(***************************************************************************)
(* The start of main: the command line (Options.cpp 13-56), config.json    *)
(* (88-132), and what main makes of the list of options: the listeners     *)
(* (main.cpp 53-60) and the directory every worker gets (63).              *)
(*                                                                         *)
(* A JSON value is [type, value]; an entry of config.json gives some of    *)
(* its keys one.  null and {} are read as a list without an entry.         *)
(***************************************************************************)
EXTENDS Integers, Sequences, SequencesExt, Functions

CONSTANTS Arguments,  \* command lines: sequences of [key, arg]
          Files,      \* contents of config.json, see FileOK
          PortSize,   \* the ports: 2^16
          IntHalf,    \* the ints that are not negative: 2^31
          Texts4, Texts6  \* what inet_pton accepts for AF_INET and AF_INET6

Absent == [kind |-> "absent"]
Garbage == [kind |-> "garbage"]
Keys == {"ipfamily", "address", "port", "directory", "secure"}

FileOK(f) ==
    \/ f \in {Absent, Garbage}
    \/ /\ f.kind = "list" /\ f.entries \in Seq(Range(f.entries))
       /\ \A e \in Range(f.entries) :
            /\ DOMAIN e \subseteq Keys
            /\ "port" \in DOMAIN e /\ e["port"].type = "number" => e["port"].value \in Int

ASSUME OptionsAssumption ==
    /\ PortSize \in Nat /\ PortSize > 1
    /\ IntHalf \in Nat /\ \E n \in 1..IntHalf : IntHalf = n * PortSize
    /\ \A f \in Files : FileOK(f)

VARIABLES
    pc,        \* main's place
    argv,      \* the arguments getopt has not seen
    command,   \* commandOption
    file,      \* config.json
    entry,     \* the index of the one that is read
    m_options,
    listening  \* what was given to bind, for each listener

vars == <<pc, argv, command, file, entry, m_options, listening>>

Option(family, address, port, directory, isSecure) ==
    [family |-> family, address |-> address, port |-> port,
     directory |-> directory, isSecure |-> isSecure]

\* The port is 2000 and the directory an absolute path.
Default == Option("ip4", "127.0.0.1", 2, "Final", FALSE)

\* Conversions to int and to a port keep the low bits; int has a sign.
ToInt(x) == ((x + IntHalf) % (2 * IntHalf)) - IntHalf

\* bind reads the bytes in the network's order: the port as it was.
htons(port) == port % PortSize

Init ==
    /\ pc = "getopt" /\ argv \in Arguments /\ file \in Files
    /\ command = Default /\ entry = 1 /\ m_options = <<>> /\ listening = <<>>

Goes(from, to) == pc = from /\ pc' = to

-----------------------------------------------------------------------------
(* The command line.                                                       *)

\* The argument of -p is the number atoi reads, 0 for what is none.
Set(o, key, arg) ==
    CASE key = "h" -> [o EXCEPT !.address = arg]
      [] key = "p" -> [o EXCEPT !.port = ToInt(arg)]
      [] key = "d" -> [o EXCEPT !.directory = arg]
      [] OTHER     -> o

GetOpt ==
    /\ Goes("getopt", "getopt") /\ argv # <<>>
    /\ command' = Set(command, Head(argv).key, Head(argv).arg)
    /\ argv' = Tail(argv)
    /\ UNCHANGED <<file, entry, m_options, listening>>

\* Then LoadConfig: without config.json the command line is the option.
NoConfig ==
    /\ Goes("getopt", "listen") /\ argv = <<>>
    /\ file = Absent
    /\ m_options' = <<command>>
    /\ UNCHANGED <<argv, command, file, entry, listening>>

OpenConfig ==
    /\ Goes("getopt", IF file = Garbage THEN "exception" ELSE "config") /\ argv = <<>>
    /\ file # Absent
    /\ UNCHANGED <<argv, command, file, entry, m_options, listening>>

-----------------------------------------------------------------------------
(* LoadConfig's loop.                                                      *)

Entry == file.entries[entry]
TypeOf(key) == IF key \in DOMAIN Entry THEN Entry[key].type ELSE "null"

\* json's conversions: a string from a string only, an int from every
\* number and from a boolean.
Converts ==
    /\ \A key \in Keys \ {"port"} : TypeOf(key) = "string"
    /\ TypeOf("port") \in {"number", "boolean"}

Port == IF TypeOf("port") = "boolean" THEN (IF Entry["port"].value THEN 1 ELSE 0)
        ELSE ToInt(Entry["port"].value)

secureToBool(secure) == secure = "true"

\* Mutant: what an entry leaves out is taken from the command line.
LoadEntry_Default ==
    /\ Goes("config", "config") /\ entry <= Len(file.entries)
    /\ TypeOf("port") \in {"number", "boolean"}
    /\ LET Value(key, default) == IF TypeOf(key) = "string" THEN Entry[key].value ELSE default
       IN  m_options' = Append(m_options,
             Option(Value("ipfamily", command.family), Value("address", command.address), Port,
                    Value("directory", command.directory), secureToBool(Value("secure", ""))))
    /\ entry' = entry + 1
    /\ UNCHANGED <<argv, command, file, listening>>

LoadEntry ==
    /\ Goes("config", "config") /\ entry <= Len(file.entries)
    /\ Converts
    /\ LET Value(key) == Entry[key].value
       IN  m_options' = Append(m_options,
             Option(Value("ipfamily"), Value("address"), Port,
                    Value("directory"), secureToBool(Value("secure"))))
    /\ entry' = entry + 1
    /\ UNCHANGED <<argv, command, file, listening>>

\* type_error: Options' constructor throws, main ends.
EntryThrows ==
    /\ Goes("config", "exception") /\ entry <= Len(file.entries)
    /\ ~Converts
    /\ UNCHANGED <<argv, command, file, entry, m_options, listening>>

ConfigRead ==
    /\ Goes("config", "listen") /\ entry > Len(file.entries)
    /\ UNCHANGED <<argv, command, file, entry, m_options, listening>>

-----------------------------------------------------------------------------
(* main.                                                                   *)

\* ServerSocket: the option's family is the one its address is read in; the
\* socket is an AF_INET one, and so is the address bind gets.
Current == m_options[Len(listening) + 1]
Family(o) == IF o.family = "ip4" THEN "AF_INET" ELSE "AF_INET6"
inet_pton(f, address) == address \in (IF f = "AF_INET" THEN Texts4 ELSE Texts6)

Listen ==
    /\ Goes("listen", "listen") /\ Len(listening) < Len(m_options)
    /\ Family(Current) = "AF_INET" /\ inet_pton("AF_INET", Current.address)
    /\ listening' = Append(listening,
         [family |-> "AF_INET", address |-> Current.address, port |-> htons(Current.port),
          isSecure |-> Current.isSecure])
    /\ UNCHANGED <<argv, command, file, entry, m_options>>

\* The 16 bytes of an AF_INET6 address are written over the 4 of sin_addr and
\* past the end of sockAddr: undefined.
ListenOverruns ==
    /\ Goes("listen", "undefined") /\ Len(listening) < Len(m_options)
    /\ Family(Current) = "AF_INET6" /\ inet_pton("AF_INET6", Current.address)
    /\ UNCHANGED <<argv, command, file, entry, m_options, listening>>

\* No address of its family; or one, and bind fails: NetException.
ListenThrows ==
    /\ Goes("listen", "exception") /\ Len(listening) < Len(m_options)
    /\ Family(Current) = "AF_INET" \/ ~inet_pton("AF_INET6", Current.address)
    /\ UNCHANGED <<argv, command, file, entry, m_options, listening>>

\* CreateThreads(stack, GetDirectory(0)): undefined for an empty vector.
CreateThreads ==
    /\ Goes("listen", IF m_options = <<>> THEN "undefined" ELSE "serving")
    /\ Len(listening) = Len(m_options)
    /\ UNCHANGED <<argv, command, file, entry, m_options, listening>>

GetDirectory(index) == m_options[index + 1].directory

\* The directory out of which a client of listener l is served.
ServedFrom(l) == GetDirectory(0)

Next ==
    \/ GetOpt \/ NoConfig \/ OpenConfig \/ LoadEntry \/ EntryThrows \/ ConfigRead
    \/ Listen \/ ListenOverruns \/ ListenThrows \/ CreateThreads

Spec == Init /\ [][Next]_vars

-----------------------------------------------------------------------------
(* Properties.                                                             *)

\* The port of entry e as it reaches bind: of a number the low bits, so that
\* one in range is the number itself.
PortKept(e, port) ==
    IF e["port"].type = "boolean" THEN port = (IF e["port"].value THEN 1 ELSE 0)
    ELSE port \in 0..(PortSize - 1) /\ (port - e["port"].value) % PortSize = 0

(* A config.json is all there is: once it is served, each of its entries   *)
(* is one listener, in order and with its own family, address, port and    *)
(* security, none of them filled in from the command line or another       *)
(* entry.  Only entries of the family ip4 are ever served.                 *)
ConfigDecides ==
    pc = "serving" /\ file.kind = "list" =>
        /\ Len(listening) = Len(file.entries)
        /\ \A l \in DOMAIN listening :
             LET e == file.entries[l]
             IN  /\ DOMAIN e = Keys
                 /\ e["ipfamily"].value = "ip4" /\ listening[l].family = "AF_INET"
                 /\ listening[l].address = e["address"].value
                 /\ PortKept(e, listening[l].port)
                 /\ listening[l].isSecure <=> e["secure"].value = "true"
                 /\ m_options[l].directory = e["directory"].value

(* The start is undefined for a config.json without an entry and for one   *)
(* with an entry of another family whose address is an IPv6 one, and for   *)
(* nothing else; neither is ever served.                                   *)
UndefinedStart ==
    LET NoEntry == file.entries = <<>>
        SomeIp6 == \E e \in Range(file.entries) :
                     /\ DOMAIN e = Keys /\ e["ipfamily"].value # "ip4"
                     /\ e["address"].value \in Texts6
    IN  /\ pc = "undefined" => file.kind = "list" /\ (NoEntry \/ SomeIp6)
        /\ pc = "serving" /\ file.kind = "list" => ~NoEntry /\ ~SomeIp6

(* Together: what can come of a config.json.                               *)
StartedAsConfigured == ConfigDecides /\ UndefinedStart

(* What config.json says by giving every listener a directory of its own.  *)
OwnDirectory ==
    pc = "serving" => \A l \in DOMAIN listening : ServedFrom(l) = m_options[l].directory
=============================================================================
