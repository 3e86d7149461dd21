-------------------------------- MODULE Hosts --------------------------------
(***************************************************************************)
(* The hosts file: what Parser::hosts (include/parser.hpp) accepts of it   *)
(* and the links main (src/main.cpp) makes of it.  The rest of the program *)
(* takes the link of a process from place id - 1 of that vector, and takes *)
(* an empty place for a link to itself.                                    *)
(***************************************************************************)
EXTENDS Integers, Sequences, FiniteSets, Functions, SequencesExt

CONSTANTS
    Ids,       \* the identifiers a file may name
    MaxLines,  \* how many lines a file may have
    NoLink     \* nullptr

ASSUME IdsAssumption == Ids \subseteq Nat /\ MaxLines \in Nat /\ NoLink \notin Nat

(* A file: the identifier of each line.  The address of a line is its place. *)
File == UNION {[1..n -> Ids] : n \in 0..MaxLines}

Host(file, i) == [id |-> file[i], addr |-> i]

-----------------------------------------------------------------------------
(* Fault: only the greatest identifier is looked at.                        *)
AcceptsByMax(file) ==
    /\ Len(file) >= 2
    /\ \A i \in DOMAIN file : file[i] <= Len(file)
    /\ \E i \in DOMAIN file : file[i] = Len(file)

(* hosts: at least two lines, the least identifier is 1 and the greatest    *)
(* the number of lines.                                                     *)
Accepts(file) ==
    /\ Len(file) >= 2
    /\ \A i \in DOMAIN file : file[i] \in 1..Len(file)
    /\ {1, Len(file)} \subseteq Range(file)

(* Fault: the hosts stay in the order of the file.                          *)
SortedByLine(file) == {[i \in DOMAIN file |-> Host(file, i)]}

(* std::sort by identifier.  The order of equal ones is not specified.      *)
Sorted(file) ==
    {hosts \in {[i \in DOMAIN file |-> Host(file, f[i])] : f \in Bijection(DOMAIN file, DOMAIN file)} :
        \A i, j \in DOMAIN file : i < j => hosts[i].id <= hosts[j].id}

(* main: a link to every host but this process, with nothing in its place.  *)
(* The link is named by the address its sender sends to.                    *)
links(hosts, my_id) ==
    [i \in DOMAIN hosts |-> IF hosts[i].id = my_id THEN NoLink ELSE hosts[i].addr]

(* The address this process listens at.                                     *)
this_process(hosts, my_id) == hosts[my_id].addr

-----------------------------------------------------------------------------
Distinct(file) == \A i, j \in DOMAIN file : file[i] = file[j] => i = j

(* Each process listens at the address of its line, the link at place id    *)
(* sends to the line of id, and only at the own place there is none.        *)
InPlace(file) ==
    /\ Range(file) \subseteq DOMAIN file
    /\ \A hosts \in Sorted(file) : \A i, j \in DOMAIN file :
        /\ this_process(hosts, file[i]) = i
        /\ links(hosts, file[i])[file[j]] = IF i = j THEN NoLink ELSE j

(* The link of a process is the one at its place, for every file whose      *)
(* lines name different processes, in any order, and that the parser        *)
(* accepts.  README.md:100, the identifiers are 1...n, is what the rest of  *)
(* the code asks of the file, and hosts checks only the ends of it.         *)
LinksByIndex == \A file \in File : Accepts(file) /\ Distinct(file) => InPlace(file)

=============================================================================
