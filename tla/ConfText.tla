------------------------------ MODULE ConfText ------------------------------
(***************************************************************************)
(* The edits that the host tools of rmote make to configuration files, as  *)
(* operators on sequences of lines: FileSystem.line_in_file, the entries   *)
(* of /etc/hosts, the sections of /etc/pacman.conf, the keys of a sysctl   *)
(* file and the keys of authorized_keys.                                   *)
(***************************************************************************)
EXTENDS Integers, FiniteSets, SequencesExt

-----------------------------------------------------------------------------
(* FileSystem.line_in_file                                                  *)

\* The first line that the regexp matches, or each of them, becomes line; without a match, line is
\* appended unless a line is the same up to the white space around it.
LineInFile(lines, line, regexp, all, same) ==
    LET hits == {i \in DOMAIN lines : lines[i] \in regexp}
    IN  CASE hits # {} ->
                 [i \in DOMAIN lines |-> IF i \in hits /\ (all \/ \A h \in hits : i <= h) THEN line ELSE lines[i]]
          [] hits = {} /\ (\E i \in DOMAIN lines : lines[i] \in same) -> lines
          [] OTHER -> Append(lines, line)

-----------------------------------------------------------------------------
(* Lines that are a key and a value: /etc/hosts and sysctl.d                *)

\* Hostname.hosts_entry: the first line of the address is replaced in place.
HostsEntry(lines, ip, names) ==
    LET hits == {i \in DOMAIN lines : lines[i][1] = ip}
    IN  IF hits = {} THEN Append(lines, <<ip, names>>)
        ELSE [lines EXCEPT ![CHOOSE i \in hits : \A h \in hits : i <= h] = <<ip, names>>]

\* Sysctl: comments are not read, and the last line of a key counts.
ReadConf(lines) ==
    LET keys == {lines[i][1] : i \in DOMAIN lines} \ {"#"}
    IN  [k \in keys |-> LET hits == {i \in DOMAIN lines : lines[i][1] = k}
                        IN  lines[CHOOSE i \in hits : \A h \in hits : h <= i][2]]

\* The whole file is written again, one line for each key.
WriteConf(conf) == LET keys == SetToSeq(DOMAIN conf) IN [i \in DOMAIN keys |-> <<keys[i], conf[keys[i]]>>]

-----------------------------------------------------------------------------
(* The sections of /etc/pacman.conf                                         *)

\* Indices of the lines that open a section
Headers(lines, headers) == {i \in DOMAIN lines : lines[i] \in headers}

\* The last line before the next header
SectionEnd(lines, headers, start) ==
    LET later == {i \in Headers(lines, headers) : i > start}
    IN  IF later = {} THEN Len(lines) ELSE (CHOOSE i \in later : \A h \in later : i <= h) - 1

SectionStarts(lines, header) == {i \in DOMAIN lines : lines[i] = header}

\* _section_bounds: of the first section with this name
SectionStart(lines, header) == CHOOSE i \in SectionStarts(lines, header) : \A h \in SectionStarts(lines, header) : i <= h

Section(lines, headers, header) ==
    LET start == SectionStart(lines, header) IN SubSeq(lines, start, SectionEnd(lines, headers, start))

\* The file with what stands between the bounds replaced
Splice(lines, headers, header, section) ==
    LET start == SectionStart(lines, header)
    IN  SubSeq(lines, 1, start - 1) \o section \o SubSeq(lines, SectionEnd(lines, headers, start) + 1, Len(lines))

\* Without the blank lines at its end
Stripped(lines) ==
    LET text == {i \in DOMAIN lines : lines[i] # ""}
    IN  IF text = {} THEN <<>> ELSE SubSeq(lines, 1, CHOOSE i \in text : \A h \in text : h <= i)

\* PacmanRepository.present
SectionPresent(lines, headers, section) ==
    IF SectionStarts(lines, section[1]) # {} THEN Splice(lines, headers, section[1], section)
    ELSE (IF Stripped(lines) = <<>> THEN <<"", "">> ELSE Append(Stripped(lines), "")) \o section

\* re.sub("\n{3,}", "\n\n"): of several blank lines in a row, one is left, or two at the top.
Collapsed(lines) ==
    LET kept == SelectSeq([i \in DOMAIN lines |-> i], LAMBDA i : ~(i >= 3 /\ lines[i] = "" /\ lines[i - 1] = ""))
    IN  [i \in DOMAIN kept |-> lines[kept[i]]]

\* PacmanRepository.absent
SectionAbsent(lines, headers, header) ==
    IF SectionStarts(lines, header) = {} THEN lines ELSE Collapsed(Splice(lines, headers, header, <<>>))
=============================================================================
