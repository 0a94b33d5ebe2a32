---------------------------- MODULE SecurityScan ----------------------------
(***************************************************************************)
(* The security assessment: `npm run security:scan` runs the four scanners *)
(* one after the other and writes the report, `security:snapshot` freezes  *)
(* the dump of the last scan as "before" or "after", `security:summary`    *)
(* compares the two.  They meet in the files of security/reports, which    *)
(* outlive a run, and between two runs the project changes.                *)
(*                                                                         *)
(* npm audit and Semgrep answer on their standard output, Dependency-Check *)
(* and ZAP in a file that the container writes and the tool reads when the *)
(* container has ended, whatever its exit code.  A run may stop between    *)
(* any two steps.  Scans are numbered, where the code stamps a time.       *)
(*                                                                         *)
(* A flaw of the project is an advisory on a package, a rule matched at a  *)
(* place, or an alert of the running application.  A rule is the sequence  *)
(* of the words of its id.  Severities are numbers, the most severe first  *)
(* (0 is critical, 4 informational).                                       *)
(***************************************************************************)
EXTENDS Naturals, Sequences, SequencesExt, FiniteSetsExt, TLC

CONSTANTS
  NpmSeverity,     \* NpmSeverity[c]: what the npm registry says of advisory c
  NvdSeverity,     \* NvdSeverity[c]: what the NVD says of it
  NpmNames,        \* the advisories that npm's report names by their CVE
  NvdNames,        \* those that the report of Dependency-Check does
  Flaws,           \* the flaws the project may have
  Enabled,         \* the scanners that security.config.json enables
  ZapMode,         \* its zap.mode: "auto", "baseline" or "api"
  Selections,      \* what --only may name: sets of scanners, all when empty
  MaxScans,        \* bound: the scans started
  MaxChanges,      \* bound: the flaws that appear or go
  MaxHostChanges,  \* bound: changes of the machine (Docker, Semgrep, the application)
  MaxFaults,       \* bound: scanners, files and fetches that fail
  MaxCrashes       \* bound: scans that are killed

Npm == "npm audit"
Semgrep == "Semgrep"
DependencyCheck == "OWASP Dependency-Check"
Zap == "OWASP ZAP"
Tools == {Npm, Semgrep, DependencyCheck, Zap}

(***************************************************************************)
(* The scanners' reports.                                                  *)
(***************************************************************************)

AdvisoriesOf(flaws) == {f \in flaws : f.kind = "advisory"}
PackagesOf(flaws) == {f.package : f \in AdvisoriesOf(flaws)}

\* A dependency is one vulnerability per package and set of CVEs, or per package.
DependencyDedupeKey(package, cves) == <<"dependency", package, cves>>

\* One finding per package, whatever the number of its advisories. A name that is
\* no CVE is left out.
ParseNpmAudit(flaws) ==
  {LET advisories == {f.name : f \in {a \in AdvisoriesOf(flaws) : a.package = p}}
       cves == advisories \cap NpmNames IN
   [tools |-> {Npm}, category |-> "dependency",
    severity |-> Min({NpmSeverity[a] : a \in advisories}),
    confidence |-> "confirmed", cve |-> cves, subject |-> p, location |-> p,
    dedupeKey |-> DependencyDedupeKey(p, cves)] : p \in PackagesOf(flaws)}

\* One finding per vulnerability of a dependency, with the CVE it is named by.
ParseDependencyCheck(flaws) ==
  {LET cves == {f.name} \cap NvdNames IN
   [tools |-> {DependencyCheck}, category |-> "dependency", severity |-> NvdSeverity[f.name],
    confidence |-> "confirmed", cve |-> cves, subject |-> f.package, location |-> f.package,
    dedupeKey |-> DependencyDedupeKey(f.package, cves)] : f \in AdvisoriesOf(flaws)}

\* The title of a match: rules of different packs may share it.
ShortRuleName(rule) == Last(rule)

\* One finding per match, a candidate until somebody reads the code.
ParseSemgrep(flaws) ==
  {[tools |-> {Semgrep}, category |-> "sast", severity |-> 2, confidence |-> "potential",
    cve |-> {}, subject |-> ShortRuleName(f.rule), location |-> f.place,
    dedupeKey |-> <<"sast", f.rule, f.place>>] : f \in {m \in flaws : m.kind = "match"}}

\* One finding per alert, by its reference and not its title; the whole
\* application is one site.
ParseZap(flaws) ==
  {[tools |-> {Zap}, category |-> "dast", severity |-> 3, confidence |-> "potential",
    cve |-> {}, subject |-> f.title, location |-> "site",
    dedupeKey |-> <<"dast", f.alert, "site">>] : f \in {a \in flaws : a.kind = "alert"}}

\* What a scanner says of a project that has these flaws.
ReportOf(tool, flaws) ==
  CASE tool = Npm -> ParseNpmAudit(flaws)
    [] tool = Semgrep -> ParseSemgrep(flaws)
    [] tool = DependencyCheck -> ParseDependencyCheck(flaws)
    [] tool = Zap -> ParseZap(flaws)

(***************************************************************************)
(* The consolidated list.                                                  *)
(***************************************************************************)
IsMoreSevere(a, b) == a < b

\* Mutation: the finding that came first keeps its severity.
MergeIntoFirst(first, second) ==
  [first EXCEPT !.tools = @ \cup second.tools,
                !.cve = @ \cup second.cve,
                !.confidence = IF second.confidence = "confirmed" THEN "confirmed" ELSE @]

MergeFindings(first, second) ==
  [first EXCEPT !.severity = IF IsMoreSevere(second.severity, @) THEN second.severity ELSE @,
                !.tools = @ \cup second.tools,
                !.cve = @ \cup second.cve,
                !.confidence = IF second.confidence = "confirmed" THEN "confirmed" ELSE @]

\* A finding joins the one already held under its key, in that one's place.
AddFinding(list, finding) ==
  IF \E i \in DOMAIN list : list[i].dedupeKey = finding.dedupeKey
    THEN [i \in DOMAIN list |->
            IF list[i].dedupeKey = finding.dedupeKey THEN MergeFindings(list[i], finding)
                                                     ELSE list[i]]
    ELSE Append(list, finding)

Deduplicate(findings) == FoldLeft(AddFinding, <<>>, findings)

\* The most severe first; findings of one severity stay in the order found
\* (the code puts them in that of their titles).
InOrderOfSeverity(list) ==
  FlattenSeq([s \in 1..5 |-> SelectSeq(list, LAMBDA f : f.severity = s - 1)])

\* The list of a run, a finding's number being its place in it.
Consolidate(reports) ==
  InOrderOfSeverity(Deduplicate(FlattenSeq([i \in DOMAIN reports |-> SetToSeq(reports[i])])))

(***************************************************************************)
(* The comparison of two lists.                                            *)
(***************************************************************************)
\* What identifies a finding from one run to the next.
FindingKey(finding) ==
  IF finding.cve # {} THEN <<finding.subject, finding.cve>>
                      ELSE <<finding.category, finding.subject>>

KeysOf(list) == {FindingKey(list[i]) : i \in DOMAIN list}

WithKeyIn(list, keys) == SelectSeq(list, LAMBDA f : FindingKey(f) \in keys)
WithKeyOutside(list, keys) == SelectSeq(list, LAMBDA f : FindingKey(f) \notin keys)

\* The lists compared, by the keys of their findings.
Compare(before, after) ==
  [resolved |-> WithKeyOutside(before, KeysOf(after)),
   remaining |-> WithKeyIn(before, KeysOf(after)),
   introduced |-> WithKeyOutside(after, KeysOf(before))]

-------------------------------------------------------------------------------
\* What an instance must make of the constants.
ScanAssumption ==
  /\ Enabled \subseteq Tools
  /\ Selections \subseteq SUBSET Tools
  /\ {f.name : f \in AdvisoriesOf(Flaws)} \subseteq DOMAIN NpmSeverity \cap DOMAIN NvdSeverity
  /\ ZapMode \in {"auto", "baseline", "api"}
  /\ {MaxScans, MaxChanges, MaxHostChanges, MaxFaults, MaxCrashes} \subseteq Nat

VARIABLES
  flaws,     \* the flaws the project has
  host,      \* [docker, semgrep, app]: what works on the machine
  files,     \* [dc, zap, dump, html, markdown, before, after]: the reports on the disk
  summary,   \* the comparison that security:summary wrote last
  scan,      \* the scan that runs
  left       \* what the bounds leave: [scans, changes, hostChanges, faults, crashes]

vars == <<flaws, host, files, summary, scan, left>>

None == "none"
\* A file that is not there, or that nobody can read.
Nothing == [n |-> 0]
Phases == {"before", "after"}

\* A scanner's answer. `of` is the scan whose execution of the tool it tells.
Ok(findings, of) == [status |-> "ok", findings |-> findings, of |-> of]
NoAnswer(status) == [status |-> status, findings |-> {}, of |-> 0]

Order == <<Npm, Semgrep, DependencyCheck, Zap>>
Position(tool) == CHOOSE i \in DOMAIN Order : Order[i] = tool

\* `only`: what --only names, all when empty. `runner`: how Semgrep will run.
\* `session`: the scan account's session, once it has one. `troubled`: history, the
\* scanners with which something went wrong.
Idle == [at |-> "idle", n |-> 0, only |-> {}, install |-> FALSE, docker |-> FALSE,
         runner |-> None, session |-> None, troubled |-> {},
         results |-> [t \in {} |-> NoAnswer("failed")]]

Init ==
  /\ flaws \in SUBSET Flaws
  /\ host \in [docker : BOOLEAN, semgrep : BOOLEAN, app : BOOLEAN]
  /\ files = [dc |-> Nothing, zap |-> Nothing, dump |-> Nothing, html |-> Nothing,
              markdown |-> Nothing, before |-> Nothing, after |-> Nothing]
  /\ summary = Nothing
  /\ scan = Idle
  /\ left = [scans |-> MaxScans, changes |-> MaxChanges, hostChanges |-> MaxHostChanges,
             faults |-> MaxFaults, crashes |-> MaxCrashes]

Fault == /\ left.faults > 0
         /\ left' = [left EXCEPT !.faults = @ - 1]

(***************************************************************************)
(* The environment.                                                        *)
(***************************************************************************)
\* Somebody fixes a flaw, or a new one appears.
Change ==
  /\ left.changes > 0
  /\ left' = [left EXCEPT !.changes = @ - 1]
  /\ \E f \in Flaws : flaws' = IF f \in flaws THEN flaws \ {f} ELSE flaws \cup {f}
  /\ UNCHANGED <<host, files, summary, scan>>

HostChange ==
  /\ left.hostChanges > 0
  /\ left' = [left EXCEPT !.hostChanges = @ - 1]
  /\ \E what \in {"docker", "semgrep", "app"} : host' = [host EXCEPT ![what] = ~@]
  /\ UNCHANGED <<flaws, files, summary, scan>>

(***************************************************************************)
(* A scan.                                                                 *)
(***************************************************************************)
\* The process ends without a report: an error that nothing catches.
Abort == scan' = Idle

Crash ==
  /\ scan.at # "idle"
  /\ left.crashes > 0
  /\ left' = [left EXCEPT !.crashes = @ - 1]
  /\ Abort
  /\ UNCHANGED <<flaws, host, files, summary>>

\* The command line, and what the machine answers.
Start(only, install) ==
  /\ scan.at = "idle"
  /\ left.scans > 0
  /\ left' = [left EXCEPT !.scans = @ - 1]
  /\ scan' = [Idle EXCEPT !.at = "install", !.n = MaxScans - left.scans + 1, !.only = only,
                          !.install = install, !.docker = host.docker,
                          !.runner = IF host.semgrep THEN "local"
                                     ELSE IF host.docker THEN "docker" ELSE "unavailable"]
  /\ UNCHANGED <<flaws, host, files, summary>>

\* Semgrep is installed with pipx when it was asked for and nothing can run it.
InstallSemgrep ==
  /\ scan.at = "install"
  /\ \/ /\ scan.runner = "unavailable"
        /\ scan.install
        /\ scan' = [scan EXCEPT !.at = "prepare", !.install = FALSE, !.runner = "local"]
        /\ host' = [host EXCEPT !.semgrep = TRUE]
     \/ /\ scan' = [scan EXCEPT !.at = "prepare", !.install = FALSE]
        /\ UNCHANGED host
  /\ UNCHANGED <<flaws, files, summary, left>>

\* The scan account is signed in, or the dynamic scan will have no token
\* (module ScanAccount has the steps).
Prepare ==
  /\ scan.at = "prepare"
  /\ \E session \in {None} \cup IF host.app THEN {"live"} ELSE {} :
       scan' = [scan EXCEPT !.at = Npm, !.session = session]
  /\ UNCHANGED <<flaws, host, files, summary, left>>

IsEnabled(tool) == tool \in Enabled /\ (scan.only = {} \/ tool \in scan.only)

\* Why a scanner that is to run does not start: nothing can run it.
CannotRun(tool) ==
  \/ tool = Semgrep /\ scan.runner = "unavailable"
  \/ tool = DependencyCheck /\ ~scan.docker
  \/ tool = Zap /\ ~(scan.docker /\ host.app)

Starts(tool) == scan.at = tool /\ IsEnabled(tool) /\ ~CannotRun(tool)

\* What the scanner needs is there, still.
Works(tool) ==
  CASE tool = Npm -> TRUE
    [] tool = Semgrep -> IF scan.runner = "local" THEN host.semgrep ELSE host.docker
    [] tool \in {DependencyCheck, Zap} -> host.docker

\* A scanner has answered: the next one, or the report.
NextAt(tool) ==
  CASE tool = Npm -> Semgrep
    [] tool = Semgrep -> DependencyCheck
    [] tool = DependencyCheck -> Zap
    [] tool = Zap -> "dump"

Answered(tool, result) == [scan EXCEPT !.at = NextAt(tool), !.results = (tool :> result) @@ @]

\* The scanner is not to run: its answer says why.
Skip(tool) ==
  /\ scan.at = tool
  /\ ~IsEnabled(tool) \/ CannotRun(tool)
  /\ scan' = Answered(tool, NoAnswer("skipped"))
  /\ UNCHANGED <<flaws, host, files, summary, left>>

\* What a scanner needs has gone, or this is one of the faults.
Trouble(tool) == IF Works(tool) THEN Fault ELSE UNCHANGED left
Troubled(tool, result) == [Answered(tool, result) EXCEPT !.troubled = @ \cup {tool}]

\* The file in which a container leaves its report.
FileOf == (DependencyCheck :> "dc") @@ (Zap :> "zap")
Report(findings) == [of |-> scan.n, findings |-> findings]
Whole(tool) == ReportOf(tool, flaws)

\* It could not be started or it timed out; it may have written its file, or
\* some of it.
Fail(tool) ==
  /\ Starts(tool)
  /\ Trouble(tool)
  /\ scan' = Troubled(tool, NoAnswer("failed"))
  /\ \/ UNCHANGED files
     \/ /\ tool \in DOMAIN FileOf
        /\ Works(tool)
        /\ files' \in {[files EXCEPT ![FileOf[tool]] = f] : f \in {Nothing, Report(Whole(tool))}}
  /\ UNCHANGED <<flaws, host, summary>>

\* npm audit and Semgrep, whose answer is their output. JSON that can be read is
\* an answer whatever it holds: npm's account of its own error has no findings,
\* and Semgrep's errors come with what its other rules matched.
RunLocal(tool) ==
  /\ tool \in {Npm, Semgrep}
  /\ Starts(tool)
  /\ Works(tool)
  /\ \/ /\ scan' = Answered(tool, Ok(Whole(tool), scan.n))
        /\ UNCHANGED left
     \/ /\ Fault
        /\ \E some \in IF tool = Npm THEN {{}} ELSE SUBSET Whole(tool) :
             scan' = Troubled(tool, Ok(some, scan.n))
  /\ UNCHANGED <<flaws, host, files, summary>>

\* The container writes its report, which the tool then reads. Of a container
\* that ends with an error, it reads what there is.
RunDependencyCheck ==
  /\ Starts(DependencyCheck)
  /\ Works(DependencyCheck)
  /\ \/ /\ scan' = Answered(DependencyCheck, Ok(Whole(DependencyCheck), scan.n))
        /\ UNCHANGED left
     \/ /\ Fault
        /\ \E some \in SUBSET Whole(DependencyCheck) :
             scan' = Troubled(DependencyCheck, Ok(some, scan.n))
  /\ files' = [files EXCEPT !.dc = Report(scan'.results[DependencyCheck].findings)]
  /\ UNCHANGED <<flaws, host, summary>>

\* The definition that ZAP is given: none (a crawl), the copy without the
\* endpoints that end the account's session, or the application's own, when
\* there is no session to protect or when the copy could not be made.
Given == CASE ZapMode = "baseline" -> "crawl"
           [] ZapMode # "baseline" /\ scan.session = None -> "whole"
           [] OTHER -> "filtered"

GivenOnAFault == CASE ZapMode = "auto" -> {"crawl", "whole"}
                   [] ZapMode = "api" -> {"whole"}
                   [] OTHER -> {}

\* ZAP sends every request of the definition, those that end the session too;
\* the exclusions among its options hold in a crawl only.
SessionAfter(given) ==
  IF scan.session = "live" /\ given = "whole" THEN "ended" ELSE scan.session

RunZap ==
  /\ Starts(Zap)
  /\ Works(Zap)
  /\ \E given \in {Given} \cup GivenOnAFault :
       /\ IF given = Given THEN UNCHANGED left ELSE Fault
       /\ files' = [files EXCEPT !.zap = Report(Whole(Zap))]
       /\ scan' = [Answered(Zap, Ok(Whole(Zap), scan.n)) EXCEPT !.session = SessionAfter(given)]
  /\ UNCHANGED <<flaws, host, summary>>

\* The container ends without a report.  Its exit code is not looked at: the
\* file that is read is the one on the disk, which an earlier run left.
EndEmpty(tool) ==
  /\ tool \in DOMAIN FileOf
  /\ Starts(tool)
  /\ Trouble(tool)
  /\ LET report == files[FileOf[tool]] IN
       scan' = Troubled(tool, IF report = Nothing THEN NoAnswer("failed")
                                              ELSE Ok(report.findings, report.of))
  /\ UNCHANGED <<flaws, host, files, summary>>

\* The directories of Dependency-Check, the options of ZAP and the report are
\* written where nothing catches an error.
CannotWrite ==
  /\ \/ Starts(DependencyCheck)
     \/ Starts(Zap)
     \/ scan.at \in {"html", "markdown"}
  /\ Fault
  /\ Abort
  /\ UNCHANGED <<flaws, host, files, summary>>

\* What the run found: the list, and the scanners that it declares missing.
Assessment ==
  [n |-> scan.n, only |-> scan.only, troubled |-> scan.troubled, answers |-> scan.results,
   findings |-> Consolidate([i \in DOMAIN Order |-> scan.results[Order[i]].findings]),
   missing |-> {t \in Tools : scan.results[t].status # "ok"}]

\* The dump that snapshots are taken of; an error in writing it is dropped.
WriteDump ==
  /\ scan.at = "dump"
  /\ \/ /\ files' = [files EXCEPT !.dump = Assessment]
        /\ UNCHANGED left
     \/ /\ Fault
        /\ UNCHANGED files
  /\ scan' = [scan EXCEPT !.at = "html"]
  /\ UNCHANGED <<flaws, host, summary>>

WriteHtml ==
  /\ scan.at = "html"
  /\ files' = [files EXCEPT !.html = Assessment]
  /\ scan' = [scan EXCEPT !.at = "markdown"]
  /\ UNCHANGED <<flaws, host, summary, left>>

WriteMarkdown ==
  /\ scan.at = "markdown"
  /\ files' = [files EXCEPT !.markdown = Assessment]
  /\ scan' = Idle
  /\ UNCHANGED <<flaws, host, summary, left>>

ScanStep ==
  \/ InstallSemgrep
  \/ Prepare
  \/ \E tool \in Tools : Skip(tool) \/ Fail(tool) \/ RunLocal(tool) \/ EndEmpty(tool)
  \/ RunDependencyCheck
  \/ RunZap
  \/ CannotWrite
  \/ WriteDump
  \/ WriteHtml
  \/ WriteMarkdown

(***************************************************************************)
(* The short report.                                                       *)
(***************************************************************************)
TakeSnapshot(phase) ==
  /\ files.dump # Nothing
  /\ files' = [files EXCEPT ![phase] = files.dump]
  /\ UNCHANGED <<flaws, host, summary, scan, left>>

WriteSummary ==
  /\ Nothing \notin {files.before, files.after}
  /\ summary' = [before |-> files.before, after |-> files.after,
                 comparison |-> Compare(files.before.findings, files.after.findings)]
  /\ UNCHANGED <<flaws, host, files, scan, left>>

Next ==
  \/ Change
  \/ HostChange
  \/ \E only \in Selections, install \in BOOLEAN : Start(only, install)
  \/ ScanStep
  \/ Crash
  \/ \E phase \in Phases : TakeSnapshot(phase)
  \/ WriteSummary

Spec == Init /\ [][Next]_vars

(***************************************************************************)
(* Properties.                                                             *)
(***************************************************************************)
Places == {"idle", "install", "prepare", "dump", "html", "markdown"} \cup Tools

\* Types of the variables: where a scan is, how far its answers go, and that a
\* report on the disk is of a scan that was started.
TypeOK ==
  /\ flaws \subseteq Flaws
  /\ host \in [docker : BOOLEAN, semgrep : BOOLEAN, app : BOOLEAN]
  /\ scan.at \in Places
  /\ scan.n \in 0..MaxScans
  /\ scan.runner \in {None, "local", "docker", "unavailable"}
  /\ scan.session \in {None, "live", "ended"}
  /\ DOMAIN scan.results = CASE scan.at \in Tools ->
                                  {Order[i] : i \in 1..(Position(scan.at) - 1)}
                             [] scan.at \in {"dump", "html", "markdown"} -> Tools
                             [] OTHER -> {}
  /\ \A name \in {"dump", "html", "markdown", "before", "after"} :
       files[name] # Nothing => files[name].n \in 1..(MaxScans - left.scans)

\* Every answer of a scanner is in the report it went into: a finding has one
\* row, which names the scanner, is no less severe and loses no CVE; a scanner
\* that did not answer is declared missing; and no row comes from nowhere
\* (consolidate.ts and buildLimitations).
EveryAnswerIsInTheReport ==
  files.html # Nothing =>
    \A tool \in Tools :
      LET answer == files.html.answers[tool]
          Rows(f) == {i \in DOMAIN files.html.findings :
                        files.html.findings[i].dedupeKey = f.dedupeKey} IN
      /\ (answer.status = "ok") <=> (tool \notin files.html.missing)
      /\ \A f \in answer.findings :
           /\ Cardinality(Rows(f)) = 1
           /\ \A i \in Rows(f) :
                LET row == files.html.findings[i] IN
                /\ tool \in row.tools
                /\ ~IsMoreSevere(f.severity, row.severity)
                /\ f.cve \subseteq row.cve
      /\ \A i \in DOMAIN files.html.findings :
           tool \in files.html.findings[i].tools =>
             \E f \in answer.findings : f.dedupeKey = files.html.findings[i].dedupeKey

\* What a scanner is reported to have found, it found in that run. What an earlier run
\* found is told again only of a container, and only where it wrote no report of its own.
AnswersAreOfTheRun ==
  files.html # Nothing =>
    \A tool \in Tools :
      LET answer == files.html.answers[tool] IN
      answer.status = "ok" /\ answer.of # files.html.n =>
        /\ tool \in {DependencyCheck, Zap} \cap files.html.troubled
        /\ answer.of < files.html.n

\* A scanner is missing from a report for a cause: it was not to run, the
\* machine lacks what it needs, or something went wrong with it.
NothingIsMissingWithoutACause ==
  files.html # Nothing =>
    \A tool \in files.html.missing :
      \/ tool \notin Enabled
      \/ files.html.only # {} /\ tool \notin files.html.only
      \/ tool \in files.html.troubled
      \/ left.hostChanges < MaxHostChanges
      \/ tool # Npm /\ ~host.docker
      \/ tool = Zap /\ ~host.app

\* The rows of a list that are about what a finding is about.
About(list, f) ==
  {g \in ToSet(list) : g.category = f.category /\ g.subject = f.subject}

\* What the comparison of two runs tells, whatever scanners each of them had and whatever
\* their numbers have become. A finding reported again as it was is still open. One on
\* whose package, rule name or alert nothing is reported any more is resolved, and the
\* first on it is introduced. And of each scanner that had reported what is listed as
\* resolved, the second run has an answer without it, or says that it has none.
ComparisonFollowsTheFlaws ==
  summary # Nothing =>
    LET resolved == ToSet(summary.comparison.resolved)
        remaining == ToSet(summary.comparison.remaining)
        Again(f) == {g \in ToSet(summary.after.findings) : g.dedupeKey = f.dedupeKey} IN
    /\ \A f \in ToSet(summary.before.findings) :
         /\ Again(f) # {} => f \in remaining \ resolved
         /\ About(summary.after.findings, f) = {} => f \in resolved \ remaining
    /\ \A g \in ToSet(summary.after.findings) :
         About(summary.before.findings, g) = {} => g \in ToSet(summary.comparison.introduced)
    /\ \A f \in resolved : \A tool \in f.tools :
         \/ tool \in summary.after.missing
         \/ \A g \in summary.after.answers[tool].findings : g.dedupeKey # f.dedupeKey

\* All that a reader of the reports may rely on.
ReportsHold ==
  /\ TypeOK
  /\ EveryAnswerIsInTheReport
  /\ AnswersAreOfTheRun
  /\ NothingIsMissingWithoutACause
  /\ ComparisonFollowsTheFlaws
=============================================================================
