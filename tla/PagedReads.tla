------------------------------ MODULE PagedReads ------------------------------
(***************************************************************************)
(* Reads of AWS that come in pages (pkg/mcp/cloudwatch*.go, ecs.go, ecr.go, *)
(* aws.go) and descriptions that are asked for in batches (ecs.go). Every   *)
(* read has a loop of its own, which stops at a limit, at a number of       *)
(* pages, at the last page or after the first. AWS may send an empty page   *)
(* and still have more, and a request for a page may fail.                  *)
(*                                                                         *)
(* Calls share nothing, so one at a time is enough. What is read is given   *)
(* by how much AWS has sent at the end of each page; its items are numbered *)
(* in the order AWS sends them. AWS is external.                            *)
(***************************************************************************)
EXTENDS Integers, SequencesExt

CONSTANTS
  Repositories,  \* what AWS may have: the ends of the pages, for each repository
  Limits,        \* the limits calls ask for, also zero and negative ones
  PageCap,       \* ecsListPageCap
  Names,         \* what may be asked to be described
  Batch          \* ecsDescribeServicesBatch, ecsDescribeTasksBatch

IsPages(ends) ==
  /\ ends \in Seq(Nat) /\ ends # <<>>
  /\ \A i, j \in DOMAIN ends : i <= j => ends[i] <= ends[j]

ConstantsOK ==
  /\ \A s \in Repositories : s \in Seq(Seq(Nat)) /\ s # <<>> /\ \A r \in DOMAIN s : IsPages(s[r])
  /\ Limits \subseteq Int
  /\ {PageCap, Batch} \subseteq Nat \ {0}

VARIABLE read  \* the call, with what AWS has of what it reads

vars == read

-----------------------------------------------------------------------------
(* The loops. "until" is where a read stops; one with a limit cuts each page  *)
(* to what it still wants, or all of it at the end; "told" is whether the     *)
(* answer says that there may be more.                                        *)

Loop(until, cut, told) == [until |-> until, cut |-> cut, told |-> told]

listLogGroups        == Loop("limit", "page", FALSE)
listMetrics          == Loop("limit", "page", FALSE)
describeAlarms       == Loop("limit", "page", FALSE)
describeAlarmHistory == Loop("limit", "page", FALSE)
ListTasks            == Loop("limit", "end", TRUE)
ListClusters         == Loop("cap", "never", TRUE)
ListServices         == Loop("cap", "never", TRUE)
getMetricData        == Loop("end", "never", FALSE)
listAllRepositories  == Loop("end", "never", FALSE)
scanRepository       == Loop("end", "never", FALSE)
getLogEvents         == Loop("first", "never", FALSE)
getScanFindings      == Loop("first", "never", FALSE)
IAMListRoles         == Loop("first", "never", FALSE)
IAMGetRole           == Loop("first", "never", FALSE)
EC2Describe          == Loop("first", "never", FALSE)
Route53List          == Loop("first", "never", FALSE)

Reads == [
  log_groups |-> listLogGroups, metrics |-> listMetrics, alarms |-> describeAlarms,
  alarm_history |-> describeAlarmHistory, tasks |-> ListTasks, clusters |-> ListClusters,
  services |-> ListServices, metric_data |-> getMetricData,
  repositories |-> listAllRepositories, images |-> scanRepository,
  log_events |-> getLogEvents, findings |-> getScanFindings, roles |-> IAMListRoles,
  policies |-> IAMGetRole, network |-> EC2Describe, dns |-> Route53List]

(* A limit that is not positive counts as not given, but for log groups.      *)
PositiveOnly == DOMAIN Reads \ {"log_groups"}

-----------------------------------------------------------------------------
Before(ends, page) == IF page = 1 THEN 0 ELSE ends[page - 1]
Items(ends, page) ==
  [i \in 1..(ends[page] - Before(ends, page)) |-> Before(ends, page) + i]
AllItems(ends) == [i \in 1..ends[Len(ends)] |-> i]

Init == read = [at |-> "idle"]

(* Of the reads only that of images goes through several repositories.        *)
List(op, limit, source) ==
  /\ read.at = "idle"
  /\ Len(source) > 1 => op = "images"
  /\ op \in PositiveOnly => limit > 0
  /\ read' = [at |-> "list", op |-> op, limit |-> limit, source |-> source, page |-> 0,
              found |-> <<>>, results |-> <<>>, failed |-> {}]

Repository == Len(read.results) + 1
Pages == read.source[Repository]
HasMorePages == read.page < Len(Pages)

Goes ==
  CASE Reads[read.op].until = "limit" -> HasMorePages /\ Len(read.found) < read.limit
    [] Reads[read.op].until = "cap" -> HasMorePages /\ read.page < PageCap
    [] Reads[read.op].until = "end" -> HasMorePages
    [] Reads[read.op].until = "first" -> read.page = 0

Cut(when, found) ==
  IF Reads[read.op].cut = when /\ read.limit < Len(found)
  THEN SubSeq(found, 1, read.limit) ELSE found

NextPage ==
  /\ read.at = "list" /\ Goes
  /\ read' = [read EXCEPT !.page = read.page + 1,
                !.found = Cut("page", read.found \o Items(Pages, read.page + 1))]

EndOf(results, failed, ok, truncated) ==
  read' = [at |-> "done", op |-> read.op, limit |-> read.limit, source |-> read.source,
           results |-> results, failed |-> failed, ok |-> ok, truncated |-> truncated]

(* After a repository comes the next one, whether it failed or not.           *)
NextRepository(results, failed) ==
  IF Repository < Len(read.source)
  THEN read' = [read EXCEPT !.page = 0, !.found = <<>>, !.results = results, !.failed = failed]
  ELSE EndOf(results, failed, TRUE, FALSE)

(* What was found of a repository before its failure is dropped. Any other    *)
(* read fails with the page.                                                  *)
PageFails ==
  /\ read.at = "list" /\ Goes
  /\ IF read.op = "images"
     THEN NextRepository(Append(read.results, <<>>), read.failed \cup {Repository})
     ELSE EndOf(<<>>, {Repository}, FALSE, FALSE)

(* Mutation: only what is cut off counts, not the pages that were not asked for. *)
CutOff == Reads[read.op].told /\ Cut("end", read.found) # read.found

Truncated == Reads[read.op].told /\ (HasMorePages \/ Cut("end", read.found) # read.found)

EndList ==
  /\ read.at = "list" /\ ~Goes
  /\ LET results == Append(read.results, Cut("end", read.found)) IN
     IF read.op = "images" THEN NextRepository(results, read.failed)
     ELSE EndOf(results, {}, TRUE, Truncated)

-----------------------------------------------------------------------------
(* Describing. What comes back counts, not its order.                         *)

chunkStrings(items, size) ==
  [b \in 1..((Len(items) + size - 1) \div size) |->
     SubSeq(items, (b - 1) * size + 1, Min({b * size, Len(items)}))]

Times(n, seq) == Cardinality({i \in DOMAIN seq : seq[i] = n})

Describe(names) ==
  /\ read.at = "idle"
  /\ read' = [at |-> "describe", names |-> names, batches |-> chunkStrings(names, Batch),
              asked |-> 0, described |-> [n \in Names |-> 0],
              failures |-> [n \in Names |-> 0]]

(* AWS describes what it knows of a batch and names the rest.                 *)
NextBatch(known) ==
  /\ read.at = "describe" /\ read.asked < Len(read.batches)
  /\ LET batch == read.batches[read.asked + 1] IN
     read' = [read EXCEPT !.asked = read.asked + 1,
                !.described = [n \in Names |-> read.described[n] +
                                 IF n \in known THEN Times(n, batch) ELSE 0],
                !.failures = [n \in Names |-> read.failures[n] +
                                IF n \in known THEN 0 ELSE Times(n, batch)]]

(* The request fails, and with it the call. *)
BatchFails ==
  /\ read.at = "describe" /\ read.asked < Len(read.batches)
  /\ read' = [at |-> "failed"]

EndDescribe ==
  /\ read.at = "describe" /\ read.asked = Len(read.batches)
  /\ read' = [read EXCEPT !.at = "described"]

-----------------------------------------------------------------------------
NameLists == UNION {[1..n -> Names] : n \in 1..(2 * Batch + 1)}

Next ==
  \/ \E op \in DOMAIN Reads, limit \in Limits, source \in Repositories : List(op, limit, source)
  \/ NextPage \/ PageFails \/ EndList
  \/ \E names \in NameLists : Describe(names)
  \/ \E known \in SUBSET Names : NextBatch(known)
  \/ BatchFails \/ EndDescribe

Spec == Init /\ [][Next]_vars

-----------------------------------------------------------------------------
TypeOK ==
  /\ read.at \in {"idle", "list", "done", "describe", "described", "failed"}
  /\ read.at = "list" => Repository \in DOMAIN read.source /\ read.page \in 0..Len(Pages)

(* A list that is given is the beginning of what AWS has, in its order and    *)
(* with nothing left out in between; it is all there is, as many as the limit *)
(* allows, or marked as truncated. Of a repository that failed nothing is     *)
(* given, of every other one everything (cloudwatch.go:1097, ecs.go:541,      *)
(* 637-647, cloudwatch_metrics.go:1193, ecr.go:153-160). A read of the first  *)
(* page alone makes no such promise.                                          *)
Complete(op, given, all) ==
  \/ given = all
  \/ Reads[op].until = "first"
  \/ Reads[op].until = "limit" /\ Len(given) >= read.limit
  \/ read.truncated

ListsAreTold ==
  read.at = "done" /\ read.ok =>
    \A r \in DOMAIN read.results :
      LET given == read.results[r] IN
      IF r \in read.failed THEN given = <<>>
      ELSE /\ IsPrefix(given, AllItems(read.source[r]))
           /\ Complete(read.op, given, AllItems(read.source[r]))
           /\ Reads[read.op].until = "limit" => given = <<>> \/ Len(given) <= read.limit
           /\ Reads[read.op].told /\ given # AllItems(read.source[r]) => read.truncated

(* Whatever is asked to be described is asked for once, in batches AWS takes, *)
(* and comes back described or as a failure (ecs.go:494-501, 738-756,         *)
(* 853-871).                                                                  *)
BatchesCover ==
  /\ read.at \in {"describe", "described"} =>
       \A b \in DOMAIN read.batches : Len(read.batches[b]) \in 1..Batch
  /\ read.at = "described" =>
       \A n \in Names :
         Times(n, read.names) = read.described[n] + read.failures[n]
=============================================================================
