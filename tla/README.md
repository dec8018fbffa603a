# Citable in TLA+

This is a TLA+ development of Citable, a command line program that audits
websites and keeps evidence of what it saw.  It models the parts of the program
in which something can go wrong between two steps - the collection of a site,
the sealing of its evidence, the comparison of two audits, registries that
several commands change, a child process that is spoken to, an installer that
replaces directories, and what it does with services, browsers, content systems and people -
and the detectors as operators over a site.  TLC checks the modules on small instances;
TLAPS proves nearly every safety property that is checked, for every value of the constants,
and that the run package implements its abstract specification.

Paths below, and in the comments of the modules, are relative to the repository;
line numbers are those of the commit the modules were written from.

## 1. The system

Citable is a Node program without a server.  Every command is a process; inside
it there is one thread, with interleaving at each `await`.  Between commands only
files remain.  Most of the source is some 180 detectors and the reports built on
them: functions from an extracted site to findings.  What has state is this.

| Component | State | Operations | Interacts with |
|---|---|---|---|
| URL collection, `src/extractor/site.js`, `src/crawler/` | frontier `queue`/`seen`, stop reason, two budgets, one fetch in flight | `buildSiteFromUrl`, `collectSitemaps`, `fetchUrl` | the ledger it reports to; the audited server |
| Coverage ledger, `src/evidence/coverage.js` | per resource: discovered, attempted, retrieved, valid, evaluated, failed, indeterminate | `discover` ... `evaluate`, `preview`, `finalize` | the audit, which previews it, runs detectors, then finalizes |
| Determinations, `src/conditions/` | per condition and subject: PASS, FAIL, INDETERMINATE, ERROR, ... | `evaluateDeterminations`, `detectCollectorFailure` | read the preview of coverage |
| Run packages, `src/evidence/run.js`, `src/shared/` | a directory, its staging copy, its displaced original, a manifest of hashes | `createRun`, `writeArtifact`, `finalize`; `verifyRunPackage`, `loadVerifiedRun` | every command that reads runs |
| Comparison, `src/commands/compareSnapshots.js` | none of its own | `compareSnapshots` | two loaded runs |
| Registries, `src/registries/index.js` | `.citable/*.yaml`, a history folder | `loadRegistries`, `saveRegistry` | every command that changes one |
| Exceptions and governance, `src/commands/exceptions.js`, `governance.js` | `exceptions.yaml` with audit histories | renew, invalidate, evaluate | registries; reviewers and policy |
| MCP transport, `src/connectors/mcp/stdio.js` | `pending` map, timers, child, totals | `sendRequest`, `_handleLine`, `close` | a child process |
| Installer, `src/installer/index.js` | two managed directories per target, backups | install, update, uninstall | the user, who edits the same files |
| Site audit, `src/extractor/`, `src/detectors/`, `src/conditions/` | pages read so far | read a page, ask every detector | collection, coverage, the owner's changes |
| Findings index, `src/evidence/findingIdentity.js` | counts and dates per finding | `reconcileFindingIdentities` | overlapping audits |
| Remediation, `src/commands/applyRemediation.js`, `remediate.js`, `verifyRemediation.js` | source files, evidence of repairs | apply with rollback, patch, verify | the working tree and its owner |
| Reviews, `src/commands/reviews.js` | review items, decisions | queue, prioritize, plan, sample, evaluate | registries; reviewers |
| Outreach, `products/outreach/` | suppression list, reservations, circuit breaker, links | reserve, authorize, send, verify | a library, used by agents |
| Connectors, `src/connectors/`, `src/commands/connect.js` | connections registry, datasets | configure, sync, apply, IndexNow | providers and content systems that others change |
| Observations, `src/commands/observe.js`, `src/observations/` | observation runs | sixteen modes of `observe` | browsers, engines, logs |
| Browser journeys, `src/observations/browser*` | three collectors of one capture | steps, checkpoints, drains | a page that acts by itself |
| Monitoring, `src/commands/monitor.js`, `src/monitoring/` | last comparison, receipts | compare, filter, deliver | observation runs; a webhook |
| Retrieval and sitemaps, `src/crawler/` | one retrieval; frontier and records of a topology | `fetchUrl`, `parseSitemap`, `collectSitemapTopology` | the audited server |
| MCP client, `src/connectors/mcp/client.js`, `http.js` | handshake state | `initialize`, `listTools`, `callTool`, `close` | its callers; a server |
| Collection budgets, `src/authorize/` | counters per project, query, provider | authorize, record usage | collectors |

`PROJECT.json` lists these and every other part, with what is modelled of each.

**What is hard here.**

- *Crashes and failures inside a sequence of file operations.*  Sealing a run is
  a copy, two writes, an fsync, two renames, a removal and another fsync, with a
  catch block that must know how far it came.  The installer has the same shape
  twice over.
- *No locks.*  Two commands may load one registry, one index or one budget and both
  write what they made of it, or write one file in place at one time and tear it.
- *Failures while failures are handled.*  A rollback stops at the first file it cannot
  restore; a run that could not record its coverage is sealed as failed with what is there.
- *Defaults that hide.*  A title that falls back to another, a version the server left out,
  a name in lower case that meets a key with a capital: two things look alike, or one
  thing like two.
- *Others act between a look and a deed.*  An editor changes the page between the hash
  check and the write; a page in a browser replaces the queue that is being drained.
- *Answers are lost.*  A POST may arrive and its answer not; a batch may be delivered
  and the next one refused.
- *Readers beside writers.*  A package is verified by path, file by file, while
  the directory may be replaced.
- *Two clocks.*  Collection has a page budget and a time budget, looked at in
  different places; requests have timers that race with answers.
- *Conclusions from absence.*  "Resolved" is a claim about something not seen, and
  must rest on having looked.  What was looked at is known only at the end, and
  detectors run before it.

**What makes each part correct.**

- Collection: each resource has one fate; the counts reconcile; complete means
  discovery was closed; the ledger never refuses a step; the collection ends.
- Comparison: failures of the collector are not failures of the site; resolved
  means reobserved and absent; what did not change is reported as such.
- Run packages: what was sealed is whole, durable and not lost by anything that
  happens later; an answer of the verifier is what was sealed.
- Registries: no reported change is lost; each version agrees with its own audit
  history; a revoked exception does not come back into force.
- Transport: every request settles once; after close nothing waits and no child
  is left running.
- Installer: no directory mixes releases; user work is never lost; a rollback
  restores.
- Detectors: what is reported of what was read stays true when more is read; a crawl
  and a build of one site are judged alike.
- Workspace: the index is the history of the runs; a plan reported as rolled back is undone; "repaired"
  means observed without the finding; a decision is about what it was made on.
- Outside: nobody is contacted twice; "complete" collections and topologies miss
  nothing; receipts are true; a regression reaches the webhook or the receipt says it
  did not; a limit is not passed by more than what overlaps.

## 2. Modules

Each component has a module.  Those that share nothing but files are composed by
`Workspace` and `Outside`.  What is run by itself has its constants in its `.cfg`, or in an
`MC` module where they are more than names and numbers.  Theorems are in modules named
`_proofs`.  An action models a whole callback, command
or file operation of the code; where the source is interrupted by an `await`, or
another process can see the state in between, it is split there and nowhere else.
Definitions named `X_Something` next to `X` are faulty variants of `X`; nothing
uses them but the experiments of section 3.

### UrlCrawl: collection and coverage

`pc` follows `buildSiteFromUrl`: robots.txt, sitemaps, seeding of the frontier, the page loop,
closing; then the audit's preview and its sealing of coverage. `queue`, `seen` and `stopReason`
are the variables of the function; `discovered`, `attempted`, `retrieved`, `valid`, `evaluated`,
`failed` and `indeterminate` are the fields of the ledger's resources, each as the set of
resources that have it, and `StateOf` is `resourceState`.  `CanAttempt`, `CanRetrieve`, `CanFail`
and `CanEvaluate` are what the ledger demands before each transition.  They guard the steps that
ask for one, and `LedgerAccepts` says that they hold whenever the program comes to such a step;
the one transition it really refuses, the failure of a resource that was retrieved, is the second
branch of `Caught`, in which the whole collection is rejected.  A fetch is `head` then `body`:
`fetchUrl` aborts on its timer until the headers are there.  `Expire` is the clock passing the
time budget, at any moment; `ReadClock` is each place that looks at it.

Abstracted: a URL is its normal form; a sitemap document is the set of URLs it
lists, read in full, in part or not at all; the content of a page is its set of
links, whether it is text/html, XHTML or another document, and whether it is judged
valid.  Attempts inside `fetchUrl` are one request here (`Retrieval` has them), and a
sitemap topology is one step per document (`SitemapTopology` has its bounds).  The order
of links on a page is any order.

### AuditComparison: determinations and comparison (composed with SiteAudit by Audits)

One audit is `BuildContext` (what became of each page, and the preview of coverage,
in which nothing is evaluated yet), `RunDetectors` (which conditions are checked,
throw, do not apply or are not tested; what they hit; and the determinations and
findings `evaluateDeterminations` makes of it), `FinalizeCoverage`.  Two audits are
followed by `Compare`, which is `compareSnapshots` as a function of two runs:
comparability, matching of findings in listed order, states, new findings,
regressions.  Between the audits everything may change.  Pages have seven outcomes,
those the code can tell apart.  `Within` is containment of one URL in another:
`detectCollectorFailure` looks for a URL in the text of an error.

### EvidenceRun and RunArchive: run packages

A directory is an inode (`orig`, or `stage`, the copy `finalize` builds), and
`names` is what the runs folder calls `dir`, `sealing` and `partial`.
The writer's `wpc` follows `finalize` statement by statement: copy, manifest,
checksums, fsync, the two renames, removal, fsync of the folder, and the catch block.
`writeArtifact` is four steps: truncate, fill, read back for the hash, count.
Every write has a middle in which a fault leaves a torn file.  Faults: a call fails
(before the swap, in the try block, in the catch block), the process is killed, and,
once, the power goes.  A failing call of `writeArtifact` ends the command, but for
`coverage.json`: the audit catches that (`audit.js:60-72`, `93-109`) and seals the run as
failed, with no file, a torn or overwritten one, or one that is not counted (`FailCoverage`,
`Recorded`).  `journal` is the set of folders a power loss may leave: those
since the last fsync of it.  Readers take one action per file they open, strict or
legacy, by path.

`RunArchive` is what the component promises: contents are recorded, sealed once,
acknowledged, and after that the only verified answer is what was sealed.  What is sealed is
what was recorded, but for the coverage of a run that is sealed as failed before it has
findings (`Sealable`); a strict reader answers only of runs sealed as completed.  Sealing
may be undone only by a power loss before it was acknowledged.  `EvidenceRun`
instantiates it with a refinement mapping.

### ExceptionRegistry: exceptions.yaml

`file` and `history` are the file and its earlier versions; each command has a `pc`
and the whole registry it holds in memory.  `Renew` and `Invalidate` load and compute
the candidate with all their checks; `Save` is `saveRegistry` in its steps - record the
previous content, truncate, write - each of which can be the last before a crash.
`Evaluate` is `governance evaluate`.  `Deactivate` and `EditPolicy` are edits of the
two other files by a person.  A command that is refused changes nothing and is an
action that is not enabled.  A renewal with `--evidence` stores the hash of the
evidence *id* (`exceptions.js:146`), so that evidence binds nothing and the exception
is not in force; the module has this (`Renewed`, `InForce`).

### McpStdio: the transport

`req` is each request's promise; `pending`, `armed`, `total`, `attached` and `closed`
are the fields of `McpStdioTransport`.  One action per callback: `Send`, `Resume`
(after `await start()`), `OnLine`, `OnExit`, `OnSpawnError`, `WriteDone`,
`WriteFailed`, `Timeout`, `Close`, `Kill`.  The child (`Say`, `End`) is external: it
answers anything at any time, repeats itself, writes noise, or dies with or without
an exit code.  An exit with code 0 rejects nothing: what waits is left to its timers,
which the module keeps.

### Installer: install, update, uninstall

`dir` and `backup` are, for the skill and the profiles, the directory and the backup of
the running command; `kept` are backups of earlier commands, which nothing removes.
`State` is `inspectInstallation`, `Planned` is `plannedAction`.  A command is
`Begin`, then for each directory `Stage`, `Backup`, `Swap`, `Check`; `Fail`, `Wipe` and
`Restore` are the catch blocks; `BeginUninstall`, `Unlink`, `Unmark` and `RemoveEmpty`
are `uninstallTarget`.  Any call may fail and the process may be killed anywhere;
a removal may be half done.  The user edits when no command runs, and between the
inspection of a directory and its replacement.

Abstracted: one target, one command at a time; stages, which are beside the directories
and read by no command; a file is whose content it has.

### SitePages, DetTech, DetContent, DetAnswers, DetSchema, DetAgent, DetCro: the detectors

`SitePages` has the context a detector is called with and the helpers of
`src/detectors/framework.js`; the other six have one operator per detector, named by its
id, from a context to the set of subjects its check reports.  A page is a record of
numbers, sequences and the set of facts (`has`) that a selector or an expression looks
for: whether an image lacks its text is a fact, how long a heading chain is a sequence.
180 detectors are modelled.  Those that can never fire in the code - they ask for
a field no context has - are left out and named in section 7.

### SiteAudit: reading a site

`read` grows page by page as `buildSiteFromUrl` reads it, while one page of the site may
change; or the whole build directory is read at once.  In every state every detector is
evaluated for what has been read, and its hits become findings as in
`src/conditions/determinationEngine.js`, on the preview of coverage while the crawl is under way.
A hit is suppressed where the retrieval of its subject failed: where the page says so, or
where an error of the collection names the subject (`errors`, `PartOf`).  As a URL is found
inside a longer one, an error of any page names the home page and the site, and takes back
what was found there.  A site
has an answer at each of its URLs and a change leaves a page a page (`SitesAreWhole`, `IsPage`).

### Workspace: FindingIndex, Remediation, ReviewQueue

What commands keep beside their runs.  `FindingIndex` is `audit` over `findings-index.json` and
the page snapshot, with overlapping, failing and killed audits.  Both files are opened, which
empties them, and written in place; two audits that replace the snapshot at one time may leave an
overlay of the two, which is neither's (`OpenSnapshot`, `crossed`).  `Remediation` is `apply
--write`, `remediate --write` and `verify remediation`: each file write is a step, may fail or be
the last, and so is each restore of a rollback (`ApplyUndo`), which stops for good at the first
that fails (`ApplyStrand`); the owner edits and builds in between (`touched`); a text is which
defects a detector would find in it and how often it was edited.  `ReviewQueue` is the review
registry: a hash is the value that is hashed. `focus` picks which of the three is in use in a
behaviour; none of their properties relates two of them.

### Outside: the dealings with others

`Outside` composes eight parts in the same way, with its own `focus`.

- `Outreach`: `Draft`, `Reserve`, `Authorize`, `Send`, `RecordContactSent`,
  `ReleaseEngagement` are the calls an agent makes, as the tests of the product make
  them; the breaker, the kill switches, the verdicts on opportunities and the life of an
  acquired link are actions of their own.
- `Connections`: the commands of `connect` on the registry, and a collection page by
  page over four kinds of provider, which may fail, change in between and report totals
  as they like.
- `Publishing`: `connect apply` - read, compare with the reviewed hash, write, read
  again - beside editors and a second operator; what is read is what shows (`AsShown`: an
  empty SEO title reads as the page's title, `webflow.js:260`); `connect indexnow` in batches.
- `Observation` and `Monitoring`: what each mode of `observe` may write into a run, of several
  pages and with exports that have a page in several engines; runs that were cut off, `observe
  render --resume-run`, which may name a run of another page; `monitor`, its alerts and filter,
  and the webhook with its receipt.  A value of an observation is the least the comparison tells
  apart.
- `Journey`: the capture of a profile await by await; between two of them the page
  pushes events, takes some off, replaces the queue or its `push`, navigates and sends requests.  The
  network, state and runtime collectors have their bounds, correlation and error paths.
- `Retrieval`, `SitemapXml`, `SitemapTopology`: `fetchUrl` with its attempts, retries,
  redirects and log; `parseSitemap` as a fold over tokens with the stack of open
  elements; the traversal that uses both, with its bounds and its verdict.  What a document
  lists is defined beside the parser, by how deep its tags are nested: the text of each
  `<loc>` but those in an element that is not of sitemaps (in `<image:image>` it is no
  page).  Documents are what the scanner can yield (`Scanned`: it never splits the text
  between two tags), and a server has finitely many answers (`OriginsAssumption`).
- `McpSession`: callers that share an `McpClient` over HTTP; each request is awaited,
  the server may answer every handshake with another version, or with none, in which case
  the client keeps the one it has (`client.js:80`), and a call with no result, which is a
  success; `close()` comes any time.
- `CollectionBudget`: `authorizeCollection` and `recordUsage` with collectors between
  the two, from counts that the configuration may set.  Providers are counted and their
  limits looked up in lower case (`LowerCase`), while the keys of the limits are as given.

## 3. Runs

| Run | Question | Instance | Outcome |
|---|---|---|---|
| `UrlCrawl` | Does the account of a collection always add up, and does it end if bodies do? | 4 sites of 4 pages, budget 3 pages, 2 sitemap documents | holds, 150,510 states |
| `Audits` | What may the comparison conclude; do findings stand as more is read; does a crawl agree with a build? | 2 pages, 2 conditions, up to 2 hits, 3 envelopes; 7 sites, one of which changes | holds, 1,244,198 states |
| `PageLocalEstablished` | Does a complete crawl establish what was found on single pages? | the same | violated |
| `EvidenceRun` | Is a sealed run whole, durable and truthfully read, whatever fails? | 2 artifacts, 2 contents, 1 reader, one power loss | holds, 334,243 states |
| `Exceptions` | What is true when saves overlap, and what while they do not? | 2 exceptions, 3 commands, 2 saving at a time | holds, 1,667,904 states |
| `ExceptionRevocationLost` | Does a revocation hold when they do? | the same | violated |
| `McpStdio` | Does every request settle once, and does close reap? | 3 requests, limit of 2 lines, 3 lines written | holds, 226,674 states |
| `Installer` | Are directories whole and is user work kept? | 2 releases, 2 files, 2 commands, 1 edit | holds, 4,087,542 states |
| `InstallerRollback` | Does a rollback restore the profiles? | the same | violated |
| `Workspace` | Are index, repairs, answers and decisions what they say? | 2 audits, 3 findings, 2 files, 2 operations, 2 reviewers | holds, 1,924,668 states |
| `OccurrencesAreRuns` | Does the index count runs? | the same | violated |
| `Outside` | The eleven questions below | below | holds, 1,606,361 states |

What `Outside` asks: is nobody written to twice in a cooldown for one opportunity
(`ContactedOnce`); is a collection called complete when it has every item of a provider that
stood still (`CompleteIsAll`); is what `connect apply` overwrites what the reviewer saw, but
for the named window and for what does not show (`ReviewedIsOverwritten`); does a receipt of
IndexNow that says delivered mean delivered (`ReceiptIsTrue`); has a resumed render run every
profile as asked and of the page asked for (`ResumeKeeps`); does a regression between the
observations that are compared, the last of their key in each of two runs, reach the webhook or
its receipt (`RegressionIsDelivered`); is every item of a queue that was not shortened, and every
item that came by a wrapper, recorded or counted (`QueueIsAccounted`); is a completion attributed
to the step that caused it (`CompletionIsAttributed`); has a complete sitemap topology every URL
that is listed (`CompleteListsAll`); is an envelope of a call true, its capabilities those of one
answer of the server and its version the one stated last up to it (`EnvelopesAreTrue`); by how
much may a request limit that is looked up be passed (`OverrunIsBounded`).

`PROJECT.json` names the properties of each run, and for each property a variant of a
definition with which the run finds it violated: a swapped order, a dropped guard, an
off-by-one in the code would be noticed.

**Why the bounds are enough.**

- *UrlCrawl.*  The sites are a chain longer than the page budget, a cycle with
  self-links, a tree narrower than the budget with a foreign link, and one with a link
  the ledger refuses; sitemaps list seeded, unlinked and refused URLs.  Both budgets
  can therefore run out before, at and after the frontier does.  Two documents are the
  first and one that `maxDocuments` stops.
- *Audits, two of them.*  Matching looks at one detector and one resource; two hits are
  the least that can be matched crosswise.  One page's URL contains the other's.  One
  condition is about a page, the other about the whole scope.  `MCModes` varies the
  mode of the first condition and the second independently only where they interact
  (an untested condition makes runs differ in their detectors).  The home page is read
  or times out; the other page takes all seven outcomes.
- *Audits, one site.*  The seven sites differ in what detectors look at together: a short way
  to a page found after a long one, a project that declares pages, claims, entities,
  funnels and observations, redirects and repeated links, a site that speaks to agents,
  and a shop whose sitemap cannot be read, so that an error names its URL and the home page's.
  One change at one of two pages, before or after it was read, is enough to separate
  what was read from what is there.
- *EvidenceRun.*  Every artifact is treated alike but `findings.json` and
  `coverage.json`, which readers name.  Readers share nothing with one another.
- *Exceptions.*  A lost update needs two commands; the third evaluates.  Two
  exceptions of one finding show whether one can stand in for another.  The two
  properties that hold only while saves do not overlap say so in their premise.
- *McpStdio.*  One request that was answered, one that waits and one that starts while
  `close` runs; a limit of two lines that the third exceeds.
- *Installer.*  Two commands are the least for an effect of the first on the second;
  the second release lacks a file of the first.
- *Workspace.*  Two audits for a lost update and a torn snapshot; two findings in one file, one
  of them in copy, and one elsewhere; two operations, on one file or on two, are the least that
  a rollback can leave apart.
- *Outside.*  Two agents, operators, callers for each race, three collectors for limits of two
  and three, a provider that is named in two ways, a limit whose key has a capital and a query
  that the configuration starts beyond its limit; four answers of an MCP server, two of which
  leave the version out; two runs of observations, the first of which may be cut off, of two pages,
  with exports that have a page in two engines or two pages in one, and a prompt asked twice; pages of a
  content system whose SEO title repeats the title, is another or is none; lists of nothing, of
  less and of more than the pages allowed; three steps of a journey and three events against
  bounds of three; each sitemap has one token too many at every place, or is a redirect, missing,
  broken, too large or too long, behind an index that lists one, two, repeated or more than are
  read.

Deadlock is not checked: commands end, collections end, and a site, a child, a page or a
user may do nothing more.

## 4. Fairness

- *McpStdio*: weak fairness of `Resume`, of each request's `Timeout`, of `OnExit`
  and of `Kill`.  The event loop runs what is due, and the operating system reports
  the exit of a child.  Neither the child nor the caller owes anything: no fairness
  on answers, on `Close`, on `End`.
- *UrlCrawl*: weak fairness of every step *except while a body is read*, and of
  `Expire`.  `fetchUrl` aborts a request that has no headers when its timer fires, and
  retries a bounded number of times; so a fetch gets past `head`.  Then it
  clears the timer, and nothing obliges a body to end (`src/crawler/fetch.js:286`).
  `EndsUnlessABodyStalls` is the liveness that remains.
- The other modules state no liveness.  Commands are started by people, and what the
  synchronous steps of one command do in order needs no fairness to be safe.

## 5. Findings

Four runs end in a counterexample to something the repository says of itself.

- **ExceptionRevocationLost** (`src/commands/exceptions.js:171`).  A renewal that had
  loaded the registry before a revocation and saves after it undoes the revocation.
- **InstallerRollback** (`src/installer/index.js:824`).  A failure while the profiles are
  staged makes the catch block remove the installed profiles, whose backup was not made yet.
- **PageLocalEstablished** (`src/commands/audit.js:63`).  Detectors run on the preview of
  coverage, where nothing is evaluated yet, so what they find on a single page of a
  complete crawl is recorded as indeterminate.

- **OccurrencesAreRuns** (`src/evidence/findingIdentity.js:64`).  A detector that reports one
  finding twice in one run adds two to an `occurrence_count` that "tracks total observed
  runs" (`:46`).  What the index does keep is the history of hits (`IndexIsHistory`).

**Behaviour the models have and no property forbids.**  Read these as what the code does,
not as what it promises.

- Audits and comparison: a built-output audit has no coverage, so nothing is ever resolved
  by one; a finding whose condition no longer applies is filed as not comparable
  (`compareSnapshots.js:343`); a page that was read at the second attempt may have its
  finding called resolved (`:74`); what is new in an audit of URLs is a new failure and
  not a regression, since PASS is never recorded for a page before it.
  An error of a later page takes back what was found on the home page and on the site, whose
  URLs its text contains (`determinationEngine.js:283-313`, `collectorFailure.js:66-82`).
- Evidence: a run whose coverage could not be written is sealed as failed with a
  `coverage.json` that is torn, or missing from its counts (`audit.js:60-72`, `93-109`); a
  legacy load answers `sealed` for a run with `coverage.json` and no checksums;
  a listing of the runs folder shows `.sealing-` and `.partial-` siblings as runs.
- Detectors in URL mode: redirected targets make LINK-001 say "missing", and the detectors
  of redirects (LINK-002, TECH-005, TECH-008) silent; redirect targets look like orphans.
- Workspace: two audits that write the page snapshot at one time may leave a file that is
  neither's (`audit.js:207`); a rollback stops at the first file it cannot restore, and
  restores neither the files before it nor the one whose write failed
  (`applyRemediation.js:48`); of two operations on one file the second writes over the first;
  a verification with a regression may still be called verified (`verifyRemediation.js:268`);
  a review may be decided by a verdict nobody gave after adjudication (`reviews.js:96`).
- Installer: `uninstall` does not look at local modifications (`index.js:892`).
- Outreach: a breaker once reauthorized never trips again; a reservation does not ask for
  suppressed domains; the cooldown is asked at the reservation and not when sending.
- Connectors: `connect sync` saves the registry it loaded before its awaits, and undoes what
  was configured meanwhile; an item removed while pages are read makes a collection skip
  another; an edit that does not show - an SEO title cleared that repeated the title - leaves
  the hash as it was and is overwritten (`webflow.js:260`, `325-328`); between the check of a
  page and its write an editor may write; a lost answer to a
  write is reported as a failure; a refused later batch of IndexNow leaves no receipt of the
  earlier ones.
- Journeys: events pushed before a navigation and not drained are gone; when the page takes
  items off its queue, the count of those drained stays, and what is pushed past the wrappers
  below it is never polled (`runtimeEventCollector.js:214-224`); awaited bodies may
  exceed the bound on events; a failing page discards the artifacts of its capture.
- Monitoring: rows of one page in two engines, unnumbered runs of one prompt and several
  answers of one stance share a key, and the last hides what the others lost
  (`monitor.js:15-21`, `55`), where `skill/commands/observe-and-act.md:96-98` promises
  regressions of them; a run without a seal is compared; a process killed between request and receipt
  leaves none, and its repetition sends again.
- Retrieval: an attempt is logged as "redirect" although the location is then refused; a
  body that fails to cancel logs its attempt twice; a redirect whose body fails to cancel
  throws without its attempts.
- MCP: an answer without a version leaves that of another handshake, or the client's own, beside
  its capabilities (`client.js:80`); JSON without a result is a success (`http.js:98-102`,
  `client.js:149`, `205`); overlapping callers each make a handshake; `initialized` is set
  although the notification was lost; requests that are out go on after `close()`.  A child that
  exits with code 0 leaves requests to their timers.
- Budgets: the limit of a provider whose key has a capital is never enforced
  (`collectionScheduler.js:40`, `72`, `103`); overlapping collections pass a limit (by a bound
  that is proved); counters called daily are never reset; collections that fail are not counted.

## 6. Proofs

The theorems hold for all values of the constants that satisfy the named assumption of
each module they are about (`SiteAssumption`, `PackageAssumption`, `PayloadAssumption`,
...): sets, sites, plans, lists and limits are not bounded in any of them but where the
code bounds them.  What the assumptions ask for is that sets are finite and numbers
natural where the code counts, and what the representation of data needs; TLC evaluates
each of them in a run.  Of the forty properties the passing runs check, 36 are theorems.

| Module | Inductive invariants | Theorems |
|---|---|---|
| `UrlCollection_proofs` | `TypeOK /\ FrontierIsExact /\ OneFate /\ Stage`; `Walk`; `ParserInv`, `TopologyInv` | TypeCorrect, FrontierExact, FatesAreUnique, Accepted, Counts, CompleteMeansClosed, SitemapIsRead, CompleteTopologiesListAll |
| `Audits_proofs` (AuditComparison, SiteAudit) | `Places /\ InHand /\ Sealed /\ Compared`; `CrawlInv` | TypeCorrect, CollectorFailuresAreNotFindings, ResolvedNeedsReobservation, RegressionsHaveBaselines, UnchangedSitesPersist, FindingsStand |
| `EvidenceRun_proofs` | `TypeOK /\ FolderInv /\ PhaseInv`; `KeptInv`; `StageInv /\ ReaderInv`; `AnswerInv`, `SwapInv` | TypeCorrect, Inductive, Durability, NeverHalfSealed, NothingLost, CheckedIsSealed, Implementation |
| `ExceptionRegistry_proofs` | `TypeOK /\ RecordsConsistent /\ CandidatesConsistent`; `SaveInv` | TypeCorrect, AuditAgrees, EventsStay, RevocationsHold |
| `McpStdio_proofs` | `TypeOK /\ WaitsAreBounded /\ ClosedIsFinal /\ FailureReachesAll` | TypeCorrect, Bounded, Closed, Reaches, Settles |
| `Installer_proofs` | `DirsSound /\ Rest`; `RollInv` | TypeCorrect, Unmixed, FailedIsUndone, WorkIsKept |
| `Workspace_proofs` | `IndexTypeOK`, `SnapshotInv`, `HistoryInv`; `RepairInv`; `ReviewInv` | IndexTypeCorrect, HistoryIsTrue, SnapshotStays, FailureIsUndone, VerifiedWasRepaired, DecisionsKept, WorkspaceIsThree, WorkspaceHolds |
| `Outside_proofs` | `ContactInv`, `ConnectInv`, `PublishInv`, `AttributionInv`, `QueueInv`, `MonitorInv`, `SessionInv`, `Committed` | PublishersContactedOnce, CompleteCollectionsAreWhole, ReceiptsAreTrue, OnlyReviewedIsOverwritten, RequestsAreAttributed, QueuesAreAccounted, ResumedRunsAreWhole, RegressionsAreDelivered, EnvelopesAreOfOneHandshake, BudgetTypeCorrect, Overrun, OutsideIsItsParts, OutsideHolds |

**Arguments.**

- *UrlCrawl.*  The frontier invariant says that the queue and `seen` are a partition of
  `discovered` without repetition; `OneFate` that the fates are disjoint and only the URL
  in hand has none.  `Stage` is needed to tie both to `pc`: before the page loop
  nothing is queued or attempted, in it the URL in hand was attempted, and nothing is
  evaluated until coverage is sealed.  The
  five population equations follow from the partition by the cardinality of
  disjoint unions, so `Counts` needs no induction of its own.  `CompleteIsClosed` speaks of
  the end; `Walk` says what is true on the way: each link of each page read is in the
  ledger, outside the scope, or among those of the page in hand that are still to be
  followed, *unless* a budget ended the collection, and then `stopReason` says so.
- *SitemapXml.*  `ParserInv` describes the parser after *n* tokens by the document alone: its
  stack is the positions of the tags that are open, each deeper than the one before, and what it
  has - the URLs of closed entries, and what it holds of the open one - is what the first *n*
  tokens name, none missing unless it says so.  The description holds up to the first structural
  error, after which the document is malformed for good.  `SitemapIsRead` follows at the end,
  where nothing is open.
- *SitemapTopology.*  What is listed is the least set of URLs that has the entries and what
  each of its sitemaps or redirects leads to.  The invariant does not speak of it: as long as
  no document failed and nothing was left out, there is a set of URLs that are *done with* -
  what they lead to is in it, in the queue or in hand, and their pages are taken.
  When the queue is empty that set is closed, and has the least one in it.  Every bound,
  failure and flaw that leaves something out must be seen in the stop reasons or in the
  record of a document for this to be kept: that is the step-by-step part of the proof.
- *AuditComparison.*  The properties are about functions of two sealed runs.
  The invariant carries how a run came about - its coverage is that of its collection,
  its findings those `evaluateDeterminations` makes of hits - so that each theorem is
  a statement about `Compare` on two *sound* runs.
- *SiteAudit.*  `HitsStand` is about every detector at once.  The invariant (`CrawlInv`) has
  nothing to do with detectors: what was read is numbered in order and is what had been
  read with at most one page more, the queue has no URL twice and none that was tried, so a
  failure stays one.  From it `RetrievalGrows` says what a first retrieval does to all that
  detectors are given (`Grows`): pages are added behind the others and under new URLs, what
  was found at a URL stays what is found there, and the rest is as it was.  Then there is one
  step for each of the detectors that are not in `CorpusWide`.  Most follow from the pages
  they look at only growing; the canonical, sitemap and hreflang checks from the target
  found staying; those that take the first page that fits from the first staying first; and
  LINK-005 by following both walks over redirects hop by hop: a page more continues a walk
  only where it ended, and never shortens it (`HopGrows`).  Pages that change meanwhile
  play no part, since what was read of a page is kept.  What is suppressed grows with the errors:
  a hit that is no longer a finding is of a subject that a new error names (`TakenBack`), or of
  a detector in `CorpusWide`.
- *EvidenceRun.*  `SealedIsDurable` is not inductive: what a power loss leaves depends
  on the folders it may leave.  `FolderInv` says of each folder in the journal that
  it names the staging copy `dir` only if that is fsynced, and that what is fsynced
  is a whole package; `PhaseInv` says
  what each step of `finalize` may rely on.  From these a power loss at any moment
  leaves an open or a whole directory, and none is possible after the last fsync.
  Whole means what was recorded, and what was recorded is tracked through a failing
  `coverage.json`: the one artifact whose file may be torn, overwritten or uncounted when the
  run is sealed, as failed and with no findings (`Recorded`).
  `EvidenceKept` needs that, until the swap, the original stands whole under one of the two
  names that nothing removes (`KeptInv`).  What a reader has gathered over several file
  accesses is true because a manifest that is not torn is the one `finalize` was called
  with, whichever of the two directories it was opened in (`StageInv`, `ReaderInv`).
- *The refinement.*  `Implementation` takes every step of writer, faults and readers to a
  step of `RunArchive` or to a stutter.  The swap is `Seal` and the return of `finalize`
  `Acknowledge`; a power loss before the fsync is the one step that may undo a seal, and
  `SwapInv` says why none comes later; a strict reader answers in the step in which it is
  told, from the directory of the run alone (`AnswerInv`).
- *ExceptionRegistry.*  A file is consistent because the candidate written was, and the
  candidate because a command checked what it loaded: `CandidatesConsistent` carries
  consistency through memory, and overlap does no harm because whole files are
  replaced, not merged.  The two properties about what was reported hold while saves do not
  overlap; `SaveInv` then has one save at most, whose file is what it loaded until it is
  truncated, and whose candidate has every event and every revocation reported so far.
- *McpStdio.*  The four safety properties are inductive together and not one by one:
  a request waits with a handler and a timer only because `close` and the exit
  clear handler, timer and promise at once.  `SettledStays` is an action property and
  follows from the same invariant.
- *Installer.*  `DirsSound` extends `OneRelease` to backups, to kept backups and to what
  a half-done removal leaves; `Rest` types the rest.  `RollInv` follows the skill directory
  through a command: untouched, set aside whole in the backup, or replaced with the backup
  still whole and nothing of the user's in what was swapped in; from each of the three the
  rollback restores.
- *FindingIndex.*  `IndexIsHistory` sums the hits of all audits that saw a finding.  While
  nothing was overlapped, one audit at most is between its load and its write, and both
  what it loaded and the file, unless emptied for the write, are the history of the audits
  *before* it (`OneUpdate`).  Sums over finite sets are defined with a recursive function;
  that a sum grows by the summand of a new element is proved from the definition alone
  (below).  For `SnapshotSurvives`, while no two audits replaced the snapshot at one time, whoever
  is replacing it is the only one and has moved a whole one aside before
  (`SnapshotInv`).
- *Remediation, ReviewQueue.*  `FailureUndone` rests on `Matches`: the changes under way are
  those of the reviewed plan, and operations on one file were reviewed against one text.  While
  a rollback is under way, what it has passed and nobody else has written is that text again;
  a rollback that is reported has passed every file written, one that stopped is not reported.
  `DecisionsStayCurrent` rests on the
  shape of items: each command does one of three things to an item.
- *Outreach.*  `ContactedOnce` relates any two letters ever sent.  Inductive is: who holds an
  engagement is the only one, a letter is in the history of its recipient *or its
  sender still is to record it*, and who may still send has waited for the cooldown.
- *Connections.*  `CompleteIsAll` is proved over every way of paging.  While a provider
  stays as it is, what a list has is a prefix of the provider's, its total is the length
  of the provider's list, and the next position is its end; the result has every item of
  every list that is not still to be asked, or fewer items than its total.  Three things came
  out of the proof: the collection whose items the model has must be among the collections
  (`ConnectionsAssumption`; the code asks for items collection by collection), a provider that
  reports no totals is never known complete, and WordPress does go on after a short page,
  but only into an error that makes the collection incomplete.
- *Publishing.*  Who writes has read what shows as the reviewer saw it, as far as the hash covers
  (`WritersReadReviewed`); what a submission counts as delivered the engine has.
- *Journey.*  A request that is out was sent at a moment not after the tracker's, and while a
  step acts the tracker is within it (`StepsInOrder`): then `correlateCompletion` has no
  way to name another step.  For the queue, the copy of an item in the buffer is *the item
  itself, in scope or not*: the identities alone are not inductive, since a drain keeps
  the items in scope and must keep the right ones.  Once the page has shortened the queue, only
  items that came by a wrapper are still claimed.
- *Observation, Monitoring.*  Every result of every mode of `observe` is good: each watched
  subject is there once, and a whole render run has each profile once, of its page and captured
  as the run says.  A resumed run takes over some positions of another run in their order, so
  that what is reused is distinct and what is wanted is the rest.  `RegressionIsDelivered` needs
  that the minimum is not above "medium" (the default): with a higher one, the loss of a citation
  is filtered by request, which the theorem states as its hypothesis.  The comparison keeps the
  last observation of a key, and the property speaks of those.
- *McpSession.*  A client that is ready, or of which *some* caller is past a handshake, has
  the capabilities of one answer of the server and the version stated last up to it
  (`KnowsTheLast`); handshakes are only added, so what was the last up to one stays so
  (`VersionsKept`).
- *CollectionBudget.*  `OverrunIsBounded` is not inductive: a recording raises a count
  that nothing bounds.  `Committed` adds to each count the collectors at work for it;
  an authorization finds the count below its limit with at most the other collectors at
  work, a recording moves one from the second summand to the first.  A count that the
  configuration starts at its limit or beyond is never raised (`Held`).
- *The whole.*  `WorkspaceIsThree` and `OutsideIsItsParts` take a behaviour of a composition
  to one of each part, so that what is proved of a part holds of the composition
  (`CompleteListsAll` of `TopologySpec`, in another module than the rest of `Outside`).

**Counting without an induction rule.**  The induction theorems of the library take an
operator as a parameter, which the provers cannot instantiate.  Where the arguments above
count (sums of hits, positions of a sequence in order, the rank of a position, prefixes),
induction is done by hand: the set of numbers for which the statement fails has a smallest
element, or the finite sets for which it fails one of smallest cardinality, and the
statement for its predecessor contradicts it.  Each of these lemmas has the statement it
is about written out.

**Only model-checked.**

- Liveness: `RequestsSettle`, `CloseReaps`, `EndsUnlessABodyStalls`.  Fairness and ENABLED are
  beyond the provers used.
- `CrawlMatchesBuild`: every detector would have to give the same for two readings of a site
  in different orders, and not for every site: a provider's utility route among the files,
  say, is read in a build and never in a crawl.  TLC evaluates all 180 detectors in every
  state of the seven sites.

## 7. Not modelled, and why

- Reporting, statements of work, dashboards, the command line: rendering of what other
  parts have made.  Over half of the source that no module models is this.
- Statistics, scoring, SERP normalisation, entity graphs, lineage and replay: functions
  of one stored artifact.
- Text extraction, hashing, namespaces and entities of XML, schema validation, removal of
  secrets: conversions whose result is a fact of a page, a token or an outcome here.
- Detectors that can never fire: AGENT-001, -007 and -008, CWV-001 to -003 and HREFLANG-*,
  which ask for fields no context has; GEO-004, whose expression is applied to an object.
- The services behind connectors, browsers and search engines: what they do is any of the
  outcomes the code tells apart.
- The check of network addresses inside `fetchUrl` (an outcome), waiting between its
  attempts, and `requestAdaptiveFrequency`, which only computes an answer.
- Ranking of candidates when a command looks for its run by time; the `check`, `list` and
  `doctor` commands of the installer; evidence bundles of a verification.
- Release and acceptance scripts: run one at a time by continuous integration.

## 8. What could follow

- `UrlCrawl` over `SitemapTopology` and `Retrieval`: their steps as a refinement of the
  fetch phases and of the document steps; `McpSession` over `McpStdio` in place of HTTP.
- Proofs: `CrawlMatchesBuild`, after the properties of a site it needs are named.
