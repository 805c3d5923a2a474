------------------------------ MODULE Content ------------------------------
(***************************************************************************)
(* What hangs on a club: activity reports, the icon, the images in S3,     *)
(* those of banners included, and the feedback that presidents and         *)
(* administrators send to GitHub.                                          *)
(*                                                                         *)
(* Each of these requests passes the same guards, JwtStrategy.validate     *)
(* with its two reads, RoleGuard and assertClubWritePermission, and then   *)
(* issues a single statement with all its conditions, after an upload for  *)
(* an icon.  Meanwhile users and clubs change through the handlers of      *)
(* module Directory, which also write to icon_url what a body gives.       *)
(* Texts and images are left out; a report holds the request that wrote it *)
(* last, an image and its URL are named by the request that uploaded it,   *)
(* as randomUUID names it afresh.                                          *)
(***************************************************************************)
EXTENDS Directory

CONSTANTS
    Write,      \* the requests
    Bodies,     \* what they may ask
    MaxReports, \* bound on the ids of club_reports
    Reports0,   \* the table at start
    Gone        \* a report that was removed; its row is gone, its id used up

ReportId == 1..MaxReports
Images == {"icon", "reportImage", "bannerImage"}
Kind == Images \cup {"createReport", "updateReport", "deleteReport", "feedback"}

\* A token that was signed some time ago.
Credential == [sub : UserId, login_id : LoginId, role : Role,
               club_id : ClubId \cup {Null}]

\* The token, the club and the report of the route; given says whether an
\* update has any field.
Body == [kind : Kind, token : Credential, club : ClubId, report : ReportId,
         given : BOOLEAN]

\* by is Null for a row from before.
ReportRow == [club_id : ClubId, by : Write \cup {Null}]
Issue == [by : Write, role : Role, club_id : ClubId \cup {Null}]

ASSUME ContentAssumption ==
    /\ MaxReports \in Nat
    /\ Null \notin Write /\ Null \notin Body /\ Null \notin ReportRow
    /\ Gone \notin ReportRow /\ Gone # Null
    /\ Bodies \subseteq Body
    /\ Write \subseteq Url
    /\ \A t \in Start, c \in ClubId :
          t.clubs[c] # Null => t.clubs[c].icon_url \notin Write
    /\ Reports0 \in [ReportId -> ReportRow \cup {Null}]

VARIABLES
    reports,  \* committed rows of club_reports, by id
    objects,  \* the images in the bucket
    issues,   \* the issues on GitHub
    body, at, \* of each request, and its next statement
    entitled  \* (history) clubs its user could write to since it arrived

contentVars == <<reports, objects, issues, body, at>>
allVars == <<tables, contentVars, entitled>>

Spots == {"user", "club", "upload", "store"}

Move(w, spot) == at' = [at EXCEPT ![w] = spot]

ContentInit ==
    /\ Init
    /\ reports = Reports0
    /\ objects = {} /\ issues = {}
    /\ body = [w \in Write |-> Null]
    /\ at = [w \in Write |-> "idle"]
    /\ entitled = [w \in Write |-> {}]

\* passport-jwt checks signature and expiry before the first statement.
ArriveAt(w, b) ==
    /\ at[w] = "idle"
    /\ body' = [body EXCEPT ![w] = b]
    /\ Move(w, "user")
    /\ UNCHANGED <<tables, reports, objects, issues>>

-----------------------------------------------------------------------------
(* The guards                                                              *)

\* JwtStrategy.validate, first read.
ReadUser(w) ==
    /\ at[w] = "user"
    /\ Move(w, IF ClaimsMatch(body[w].token) THEN "club" ELSE "refused")
    /\ UNCHANGED <<tables, reports, objects, issues, body>>

\* The decorators @Roles of the routes.
Roles(kind) == IF kind \in {"createReport", "updateReport", "reportImage"} THEN {"president"}
               ELSE IF kind = "bannerImage" THEN {"admin"} ELSE Role

\* (slip) any president may write to any club
assertClubWritePermission_anyClub(b) == TRUE

assertClubWritePermission(b) == b.token.role = "admin" \/ b.token.club_id = b.club

\* RoleGuard, then the controller; feedback and banners name no club, an update
\* without a field is turned away by toUpdateData.
Permitted(b) ==
    /\ b.token.role \in Roles(b.kind)
    /\ b.kind \notin {"feedback", "bannerImage"} => assertClubWritePermission(b)
    /\ b.kind = "updateReport" => b.given

\* (slip) the URL is stored first and the image uploaded afterwards
FirstWrite_iconFirst(kind) == IF kind \in Images \ {"icon"} THEN "upload" ELSE "store"

FirstWrite(kind) == IF kind \in Images THEN "upload" ELSE "store"

\* JwtStrategy.validate, second read, and all that follows before the next
\* await: the club of the token must be the one its user manages now.
ReadClub(w) ==
    /\ at[w] = "club"
    /\ \E c \in managedClub(body[w].token.sub, body[w].token.role) :
          Move(w, IF c = body[w].token.club_id /\ Permitted(body[w])
                  THEN FirstWrite(body[w].kind) ELSE "refused")
    /\ UNCHANGED <<tables, reports, objects, issues, body>>

-----------------------------------------------------------------------------
(* The writes                                                              *)

\* S3Service.upload.  The reply may be lost.
Upload(w) ==
    /\ at[w] = "upload"
    /\ objects' = objects \cup {w}
    /\ \/ Move(w, IF body[w].kind = "icon" THEN "store" ELSE "done")
       \/ Move(w, "failed")
    /\ UNCHANGED <<tables, reports, issues, body>>

\* ClubsService.updateIconUrl: WHERE id and not deleted; no row is a 400.
StoreIcon(w) ==
    /\ at[w] = "store" /\ body[w].kind = "icon"
    /\ IF LiveClub(body[w].club)
       THEN clubs' = [clubs EXCEPT ![body[w].club].icon_url = w] /\ Move(w, "done")
       ELSE Move(w, "refused") /\ UNCHANGED clubs
    /\ UNCHANGED <<users, form, pc, early, serial, met, reports, objects, issues, body>>

\* The foreign key accepts a club with a deleted_at.
CreateReport(w) ==
    /\ at[w] = "store" /\ body[w].kind = "createReport"
    /\ \E i \in ReportId :
          /\ reports[i] = Null /\ \A j \in ReportId : j < i => reports[j] # Null
          /\ reports' = [reports EXCEPT ![i] = [club_id |-> body[w].club, by |-> w]]
    /\ Move(w, "done")
    /\ UNCHANGED <<tables, objects, issues, body>>

\* WHERE id and club_id.
Matches(b) == reports[b.report] \in ReportRow /\ reports[b.report].club_id = b.club

\* (slip) repository.save with the id of the route: it inserts a missing row
UpdateReport_save(w) ==
    /\ at[w] = "store" /\ body[w].kind = "updateReport"
    /\ IF Matches(body[w]) \/ reports[body[w].report] = Gone
       THEN /\ reports' = [reports EXCEPT ![body[w].report] =
                             [club_id |-> body[w].club, by |-> w]]
            /\ Move(w, "done")
       ELSE Move(w, "refused") /\ UNCHANGED reports
    /\ UNCHANGED <<tables, objects, issues, body>>

\* updateByClubId: one UPDATE; no row is a 404.
UpdateReport(w) ==
    /\ at[w] = "store" /\ body[w].kind = "updateReport"
    /\ IF Matches(body[w])
       THEN reports' = [reports EXCEPT ![body[w].report].by = w] /\ Move(w, "done")
       ELSE Move(w, "refused") /\ UNCHANGED reports
    /\ UNCHANGED <<tables, objects, issues, body>>

\* (slip) affected is not looked at
DeleteReport_unchecked(w) ==
    /\ at[w] = "store" /\ body[w].kind = "deleteReport"
    /\ reports' = [reports EXCEPT ![body[w].report] = IF Matches(body[w]) THEN Gone ELSE @]
    /\ Move(w, "done")
    /\ UNCHANGED <<tables, objects, issues, body>>

\* removeByClubId: one DELETE; no row is a 404.
DeleteReport(w) ==
    /\ at[w] = "store" /\ body[w].kind = "deleteReport"
    /\ IF Matches(body[w])
       THEN reports' = [reports EXCEPT ![body[w].report] = Gone] /\ Move(w, "done")
       ELSE Move(w, "refused") /\ UNCHANGED reports
    /\ UNCHANGED <<tables, objects, issues, body>>

\* FeedbackService.create: one POST, nothing of it from the body.  The issue
\* may exist although the reply was lost.
PostFeedback(w) ==
    /\ at[w] = "store" /\ body[w].kind = "feedback"
    /\ issues' = issues \cup
          {[by |-> w, role |-> body[w].token.role, club_id |-> body[w].token.club_id]}
    /\ Move(w, "done") \/ Move(w, "failed")
    /\ UNCHANGED <<tables, reports, objects, body>>

\* Validation of the body or the file, a failing statement, a call of S3 or
\* GitHub that never arrives, or a restart.
Break(w) ==
    /\ at[w] \in Spots
    /\ Move(w, "failed")
    /\ UNCHANGED <<tables, reports, objects, issues, body>>

ContentStep(w) ==
    \/ ReadUser(w) \/ ReadClub(w) \/ Upload(w) \/ StoreIcon(w) \/ CreateReport(w)
    \/ UpdateReport(w) \/ DeleteReport(w) \/ PostFeedback(w) \/ Break(w)

\* The clubs a live administrator, or the president of a live club, may write to.
MayWrite(u) ==
    {c \in ClubId : /\ Live(u)
                    /\ \/ users[u].role = "admin"
                       \/ LiveClub(c) /\ clubs[c].president_id = u}

\* A body may give any link for an icon, and one that the server issued once
\* the image is there: nobody makes up the random part of a URL.
Known(f) == f # Null /\ f.kind \in {"register", "createClub", "updateClub"}
               => f.icon_url \notin Write \ objects

ContentNext ==
    /\ \/ \E w \in Write : (\E b \in Bodies : ArriveAt(w, b)) \/ ContentStep(w)
       \/ Next /\ UNCHANGED contentVars /\ (\A r \in Req : Known(form[r]))'
    /\ entitled' = [w \in Write |->
          entitled[w] \cup (IF at[w] \in Spots THEN MayWrite(body[w].token.sub) ELSE {})']

ContentSpec == ContentInit /\ [][ContentNext]_allVars
-----------------------------------------------------------------------------
(* Properties                                                              *)

\* Reports belong to a club, and each request is where it can be.
ContentTypeOK ==
    /\ TypeOK
    /\ reports \in [ReportId -> ReportRow \cup {Null, Gone}]
    /\ objects \subseteq Write /\ issues \subseteq Issue
    /\ body \in [Write -> Bodies \cup {Null}]
    /\ at \in [Write -> {"idle"} \cup Spots \cup Ended]
    /\ entitled \in [Write -> SUBSET ClubId]
    /\ \A w \in Write : at[w] # "idle" => body[w] # Null

\* The request that is being answered, or cut off, in this step.
Ends(w) == at[w] = "store" /\ at'[w] # "store"

\* A token may have been signed long ago: whatever changed since then, what a
\* request writes belongs to a club that its user could write to at a moment
\* when the request was there.  Requests that change users and clubs two at a
\* time can undo it (a removed user may become a president).
WritesArePermitted ==
    [][serial =>
        /\ \A i \in ReportId : reports'[i] # reports[i] =>
             \E w \in Write : /\ Ends(w) /\ body[w].club \in entitled[w]
                              /\ \A row \in {reports[i], reports'[i]} \cap ReportRow :
                                   row.club_id = body[w].club
        /\ \A w \in Write, c \in ClubId :
             Ends(w) /\ clubs'[c] # clubs[c] => c \in entitled[w]
        /\ \A x \in issues' \ issues :
             x.club_id # Null => x.club_id \in entitled[x.by]]_allVars

\* A removed report never comes back, although updates that passed the guards
\* before its removal are still on their way.
RemovedStaysRemoved ==
    [][\A i \in ReportId : reports[i] = Gone => reports'[i] = Gone]_allVars

\* Of all the removals of a report one is answered with success.
RemovedOnce ==
    \A v, w \in Write :
        /\ at[v] = "done" /\ body[v].kind = "deleteReport"
        /\ at[w] = "done" /\ body[w].kind = "deleteReport"
        /\ body[v].report = body[w].report
        => v = w

\* An icon that the server has issued exists, whatever was cut off and whoever
\* writes its URL to a club: an upload can leave an image that no row names,
\* never a row that names an image of the bucket that is not there.
IconsExist ==
    \A c \in ClubId :
        clubs[c] # Null /\ clubs[c].icon_url \in Write => clubs[c].icon_url \in objects

\* An upload that was on its way when its club was deleted does not change the
\* deleted club, and is not answered with success after it.
DeletedClubKeepsIcon ==
    [][\A c \in ClubId : clubs[c] # Null /\ clubs[c].deleted =>
         /\ clubs'[c] = clubs[c]
         /\ \A w \in Write : /\ Ends(w) /\ body[w].kind = "icon" /\ body[w].club = c
                             => at'[w] # "done"]_allVars
=============================================================================
