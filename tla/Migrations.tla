------------------------------ MODULE Migrations ------------------------------
(***************************************************************************)
(* What the migrations under src/migrations do to a schema, one definition  *)
(* per migration, named after its class.                                    *)
(*                                                                          *)
(* A schema is a set of objects: tables, columns, indexes and unique        *)
(* constraints, enum types and their values, columns made nullable, and the *)
(* rows migrations themselves write.  A foreign key is kept as the table it *)
(* needs; column types, defaults and checks are left out.  An index is      *)
(* named without the prefix IDX_<table>_ that most have; UQ_<column> is the *)
(* constraint of a column that is unique.                                   *)
(***************************************************************************)
EXTENDS Naturals, Sequences, SequencesExt

Table(t) == <<"table", t>>
Column(t, c) == <<"column", t, c>>
Index(t, i) == <<"index", t, i>>
Nullable(t, c) == <<"nullable", t, c>>
Row(t, key) == <<"row", t, key>>
Type(y) == <<"type", y>>
Value(y, v) == <<"value", y, v>>

OfTables == {"column", "index", "nullable", "row"}

NoIndexes == [t \in {} |-> {}]

ColumnsOf(f) == UNION {{Column(t, c) : c \in f[t]} : t \in DOMAIN f}
IndexesOf(f) == UNION {{Index(t, i) : i \in f[t]} : t \in DOMAIN f}
Tables(names) == {Table(t) : t \in names}

(* A change: the tables it creates if they do not exist, the objects it adds *)
(* and drops (an error if they are there, or are not), those it adds or      *)
(* drops only if it finds them missing or there, and the tables it needs.    *)
Nothing == [tables |-> NoIndexes, adds |-> {}, ensures |-> {},
            drops |-> {}, clears |-> {}, needs |-> {}]

\* A table takes its columns, indexes and rows along, a type its values.
Without(s, gone) ==
  IF gone = {} THEN s ELSE {o \in s : ~(o \in gone \/ Table(o[2]) \in gone \/ Type(o[2]) \in gone)}

WithTables(s, tables) ==
  LET new == {t \in DOMAIN tables : Table(t) \notin s}
  IN  s \cup Tables(new) \cup ColumnsOf([t \in new |-> tables[t]])

Effect(c, s) ==
  WithTables(Without(s, c.drops \cup c.clears), c.tables) \cup c.adds \cup c.ensures

Fails(c, s) ==
  LET made == WithTables(Without(s, c.drops \cup c.clears), c.tables)
  IN  \/ ~(c.drops \subseteq s)
      \/ ~(c.needs \subseteq made)
      \/ c.adds \cap made # {}
      \/ \E o \in c.adds \cup c.ensures : o[1] \in OfTables /\ Table(o[2]) \notin made

(* A migration has two changes. *)

\* Its down() undoes its up().
Reversible(c) ==
  [up |-> c,
   down |-> [Nothing EXCEPT !.drops = c.adds \cup Tables(DOMAIN c.tables), !.adds = c.drops,
                            !.clears = c.ensures, !.ensures = c.clears]]

\* hasColumn, getTable(...).findColumnByName, existingIndexes.includes.
Guarded(c) ==
  Reversible([c EXCEPT !.adds = {}, !.ensures = @ \cup c.adds,
                       !.drops = {}, !.clears = @ \cup c.drops])

Extension(tables, columns, indexes, parents) ==
  Reversible([Nothing EXCEPT !.tables = tables,
                             !.adds = ColumnsOf(columns) \cup IndexesOf(indexes),
                             !.needs = Tables(parents)])

\* Enum types are created unless they exist, and dropped if they do.
Creation(tables, indexes, types, parents) ==
  Reversible([Nothing EXCEPT !.tables = tables, !.adds = IndexesOf(indexes),
                             !.ensures = {Type(y) : y \in types},
                             !.needs = Tables(parents)])

ColumnsAndIndexes(columns, indexes, parents) ==
  Extension(NoIndexes, columns, indexes, parents)

Columns(columns) == Extension(NoIndexes, columns, NoIndexes, {})

MadeNullable(t, c) == Reversible([Nothing EXCEPT !.ensures = {Nullable(t, c)}])

LastingKeys == {"register", "first_login_daily", "attendance", "comment_any_board",
                "report_site_scam", "site_registration_request", "site_review"}
PostKeys == {"post_promotion", "post_job", "post_poca"}

-----------------------------------------------------------------------------

CreateAuthUserSystem ==
  Creation(
    [roles |-> {"id", "name", "description", "created_at", "updated_at",
      "deleted_at"},
     permissions |-> {"id", "name", "description", "created_at", "updated_at",
      "deleted_at"},
     badges |-> {"id", "name", "description", "icon_url", "badge_type",
      "created_at", "updated_at", "deleted_at"},
     users |-> {"id", "email", "password_hash", "display_name", "avatar_url",
      "is_active", "last_login_at", "created_at", "updated_at", "deleted_at"},
     user_tokens |-> {"id", "user_id", "token_id", "refresh_token_hash",
      "device_info", "ip_address", "expires_at", "revoked_at", "created_at",
      "updated_at"},
     user_roles |-> {"id", "user_id", "role_id", "created_at"},
     user_permissions |-> {"id", "user_id", "permission_id", "created_at"},
     user_badges |-> {"id", "user_id", "badge_id", "earned_at"}],
    [roles |-> {"UQ_name"},
     permissions |-> {"UQ_name"},
     badges |-> {"UQ_name"},
     users |-> {"UQ_email", "email"},
     user_tokens |-> {"UQ_token_id", "user_id", "token_id"},
     user_roles |-> {"user_id", "role_id"},
     user_permissions |-> {"user_id", "permission_id"},
     user_badges |-> {"user_id", "badge_id"}],
    {}, {})

CreateUserOldPasswords ==
  Creation(
    [user_old_passwords |-> {"id", "user_id", "password_hash", "type",
      "created_at"}],
    [user_old_passwords |-> {"user_id", "created_at"}],
    {}, {"users"})

AddTypeToRolesAndPermissions ==
  Columns([roles |-> {"type"}, permissions |-> {"type"}])

CreateAdminSystem ==
  Creation(
    [admins |-> {"id", "email", "password_hash", "display_name", "is_active",
      "last_login_at", "created_at", "updated_at", "deleted_at"},
     admin_roles |-> {"id", "admin_id", "role_id", "created_at"},
     admin_permissions |-> {"id", "admin_id", "permission_id", "created_at"},
     admin_tokens |-> {"id", "admin_id", "token_id", "refresh_token_hash",
      "device_info", "ip_address", "expires_at", "revoked_at", "created_at",
      "updated_at"},
     admin_old_passwords |-> {"id", "admin_id", "password_hash", "type",
      "created_at"}],
    [admins |-> {"UQ_email"},
     admin_tokens |-> {"UQ_token_id", "admin_id"},
     admin_roles |-> {"admin_id"},
     admin_permissions |-> {"admin_id"},
     admin_old_passwords |-> {"admin_id"}],
    {}, {"roles", "permissions"})

CreateUserExtensions ==
  Creation(
    [user_profiles |-> {"id", "user_id", "bio", "phone", "birth_date", "gender",
      "created_at", "updated_at"},
     user_favorite_sites |-> {"id", "user_id", "site_id", "created_at"},
     user_posts |-> {"id", "user_id", "post_id", "created_at", "updated_at"},
     user_comments |-> {"id", "user_id", "comment_type", "comment_id",
      "created_at", "updated_at"}],
    [user_profiles |-> {"UQ_user_id", "user_id"},
     user_favorite_sites |-> {"user_id", "site_id", "unique"},
     user_posts |-> {"user_id"},
     user_comments |-> {"user_id", "comment_type", "comment_id", "type_id"}],
    {}, {"users"})

CreatePostSystem ==
  Creation(
    [post_categories |-> {"id", "name", "description", "created_at", "updated_at"},
     posts |-> {"id", "user_id", "category_id", "title", "content", "like_count",
      "is_pinned", "is_published", "published_at", "created_at", "updated_at",
      "deleted_at"},
     post_comments |-> {"id", "post_id", "user_id", "parent_comment_id", "content",
      "like_count", "created_at", "updated_at", "deleted_at"},
     post_comment_images |-> {"id", "comment_id", "image_url", "order",
      "created_at"},
     post_reactions |-> {"id", "post_id", "user_id", "reaction_type", "created_at",
      "updated_at"},
     post_views |-> {"id", "post_id", "user_id", "ip_address", "created_at"}],
    [post_categories |-> {"UQ_name"},
     posts |-> {"user_id", "category_id"},
     post_comments |-> {"post_id", "user_id"},
     post_comment_images |-> {"comment_id"},
     post_reactions |-> {"post_id", "unique"},
     post_views |-> {"post_id"}],
    {}, {"users"})

CreateScamReportSystem ==
  Creation(
    [scam_reports |-> {"id", "user_id", "site_id", "title", "description",
      "amount", "status", "admin_id", "reviewed_at", "created_at", "updated_at",
      "deleted_at"},
     scam_report_comments |-> {"id", "scam_report_id", "user_id",
      "parent_comment_id", "content", "like_count", "created_at", "updated_at",
      "deleted_at"},
     scam_report_comment_images |-> {"id", "comment_id", "image_url", "order",
      "created_at"},
     scam_report_reactions |-> {"id", "scam_report_id", "user_id", "reaction_type",
      "created_at", "updated_at"},
     scam_report_site |-> {"id", "scam_report_id", "site_id", "created_at"}],
    [scam_reports |-> {"user_id"},
     scam_report_comments |-> {"scam_report_id"},
     scam_report_comment_images |-> {"comment_id"},
     scam_report_reactions |-> {"scam_report_id", "unique"},
     scam_report_site |-> {"scam_report_id", "unique"}],
    {}, {"users"})

CreateSiteSystemPart1 ==
  Creation(
    [site_categories |-> {"id", "name", "description", "created_at", "updated_at",
      "deleted_at"},
     sites |-> {"id", "name", "category_id", "logo_url", "main_image_url",
      "site_image_url", "tier_id", "permanent_url", "status", "description",
      "review_count", "average_rating", "first_charge", "recharge", "experience",
      "created_at", "updated_at", "deleted_at"},
     site_badges |-> {"id", "site_id", "badge_id", "created_at"},
     site_domains |-> {"id", "site_id", "domain", "is_active", "is_current",
      "created_at", "updated_at"},
     site_views |-> {"id", "site_id", "user_id", "ip_address", "created_at"}],
    [site_categories |-> {"UQ_name"},
     site_domains |-> {"UQ_domain", "site_id"},
     sites |-> {"category_id", "tier_id", "status"},
     site_badges |-> {"site_id", "badge_id"},
     site_views |-> {"site_id", "user_id"}],
    {"site_status_enum"}, {"tiers", "badges", "users"})

CreateSiteSystemPart2 ==
  Creation(
    [site_reviews |-> {"id", "site_id", "user_id", "rating", "title", "content",
      "like_count", "is_published", "created_at", "updated_at", "deleted_at"},
     site_review_comments |-> {"id", "review_id", "user_id", "parent_comment_id",
      "content", "like_count", "created_at", "updated_at", "deleted_at"},
     site_review_reactions |-> {"id", "review_id", "user_id", "reaction_type",
      "created_at", "updated_at"},
     site_views |-> {"id", "site_id", "user_id", "ip_address", "created_at"}],
    [site_reviews |-> {"site_id", "user_id", "unique"},
     site_review_comments |-> {"review_id"},
     site_review_reactions |-> {"review_id", "unique"},
     site_views |-> {"site_id"}],
    {}, {"sites", "users"})

CreateSiteSystemPart3 ==
  Creation(
    [site_events |-> {"id", "site_id", "title", "description", "start_date",
      "end_date", "is_active", "created_at", "updated_at", "deleted_at"},
     site_event_banners |-> {"id", "event_id", "image_url", "link_url", "order",
      "is_active", "created_at"},
     site_event_views |-> {"id", "event_id", "user_id", "ip_address", "created_at"},
     site_manager_applications |-> {"id", "site_id", "user_id", "message",
      "status", "admin_id", "reviewed_at", "created_at", "updated_at"},
     site_applications |-> {"id", "user_id", "site_name", "site_url",
      "category_id", "description", "status", "admin_id", "reviewed_at",
      "created_at", "updated_at"}],
    [site_events |-> {"site_id"},
     site_event_banners |-> {"event_id"},
     site_event_views |-> {"event_id"},
     site_manager_applications |-> {"site_id", "user_id"},
     site_applications |-> {"user_id", "category_id"}],
    {}, {"sites", "users", "admins", "site_categories"})

AddIsActiveToBadgesTiersCategories ==
  Columns([badges |-> {"is_active"},
   tiers |-> {"is_active"},
   site_categories |-> {"is_active"}])

AddDeletedAtToTiersCategories ==
  Columns([tiers |-> {"deleted_at"}, site_categories |-> {"deleted_at"}])

AddIsSuperAdminToAdmins ==
  Columns([admins |-> {"is_super_admin"}])

AddAvatarUrlToAdmins ==
  Columns([admins |-> {"avatar_url"}])

CreateSupportSystem ==
  Creation(
    [inquiries |-> {"id", "user_id", "message", "images", "status", "admin_id",
      "admin_reply", "replied_at", "created_at", "updated_at", "deleted_at"},
     feedbacks |-> {"id", "user_id", "message", "images", "is_viewed",
      "viewed_by_admin_id", "viewed_at", "created_at", "updated_at", "deleted_at"},
     bug_reports |-> {"id", "user_id", "message", "images", "is_viewed",
      "viewed_by_admin_id", "viewed_at", "created_at", "updated_at", "deleted_at"},
     advertising_contacts |-> {"id", "user_id", "message", "images", "is_viewed",
      "viewed_by_admin_id", "viewed_at", "created_at", "updated_at", "deleted_at"}],
    [inquiries |-> {"user_id", "status", "admin_id"},
     feedbacks |-> {"user_id", "is_viewed"},
     bug_reports |-> {"user_id", "is_viewed"},
     advertising_contacts |-> {"user_id", "is_viewed"}],
    {}, {"users", "admins"})

CreateUserHistorySites ==
  Creation(
    [user_history_sites |-> {"id", "user_id", "site_id", "created_at"}],
    [user_history_sites |-> {"user_id", "site_id", "user_created_at"}],
    {}, {"users", "sites"})

AddSiteImageUrlToSites ==
  Columns([sites |-> {"site_image_url"}])

CreateAttendanceSystem ==
  Creation(
    [attendances |-> {"id", "user_id", "message", "attendance_date", "created_at"},
     attendance_statistics |-> {"id", "user_id", "statistic_date",
      "total_attendance_days", "current_streak", "attendance_time",
      "attendance_rank", "daily_message", "created_at", "updated_at"}],
    [attendances |-> {"unique_user_date", "user_id", "attendance_date",
      "user_date", "date_created"},
     attendance_statistics |-> {"unique_user_statistic_date", "user_id",
      "statistic_date", "user_date", "date_rank"}],
    {}, {"users"})

AddRankingFieldsToSites ==
  Columns([sites |-> {"first_charge", "recharge", "experience"}])

AddIndexesToScamReports ==
  Guarded([Nothing EXCEPT
    !.adds = IndexesOf([scam_reports |-> {"site_id", "status", "site_status"}]),
    !.needs = Tables({"sites", "admins"})])

CreateScamReportImages ==
  Creation(
    [scam_report_images |-> {"id", "scam_report_id", "image_url", "order",
      "created_at"}],
    [scam_report_images |-> {"scam_report_id", "order"}],
    {}, {"scam_reports"})

RemoveLikeCountFromScamReportComments ==
  Guarded([Nothing EXCEPT !.drops = ColumnsOf([scam_report_comments |-> {"like_count"}])])

DropScamReportSiteTable ==
  [up |-> [Nothing EXCEPT !.clears = {Table("scam_report_site")}],
   down |-> [Nothing EXCEPT
     !.tables = [scam_report_site |-> {"id", "scam_report_id", "site_id", "created_at"}],
     !.adds = IndexesOf([scam_report_site |-> {"scam_report_id", "unique"}]),
     !.needs = Tables({"scam_reports", "sites"})]]

Updatesitereviewsschema ==
  Guarded([Nothing EXCEPT
    !.drops = ColumnsOf([site_reviews |-> {"like_count"}, site_review_comments |-> {"like_count"}])])

UpdateInquirySystem ==
  [up |-> [Nothing EXCEPT
     !.adds = ColumnsOf([inquiries |-> {"title", "category"}]),
     !.ensures = {Type("inquiry_category_enum")},
     !.clears = Tables({"feedbacks", "bug_reports", "advertising_contacts"})],
   down |-> [Nothing EXCEPT
     !.drops = ColumnsOf([inquiries |-> {"title", "category"}]),
     !.clears = {Type("inquiry_category_enum")}]]

AddConstraintsToSiteManagerApplications ==
  Reversible([Nothing EXCEPT
    !.adds = IndexesOf([site_manager_applications |-> {"status", "site_status"}]),
    !.ensures = IndexesOf([site_manager_applications |-> {"unique_pending"},
                           site_managers |-> {"unique_site_user"}])])

CreatePocaEventsSystem ==
  Creation(
    [poca_events |-> {"id", "title", "slug", "summary", "content", "status",
      "starts_at", "ends_at", "primary_banner_url", "view_count", "created_at",
      "updated_at", "deleted_at"},
     poca_event_banners |-> {"id", "event_id", "image_url", "order", "created_at",
      "updated_at", "deleted_at"},
     poca_event_views |-> {"id", "event_id", "user_id", "ip_address", "user_agent",
      "created_at", "updated_at", "deleted_at"}],
    [poca_events |-> {"UQ_slug", "status", "slug", "starts_at", "ends_at"},
     poca_event_banners |-> {"event_id", "event_order"},
     poca_event_views |-> {"event_id", "user_id"}],
    {"poca_event_status_enum"}, {"users"})

CreateGifticonsSystem ==
  Creation(
    [gifticons |-> {"id", "title", "slug", "summary", "content", "image_url",
      "status", "starts_at", "ends_at", "created_at", "updated_at", "deleted_at"}],
    [gifticons |-> {"UQ_slug", "status", "slug", "starts_at", "ends_at"}],
    {"gifticon_status_enum"}, {})

AddAmountToGifticons ==
  Columns([gifticons |-> {"amount"}])

AddPointsToUserProfiles ==
  Columns([user_profiles |-> {"points"}])

AddDeletedAtToPostCategories ==
  Guarded([Nothing EXCEPT !.adds = ColumnsOf([post_categories |-> {"deleted_at"}])])

AddThumbnailUrlToPosts ==
  Guarded([Nothing EXCEPT !.adds = ColumnsOf([posts |-> {"thumbnail_url"}])])

AddCreatedByAdminToPosts ==
  Guarded([Nothing EXCEPT !.adds = ColumnsOf([posts |-> {"created_by_admin"}])])

DropPostUserFk ==
  Guarded([Nothing EXCEPT
    !.drops = ColumnsOf([posts |-> {"created_by_admin"}]),
    !.adds = ColumnsOf([posts |-> {"admin_id"}]) \cup {Nullable("posts", "user_id")},
    !.needs = Tables({"users", "admins"})])

RemoveLikeCountFromPostsAndComments ==
  Guarded([Nothing EXCEPT
    !.drops = ColumnsOf([posts |-> {"like_count"}, post_comments |-> {"like_count"}])])

CreatePointTransactionsSystem ==
  Creation(
    [point_transactions |-> {"id", "user_id", "type", "amount", "balance_after",
      "category", "reference_type", "reference_id", "description", "metadata",
      "created_at"}],
    [point_transactions |-> {"user_id", "created_at", "category", "reference"}],
    {"point_transaction_type_enum"}, {"users"})

CreateGifticonRedemptionsSystem ==
  Creation(
    [gifticon_redemptions |-> {"id", "user_id", "gifticon_id", "points_used",
      "status", "redemption_code", "gifticon_snapshot", "cancelled_at",
      "cancelled_by", "cancellation_reason", "created_at", "updated_at"}],
    [gifticon_redemptions |-> {"UQ_redemption_code", "user_id", "gifticon_id",
      "status", "redemption_code", "created_at"}],
    {"gifticon_redemption_status_enum"}, {"users", "gifticons"})

CreatePointExchangesSystem ==
  Creation(
    [point_exchanges |-> {"id", "user_id", "site_id", "points_amount",
      "site_currency_amount", "exchange_rate", "site_user_id", "status",
      "admin_id", "processed_at", "rejection_reason", "created_at", "updated_at"}],
    [point_exchanges |-> {"user_id", "site_id", "status", "created_at"}],
    {"point_exchange_status_enum"}, {"users", "sites", "admins"})

AddRejectedStatusToGifticonRedemptionEnum ==
  [up |-> [Nothing EXCEPT !.ensures = {Value("gifticon_redemption_status_enum", "rejected")},
                         !.needs = {Type("gifticon_redemption_status_enum")}],
   down |-> Nothing]

AddTypeColorToGifticons ==
  Columns([gifticons |-> {"type_color"}])

CreatePartnerRequestsSystem ==
  Creation(
    [partner_requests |-> {"id", "user_id", "status", "admin_id", "reviewed_at",
      "rejection_reason", "created_at", "updated_at", "deleted_at"}],
    [partner_requests |-> {"user_id", "status", "user_id_pending"}],
    {"partner_request_status_enum"}, {"users", "admins"})

AddHasChildToComments ==
  Columns([post_comments |-> {"has_child"}, site_review_comments |-> {"has_child"},
           scam_report_comments |-> {"has_child"}])

AddFieldsToScamReports ==
  Columns([scam_reports |-> {"site_url", "site_name", "site_account_info",
                             "registration_url", "contact"}])

UpdateSiteReviewsAddFieldsAndImages ==
  Reversible([Nothing EXCEPT
    !.drops = ColumnsOf([site_reviews |-> {"title"}]),
    !.adds = ColumnsOf([site_reviews |-> {"odds", "limit", "event", "speed"}])
             \cup IndexesOf([site_review_images |-> {"site_review_id", "order"}]),
    !.tables = [site_review_images |->
                  {"id", "site_review_id", "image_url", "order", "created_at"}]])

AddUserAdminToSiteEvents ==
  ColumnsAndIndexes(
    [site_events |-> {"user_id", "admin_id"}],
    [site_events |-> {"user_id", "admin_id"}], {"users", "admins"})

MakeImageUrlNullableInSiteEventBanners ==
  MadeNullable("site_event_banners", "image_url")

MakeUserIdNullableInScamReports ==
  MadeNullable("scam_reports", "user_id")

AddDeletedAtToScamReportImages ==
  Columns([scam_report_images |-> {"deleted_at"}])

AddActiveToUserBadges ==
  ColumnsAndIndexes(
    [user_badges |-> {"active"}],
    [user_badges |-> {"active"}], {})

RemoveSiteOwnerRole ==
  [up |-> [Nothing EXCEPT !.clears = {Row("roles", "site-owner"), Row("user_roles", "site-owner")}],
   down |-> [Nothing EXCEPT !.ensures = {Row("roles", "site-owner")}]]

CreateOtpRequestsSystem ==
  Creation(
    [otp_requests |-> {"id", "phone", "otp", "ip_address", "request_count",
      "last_request_at", "expires_at", "verified_at", "created_at", "updated_at"}],
    [otp_requests |-> {"UQ_phone", "phone", "expires_at"}],
    {}, {})

AddUserIdAndDeletedAtToOtpRequests ==
  ColumnsAndIndexes(
    [otp_requests |-> {"user_id", "deleted_at"}],
    [otp_requests |-> {"user_id", "deleted_at"}], {"users"})

RemoveUniqueConstraintFromOtpRequestsPhone ==
  [up |-> [Nothing EXCEPT
     !.clears = IndexesOf([otp_requests |-> {"UQ_phone"}]),
     !.adds = IndexesOf([otp_requests |-> {"UQ_otp_requests_phone_active"}])],
   down |-> [Nothing EXCEPT
     !.drops = IndexesOf([otp_requests |-> {"UQ_otp_requests_phone_active"}]),
     !.adds = IndexesOf([otp_requests |-> {"UQ_phone"}])]]

AddTokenToOtpRequests ==
  ColumnsAndIndexes(
    [otp_requests |-> {"token", "token_expires_at"}],
    [otp_requests |-> {"UQ_otp_requests_token", "token_expires_at"}], {})

AddObtainToBadges ==
  Columns([badges |-> {"obtain"}])

AddIpAddressesToTables ==
  ColumnsAndIndexes(
    [user_profiles |-> {"register_ip", "last_login_ip", "last_request_ip"},
     scam_reports |-> {"ip_address"},
     inquiries |-> {"ip_address"},
     point_exchanges |-> {"ip_address"},
     gifticon_redemptions |-> {"ip_address"}],
    [user_profiles |-> {"register_ip", "last_login_ip"},
     scam_reports |-> {"ip_address"},
     inquiries |-> {"ip_address"}], {})

\* Mutant: the column is not called what the entity calls it.
AddPointsToBadges == Columns([badges |-> {"points"}])

AddPointToBadges ==
  Columns([badges |-> {"point"}])

AddColorToBadges ==
  Columns([badges |-> {"color"}])

AddSlugToSites ==
  ColumnsAndIndexes([sites |-> {"slug"}], [sites |-> {"UQ_sites_slug"}], {})

AddManagerIdToPointExchanges ==
  ColumnsAndIndexes(
    [point_exchanges |-> {"manager_id"}],
    [point_exchanges |-> {"manager_id"}], {"users"})

\* Mutant: down() drops nothing.
AddIconNameForGood ==
  [Columns([badges |-> {"icon_name"}]) EXCEPT !.down = Nothing]

AddIconNameToBadges ==
  Columns([badges |-> {"icon_name"}])

CreatePostCommentReactions ==
  Creation(
    [post_comment_reactions |-> {"id", "comment_id", "user_id", "reaction_type"}],
    [post_comment_reactions |-> {"unique_comment_user_reaction", "comment_id",
      "user_id", "type"}],
    {}, {"post_comments", "users"})

AddShowMainToPostCategories ==
  Columns([post_categories |-> {"show_main"}])

CreateUserSearchSites ==
  Creation(
    [user_search_sites |-> {"id", "user_id", "search_query", "created_at"}],
    [user_search_sites |-> {"user_id", "user_created_at"}],
    {}, {"users"})

AddTetherDepositWithdrawalStatusToSites ==
  Columns([sites |-> {"tether_deposit_withdrawal_status"}])

AddDeletedAtAndUniqueToUserPosts ==
  ColumnsAndIndexes(
    [user_posts |-> {"deleted_at"}],
    [user_posts |-> {"UQ_user_posts_user_post"}], {})

AddDeletedAtToUserComments ==
  Columns([user_comments |-> {"deleted_at"}])

CreateSiteReviewCommentImages ==
  Creation(
    [site_review_comment_images |-> {"id", "comment_id", "image_url", "order",
      "created_at"}],
    [site_review_comment_images |-> {"comment_id", "order"}],
    {}, {"site_review_comments"})

AddNameKoToSiteCategories ==
  Columns([site_categories |-> {"name_ko"}])

AddNameKoToPostCategories ==
  Columns([post_categories |-> {"name_ko"}])

AddSpecialKeyToPostCategories ==
  Columns([post_categories |-> {"special_key"}])

CreateSiteRequestsTable ==
  Creation(
    [site_requests |-> {"id", "user_id", "name", "slug", "category_id", "logo_url",
      "main_image_url", "site_image_url", "tier_id", "permanent_url",
      "description", "first_charge", "recharge", "experience", "status", "site_id",
      "admin_id", "rejection_reason", "ip_address", "created_at", "updated_at",
      "deleted_at"}],
    [site_requests |-> {"user_id", "status", "site_id", "admin_id", "created_at",
      "name_lowercase"}],
    {"site_request_status_enum"}, {"users", "site_categories", "tiers", "sites",
      "admins"})

AddOrderToPostCategories ==
  Columns([post_categories |-> {"order"}])

AddAdminCreateOnlyToPostCategories ==
  Columns([post_categories |-> {"admin_create_only"}])

RemoveTitleFromScamReports ==
  Reversible([Nothing EXCEPT !.drops = ColumnsOf([scam_reports |-> {"title"}])])

AddTitleToScamReports ==
  Columns([scam_reports |-> {"title"}])

RemoveColorAddIconToTiers ==
  Reversible([Nothing EXCEPT !.drops = ColumnsOf([tiers |-> {"color"}]),
                             !.adds = ColumnsOf([tiers |-> {"icon_url", "icon_name"}])])

CreateSiteBadgeRequests ==
  Creation(
    [site_badge_requests |-> {"id", "site_id", "badge_id", "user_id", "admin_id",
      "status", "note", "created_at", "updated_at"}],
    [site_badge_requests |-> {"site_id", "badge_id", "user_id", "status",
      "site_badge_status"}],
    {}, {})

CreateUserIpsTable ==
  Creation(
    [user_ips |-> {"id", "user_id", "ip", "is_blocked", "created_at",
      "updated_at"}],
    [user_ips |-> {"UQ_user_ips_user_id_ip", "user_id", "ip", "is_blocked"}],
    {}, {"users"})

AddIsPointBannerToPostCategories ==
  Columns([post_categories |-> {"is_point_banner"}])

AddAccessibleUrlToSites ==
  Columns([sites |-> {"accessible_url"}])

AddOrderInMainToPostCategories ==
  Columns([post_categories |-> {"order_in_main"}])

AddOrderToBadges ==
  Columns([badges |-> {"order"}])

AddContentAndImagesToSiteBadgeRequests ==
  Extension(
    [site_badge_request_images |-> {"id", "request_id", "image_url", "order",
      "created_at", "updated_at"}],
    [site_badge_requests |-> {"content"}],
    [site_badge_request_images |-> {"request_id"}], {"site_badge_requests"})

CreateUserBadgeRequests ==
  Creation(
    [user_badge_requests |-> {"id", "user_id", "badge_id", "admin_id", "status",
      "note", "content", "created_at", "updated_at"},
     user_badge_request_images |-> {"id", "request_id", "image_url", "order",
      "created_at", "updated_at"}],
    [user_badge_requests |-> {"user_id", "badge_id", "status", "user_badge_status"},
     user_badge_request_images |-> {"request_id"}],
    {}, {"users", "badges", "admins"})

AddIsPointBannerToPosts ==
  Columns([posts |-> {"is_point_banner"}])

AddSlugToPosts ==
  ColumnsAndIndexes([posts |-> {"slug"}], [posts |-> {"slug", "UQ_posts_slug"}], {})

CreateBlockedIpsTable ==
  Creation(
    [blocked_ips |-> {"id", "ip", "note", "created_by_admin_id", "created_at",
      "updated_at"}],
    [blocked_ips |-> {"UQ_blocked_ips_ip", "ip", "created_by_admin_id"}],
    {}, {"admins"})

AddDomainAccountToSiteManagerApplications ==
  Guarded([Nothing EXCEPT
    !.adds = ColumnsOf([site_manager_applications |-> {"domain", "account_id", "account_password"}])])

CreatePointSettings ==
  [up |-> [Nothing EXCEPT
     !.tables = [point_settings |-> {"id", "created_at", "updated_at", "deleted_at",
                                     "key", "name", "name_ko", "point"}],
     !.ensures = IndexesOf([point_settings |-> {"UQ_key"}]),
     !.adds = {Row("point_settings", k) : k \in LastingKeys \cup PostKeys}],
   down |-> [Nothing EXCEPT !.drops = Tables({"point_settings"})]]

AddDescriptionKoToPointTransactions ==
  Columns([point_transactions |-> {"description_ko"}])

AddPointToPostCategories ==
  Columns([post_categories |-> {"point"}])

RemovePostPointSettings ==
  Reversible([Nothing EXCEPT !.clears = {Row("point_settings", k) : k \in PostKeys}])

AddAccessibleUrlToSiteRequests ==
  Columns([site_requests |-> {"accessible_url"}])

AddCsMessengerToSiteRequests ==
  Columns([site_requests |-> {"cs_messenger"}])

-----------------------------------------------------------------------------
(* In the order of their timestamps, which is that of the class names. *)

All == <<
    CreateAuthUserSystem, CreateUserOldPasswords, AddTypeToRolesAndPermissions,
      CreateAdminSystem, CreateUserExtensions, CreatePostSystem,
      CreateScamReportSystem, CreateSiteSystemPart1, CreateSiteSystemPart2,
      CreateSiteSystemPart3, AddIsActiveToBadgesTiersCategories,
      AddDeletedAtToTiersCategories, AddIsSuperAdminToAdmins, AddAvatarUrlToAdmins,
      CreateSupportSystem, CreateUserHistorySites, AddSiteImageUrlToSites,
      CreateAttendanceSystem, AddRankingFieldsToSites, AddIndexesToScamReports,
      CreateScamReportImages, RemoveLikeCountFromScamReportComments,
      DropScamReportSiteTable, Updatesitereviewsschema, UpdateInquirySystem,
      AddConstraintsToSiteManagerApplications, CreatePocaEventsSystem,
      CreateGifticonsSystem, AddAmountToGifticons, AddPointsToUserProfiles,
      AddDeletedAtToPostCategories, AddThumbnailUrlToPosts,
      AddCreatedByAdminToPosts, DropPostUserFk,
      RemoveLikeCountFromPostsAndComments, CreatePointTransactionsSystem,
      CreateGifticonRedemptionsSystem, CreatePointExchangesSystem,
      AddRejectedStatusToGifticonRedemptionEnum, AddTypeColorToGifticons,
      CreatePartnerRequestsSystem, AddHasChildToComments, AddFieldsToScamReports,
      UpdateSiteReviewsAddFieldsAndImages, AddUserAdminToSiteEvents,
      MakeImageUrlNullableInSiteEventBanners, MakeUserIdNullableInScamReports,
      AddDeletedAtToScamReportImages, AddActiveToUserBadges, RemoveSiteOwnerRole,
      CreateOtpRequestsSystem, AddUserIdAndDeletedAtToOtpRequests,
      RemoveUniqueConstraintFromOtpRequestsPhone, AddTokenToOtpRequests,
      AddObtainToBadges, AddIpAddressesToTables, AddPointToBadges,
      AddColorToBadges, AddSlugToSites, AddManagerIdToPointExchanges,
      AddIconNameToBadges, CreatePostCommentReactions, AddShowMainToPostCategories,
      CreateUserSearchSites, AddTetherDepositWithdrawalStatusToSites,
      AddDeletedAtAndUniqueToUserPosts, AddDeletedAtToUserComments,
      CreateSiteReviewCommentImages, AddNameKoToSiteCategories,
      AddNameKoToPostCategories, AddSpecialKeyToPostCategories,
      CreateSiteRequestsTable, AddOrderToPostCategories,
      AddAdminCreateOnlyToPostCategories, RemoveTitleFromScamReports,
      AddTitleToScamReports, RemoveColorAddIconToTiers, CreateSiteBadgeRequests,
      CreateUserIpsTable, AddIsPointBannerToPostCategories,
      AddAccessibleUrlToSites, AddOrderInMainToPostCategories, AddOrderToBadges,
      AddContentAndImagesToSiteBadgeRequests, CreateUserBadgeRequests,
      AddIsPointBannerToPosts, AddSlugToPosts, CreateBlockedIpsTable,
      AddDomainAccountToSiteManagerApplications, CreatePointSettings,
      AddDescriptionKoToPointTransactions, AddPointToPostCategories,
      RemovePostPointSettings, AddAccessibleUrlToSiteRequests,
      AddCsMessengerToSiteRequests>>

Names == <<
    "CreateAuthUserSystem", "CreateUserOldPasswords",
      "AddTypeToRolesAndPermissions", "CreateAdminSystem", "CreateUserExtensions",
      "CreatePostSystem", "CreateScamReportSystem", "CreateSiteSystemPart1",
      "CreateSiteSystemPart2", "CreateSiteSystemPart3",
      "AddIsActiveToBadgesTiersCategories", "AddDeletedAtToTiersCategories",
      "AddIsSuperAdminToAdmins", "AddAvatarUrlToAdmins", "CreateSupportSystem",
      "CreateUserHistorySites", "AddSiteImageUrlToSites", "CreateAttendanceSystem",
      "AddRankingFieldsToSites", "AddIndexesToScamReports",
      "CreateScamReportImages", "RemoveLikeCountFromScamReportComments",
      "DropScamReportSiteTable", "Updatesitereviewsschema", "UpdateInquirySystem",
      "AddConstraintsToSiteManagerApplications", "CreatePocaEventsSystem",
      "CreateGifticonsSystem", "AddAmountToGifticons", "AddPointsToUserProfiles",
      "AddDeletedAtToPostCategories", "AddThumbnailUrlToPosts",
      "AddCreatedByAdminToPosts", "DropPostUserFk",
      "RemoveLikeCountFromPostsAndComments", "CreatePointTransactionsSystem",
      "CreateGifticonRedemptionsSystem", "CreatePointExchangesSystem",
      "AddRejectedStatusToGifticonRedemptionEnum", "AddTypeColorToGifticons",
      "CreatePartnerRequestsSystem", "AddHasChildToComments",
      "AddFieldsToScamReports", "UpdateSiteReviewsAddFieldsAndImages",
      "AddUserAdminToSiteEvents", "MakeImageUrlNullableInSiteEventBanners",
      "MakeUserIdNullableInScamReports", "AddDeletedAtToScamReportImages",
      "AddActiveToUserBadges", "RemoveSiteOwnerRole", "CreateOtpRequestsSystem",
      "AddUserIdAndDeletedAtToOtpRequests",
      "RemoveUniqueConstraintFromOtpRequestsPhone", "AddTokenToOtpRequests",
      "AddObtainToBadges", "AddIpAddressesToTables", "AddPointToBadges",
      "AddColorToBadges", "AddSlugToSites", "AddManagerIdToPointExchanges",
      "AddIconNameToBadges", "CreatePostCommentReactions",
      "AddShowMainToPostCategories", "CreateUserSearchSites",
      "AddTetherDepositWithdrawalStatusToSites",
      "AddDeletedAtAndUniqueToUserPosts", "AddDeletedAtToUserComments",
      "CreateSiteReviewCommentImages", "AddNameKoToSiteCategories",
      "AddNameKoToPostCategories", "AddSpecialKeyToPostCategories",
      "CreateSiteRequestsTable", "AddOrderToPostCategories",
      "AddAdminCreateOnlyToPostCategories", "RemoveTitleFromScamReports",
      "AddTitleToScamReports", "RemoveColorAddIconToTiers",
      "CreateSiteBadgeRequests", "CreateUserIpsTable",
      "AddIsPointBannerToPostCategories", "AddAccessibleUrlToSites",
      "AddOrderInMainToPostCategories", "AddOrderToBadges",
      "AddContentAndImagesToSiteBadgeRequests", "CreateUserBadgeRequests",
      "AddIsPointBannerToPosts", "AddSlugToPosts", "CreateBlockedIpsTable",
      "AddDomainAccountToSiteManagerApplications", "CreatePointSettings",
      "AddDescriptionKoToPointTransactions", "AddPointToPostCategories",
      "RemovePostPointSettings", "AddAccessibleUrlToSiteRequests",
      "AddCsMessengerToSiteRequests">>

\* The files whose name has a single hyphen.
NamedAsTheirClass ==
  {"AddIsSuperAdminToAdmins", "AddAvatarUrlToAdmins", "CreateUserSearchSites",
    "AddTetherDepositWithdrawalStatusToSites", "CreateSiteBadgeRequests"}
=============================================================================
