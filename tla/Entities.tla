------------------------------- MODULE Entities -------------------------------
(* The tables and columns the TypeORM entities read and write. *)
EXTENDS Migrations

Entity(table, columns) == [table |-> table, columns |-> columns]

BaseEntity == {"id", "created_at", "updated_at", "deleted_at"}

-----------------------------------------------------------------------------

AdminPermission ==
  Entity("admin_permissions", {"id", "admin_id", "permission_id", "created_at"})

AdminRole ==
  Entity("admin_roles", {"id", "admin_id", "role_id", "created_at"})

AdminToken ==
  Entity("admin_tokens", {"id", "admin_id", "token_id", "refresh_token_hash",
    "device_info", "ip_address", "expires_at", "revoked_at", "created_at",
    "updated_at"})

Admin ==
  Entity("admins", BaseEntity \cup {"email", "password_hash", "display_name",
    "avatar_url", "is_active", "is_super_admin", "last_login_at"})

AttendanceStatistic ==
  Entity("attendance_statistics", {"id", "user_id", "statistic_date",
    "total_attendance_days", "current_streak", "attendance_time",
    "attendance_rank", "daily_message", "created_at", "updated_at"})

Attendance ==
  Entity("attendances", {"id", "user_id", "message", "attendance_date",
    "created_at"})

OtpRequest ==
  Entity("otp_requests", {"id", "phone", "otp", "ip_address", "request_count",
    "last_request_at", "expires_at", "verified_at", "user_id", "deleted_at",
    "token", "token_expires_at", "created_at", "updated_at"})

UserToken ==
  Entity("user_tokens", {"id", "user_id", "token_id", "refresh_token_hash",
    "device_info", "ip_address", "expires_at", "revoked_at", "created_at",
    "updated_at"})

Badge ==
  Entity("badges", BaseEntity \cup {"name", "description", "icon_url", "icon_name",
    "badge_type", "is_active", "obtain", "point", "color", "order"})

GifticonRedemption ==
  Entity("gifticon_redemptions", {"id", "user_id", "gifticon_id", "points_used",
    "status", "redemption_code", "gifticon_snapshot", "cancelled_at",
    "cancelled_by", "cancellation_reason", "ip_address", "created_at",
    "updated_at"})

Gifticon ==
  Entity("gifticons", BaseEntity \cup {"title", "slug", "summary", "content",
    "image_url", "status", "starts_at", "ends_at", "amount", "type_color"})

PartnerRequest ==
  Entity("partner_requests", {"id", "user_id", "status", "admin_id", "reviewed_at",
    "rejection_reason", "created_at", "updated_at", "deleted_at"})

PocaEventBanner ==
  Entity("poca_event_banners", BaseEntity \cup {"event_id", "image_url", "order"})

PocaEventView ==
  Entity("poca_event_views", BaseEntity \cup {"event_id", "user_id", "ip_address",
    "user_agent"})

PocaEvent ==
  Entity("poca_events", BaseEntity \cup {"title", "slug", "summary", "content",
    "status", "starts_at", "ends_at", "primary_banner_url", "view_count"})

PointExchange ==
  Entity("point_exchanges", {"id", "user_id", "site_id", "points_amount",
    "site_currency_amount", "exchange_rate", "site_user_id", "status", "admin_id",
    "manager_id", "processed_at", "rejection_reason", "ip_address", "created_at",
    "updated_at"})

PointSetting ==
  Entity("point_settings", BaseEntity \cup {"key", "name", "name_ko", "point"})

PointTransaction ==
  Entity("point_transactions", {"id", "user_id", "type", "amount", "balance_after",
    "category", "reference_type", "reference_id", "description", "description_ko",
    "metadata", "created_at"})

PostCategory ==
  Entity("post_categories", BaseEntity \cup {"name", "name_ko", "description",
    "show_main", "is_point_banner", "order_in_main", "special_key", "order",
    "admin_create_only", "point"})

PostCommentImage ==
  Entity("post_comment_images", {"id", "comment_id", "image_url", "order",
    "created_at"})

PostCommentReaction ==
  Entity("post_comment_reactions", {"id", "comment_id", "user_id", "reaction_type"})

PostComment ==
  Entity("post_comments", BaseEntity \cup {"post_id", "user_id",
    "parent_comment_id", "content", "has_child"})

PostReaction ==
  Entity("post_reactions", {"id", "post_id", "user_id", "reaction_type"})

PostView ==
  Entity("post_views", {"id", "post_id", "user_id", "ip_address", "created_at"})

Post ==
  Entity("posts", BaseEntity \cup {"user_id", "admin_id", "category_id", "title",
    "slug", "content", "thumbnail_url", "is_pinned", "is_published",
    "is_point_banner", "published_at"})

ScamReportCommentImage ==
  Entity("scam_report_comment_images", {"id", "comment_id", "image_url", "order",
    "created_at"})

ScamReportComment ==
  Entity("scam_report_comments", BaseEntity \cup {"scam_report_id", "user_id",
    "parent_comment_id", "content", "has_child"})

ScamReportImage ==
  Entity("scam_report_images", {"id", "scam_report_id", "image_url", "order",
    "created_at", "deleted_at"})

ScamReportReaction ==
  Entity("scam_report_reactions", {"id", "scam_report_id", "user_id",
    "reaction_type", "created_at", "updated_at"})

ScamReport ==
  Entity("scam_reports", BaseEntity \cup {"user_id", "site_id", "title",
    "site_url", "site_name", "site_account_info", "registration_url", "contact",
    "description", "amount", "status", "admin_id", "reviewed_at", "ip_address"})

SiteEventBanner ==
  Entity("site_event_banners", {"id", "event_id", "image_url", "link_url", "order",
    "is_active", "created_at"})

SiteEventView ==
  Entity("site_event_views", {"id", "event_id", "user_id", "ip_address",
    "created_at"})

SiteEvent ==
  Entity("site_events", BaseEntity \cup {"site_id", "user_id", "admin_id", "title",
    "description", "start_date", "end_date", "is_active"})

SiteManagerApplication ==
  Entity("site_manager_applications", {"id", "site_id", "user_id", "domain",
    "account_id", "account_password", "message", "status", "admin_id",
    "reviewed_at", "created_at", "updated_at"})

SiteManager ==
  Entity("site_managers", {"id", "site_id", "user_id", "role", "is_active",
    "created_at", "updated_at"})

SiteRequest ==
  Entity("site_requests", BaseEntity \cup {"user_id", "name", "slug",
    "category_id", "logo_url", "main_image_url", "site_image_url", "tier_id",
    "permanent_url", "accessible_url", "description", "first_charge", "recharge",
    "experience", "status", "site_id", "admin_id", "rejection_reason",
    "ip_address", "cs_messenger"})

SiteReviewCommentImage ==
  Entity("site_review_comment_images", {"id", "comment_id", "image_url", "order",
    "created_at"})

SiteReviewComment ==
  Entity("site_review_comments", BaseEntity \cup {"review_id", "user_id",
    "parent_comment_id", "content", "has_child"})

SiteReviewImage ==
  Entity("site_review_images", {"id", "site_review_id", "image_url", "order",
    "created_at"})

SiteReviewReaction ==
  Entity("site_review_reactions", {"id", "review_id", "user_id", "reaction_type",
    "created_at", "updated_at"})

SiteReview ==
  Entity("site_reviews", BaseEntity \cup {"site_id", "user_id", "rating", "odds",
    "limit", "event", "speed", "content", "is_published"})

SiteBadgeRequestImage ==
  Entity("site_badge_request_images", {"id", "request_id", "image_url", "order",
    "created_at", "updated_at"})

SiteBadgeRequest ==
  Entity("site_badge_requests", {"id", "site_id", "badge_id", "user_id",
    "admin_id", "status", "note", "content", "created_at", "updated_at"})

SiteBadge ==
  Entity("site_badges", {"id", "site_id", "badge_id", "created_at"})

SiteCategory ==
  Entity("site_categories", BaseEntity \cup {"name", "name_ko", "description",
    "is_active"})

SiteDomain ==
  Entity("site_domains", {"id", "site_id", "domain", "is_active", "is_current",
    "created_at", "updated_at"})

SiteView ==
  Entity("site_views", {"id", "site_id", "user_id", "ip_address", "created_at"})

Site ==
  Entity("sites", BaseEntity \cup {"name", "slug", "category_id", "logo_url",
    "main_image_url", "site_image_url", "tier_id", "permanent_url",
    "accessible_url", "status", "description", "review_count", "average_rating",
    "first_charge", "recharge", "experience", "tether_deposit_withdrawal_status"})

Inquiry ==
  Entity("inquiries", BaseEntity \cup {"user_id", "title", "category", "message",
    "images", "status", "admin_id", "admin_reply", "replied_at", "ip_address"})

Tier ==
  Entity("tiers", BaseEntity \cup {"name", "description", "order", "icon_url",
    "icon_name", "is_active"})

AdminOldPassword ==
  Entity("admin_old_passwords", {"id", "admin_id", "password_hash", "type",
    "created_at"})

BlockedIp ==
  Entity("blocked_ips", {"id", "ip", "note", "created_by_admin_id", "created_at",
    "updated_at"})

Permission ==
  Entity("permissions", BaseEntity \cup {"name", "description", "type"})

Role ==
  Entity("roles", BaseEntity \cup {"name", "description", "type"})

UserBadgeRequestImage ==
  Entity("user_badge_request_images", {"id", "request_id", "image_url", "order",
    "created_at", "updated_at"})

UserBadgeRequest ==
  Entity("user_badge_requests", {"id", "user_id", "badge_id", "admin_id", "status",
    "note", "content", "created_at", "updated_at"})

UserBadge ==
  Entity("user_badges", {"id", "user_id", "badge_id", "earned_at", "active"})

UserComment ==
  Entity("user_comments", {"id", "user_id", "comment_type", "comment_id",
    "created_at", "updated_at", "deleted_at"})

UserFavoriteSite ==
  Entity("user_favorite_sites", {"id", "user_id", "site_id", "created_at"})

UserHistorySite ==
  Entity("user_history_sites", {"id", "user_id", "site_id", "created_at"})

UserIp ==
  Entity("user_ips", {"id", "user_id", "ip", "is_blocked", "created_at",
    "updated_at"})

UserOldPassword ==
  Entity("user_old_passwords", {"id", "user_id", "password_hash", "type",
    "created_at"})

UserPermission ==
  Entity("user_permissions", {"id", "user_id", "permission_id", "created_at"})

UserPost ==
  Entity("user_posts", BaseEntity \cup {"user_id", "post_id"})

UserProfile ==
  Entity("user_profiles", {"id", "user_id", "bio", "phone", "birth_date", "gender",
    "points", "register_ip", "last_login_ip", "last_request_ip", "created_at"})

UserRole ==
  Entity("user_roles", {"id", "user_id", "role_id", "created_at"})

UserSearchSite ==
  Entity("user_search_sites", {"id", "user_id", "search_query", "created_at"})

User ==
  Entity("users", BaseEntity \cup {"email", "password_hash", "display_name",
    "avatar_url", "is_active", "last_login_at"})

Entities == {
  AdminPermission, AdminRole, AdminToken, Admin, AttendanceStatistic, Attendance,
    OtpRequest, UserToken, Badge, GifticonRedemption, Gifticon, PartnerRequest,
    PocaEventBanner, PocaEventView, PocaEvent, PointExchange, PointSetting,
    PointTransaction, PostCategory, PostCommentImage, PostCommentReaction,
    PostComment, PostReaction, PostView, Post, ScamReportCommentImage,
    ScamReportComment, ScamReportImage, ScamReportReaction, ScamReport,
    SiteEventBanner, SiteEventView, SiteEvent, SiteManagerApplication, SiteManager,
    SiteRequest, SiteReviewCommentImage, SiteReviewComment, SiteReviewImage,
    SiteReviewReaction, SiteReview, SiteBadgeRequestImage, SiteBadgeRequest,
    SiteBadge, SiteCategory, SiteDomain, SiteView, Site, Inquiry, Tier,
    AdminOldPassword, BlockedIp, Permission, Role, UserBadgeRequestImage,
    UserBadgeRequest, UserBadge, UserComment, UserFavoriteSite, UserHistorySite,
    UserIp, UserOldPassword, UserPermission, UserPost, UserProfile, UserRole,
    UserSearchSite, User}
=============================================================================
