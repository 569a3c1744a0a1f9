------------------------------- MODULE UiParsers -------------------------------
(***************************************************************************)
(* What ui4.cpp says of every class: the elements in the order in which    *)
(* read() tests for their tags and write() writes them, and the elements   *)
(* whose nodes clear(), the destructor and the setters delete; for a class *)
(* without elements the attributes that it reads and writes.               *)
(***************************************************************************)
EXTENDS Functions

UIReads == {"author", "comment", "exportmacro", "class", "widget", "layoutdefault",
            "layoutfunction", "pixmapfunction", "customwidgets", "tabstops", "images",
            "includes", "resources", "connections", "designerdata", "slots"}
UIWrites == <<"author", "comment", "exportmacro", "class", "widget", "layoutdefault",
              "layoutfunction", "pixmapfunction", "customwidgets", "tabstops", "images",
              "includes", "resources", "connections", "designerdata", "slots">>
UIDeletes == {"widget", "layoutdefault", "layoutfunction", "customwidgets", "tabstops",
              "images", "includes", "resources", "connections", "designerdata", "slots"}
IncludesTags == <<"include">>
IncludesDeletes == {"include"}
IncludeAttributes == {"location", "impldecl"}
ResourcesTags == <<"include">>
ResourcesDeletes == {"include"}
ResourceAttributes == {"location"}
ActionGroupTags == <<"action", "actiongroup", "property", "attribute">>
ActionGroupDeletes == {"action", "actiongroup", "property", "attribute"}
ActionTags == <<"property", "attribute">>
ActionDeletes == {"property", "attribute"}
ActionRefAttributes == {"name"}
ImagesTags == <<"image">>
ImagesDeletes == {"image"}
ImageTags == <<"data">>
ImageDeletes == {"data"}
ImageDataAttributes == {"format", "length"}
CustomWidgetsTags == <<"customwidget">>
CustomWidgetsDeletes == {"customwidget"}
HeaderAttributes == {"location"}
CustomWidgetTags == <<"class", "extends", "header", "sizehint", "addpagemethod",
                      "container", "sizepolicy", "pixmap", "script", "properties", "slots">>
CustomWidgetDeletes == {"header", "sizehint", "sizepolicy", "script", "properties", "slots"}
PropertiesTags == <<"property">>
PropertiesDeletes == {"property"}
PropertyDataAttributes == {"type"}
SizePolicyDataTags == <<"hordata", "verdata">>
LayoutDefaultAttributes == {"spacing", "margin"}
LayoutFunctionAttributes == {"spacing", "margin"}
TabStopsTags == <<"tabstop">>
LayoutTags == <<"property", "attribute", "item">>
LayoutDeletes == {"property", "attribute", "item"}
LayoutItemTags == <<"widget", "layout", "spacer">>
LayoutItemDeletes == {"widget", "layout", "spacer"}
RowTags == <<"property">>
RowDeletes == {"property"}
ColumnTags == <<"property">>
ColumnDeletes == {"property"}
ItemTags == <<"property", "item">>
ItemDeletes == {"property", "item"}
WidgetReads == {"class", "property", "script", "widgetdata", "attribute", "row", "column",
                "item", "layout", "widget", "action", "actiongroup", "addaction", "zorder"}
WidgetWrites == <<"class", "property", "script", "widgetdata", "attribute", "row", "column",
                  "item", "layout", "widget", "action", "actiongroup", "addaction",
                  "zorder">>
WidgetDeletes == {"property", "script", "widgetdata", "attribute", "row", "column", "item",
                  "layout", "widget", "action", "actiongroup", "addaction"}
SpacerTags == <<"property">>
SpacerDeletes == {"property"}
ColorTags == <<"red", "green", "blue">>
GradientStopTags == <<"color">>
GradientStopDeletes == {"color"}
GradientTags == <<"gradientstop">>
GradientDeletes == {"gradientstop"}
BrushTags == <<"color", "texture", "gradient">>
BrushDeletes == {"color", "texture", "gradient"}
ColorRoleTags == <<"brush">>
ColorRoleDeletes == {"brush"}
ColorGroupTags == <<"colorrole", "color">>
ColorGroupDeletes == {"colorrole", "color"}
PaletteTags == <<"active", "inactive", "disabled">>
PaletteDeletes == {"active", "inactive", "disabled"}
FontTags == <<"family", "pointsize", "weight", "italic", "bold", "underline", "strikeout",
              "antialiasing", "stylestrategy", "kerning">>
PointTags == <<"x", "y">>
RectTags == <<"x", "y", "width", "height">>
LocaleAttributes == {"language", "country"}
SizePolicyTags == <<"hsizetype", "vsizetype", "horstretch", "verstretch">>
SizeTags == <<"width", "height">>
DateTags == <<"year", "month", "day">>
TimeTags == <<"hour", "minute", "second">>
DateTimeTags == <<"hour", "minute", "second", "year", "month", "day">>
StringListTags == <<"string">>
ResourcePixmapAttributes == {"resource", "alias"}
ResourceIconTags == <<"normaloff", "normalon", "disabledoff", "disabledon", "activeoff",
                      "activeon", "selectedoff", "selectedon">>
ResourceIconDeletes == {"normaloff", "normalon", "disabledoff", "disabledon", "activeoff",
                        "activeon", "selectedoff", "selectedon"}
StringAttributes == {"notr", "comment"}
PointFTags == <<"x", "y">>
RectFTags == <<"x", "y", "width", "height">>
SizeFTags == <<"width", "height">>
CharTags == <<"unicode">>
UrlTags == <<"string">>
UrlDeletes == {"string"}
PropertyReads == {"bool", "color", "cstring", "cursor", "cursorshape", "enum", "font",
                  "iconset", "pixmap", "palette", "point", "rect", "set", "locale",
                  "sizepolicy", "size", "string", "stringlist", "number", "float", "double",
                  "date", "time", "datetime", "pointf", "rectf", "sizef", "longlong",
                  "char", "url", "uint", "ulonglong", "brush"}
PropertyWrites == <<"bool", "color", "cstring", "cursor", "cursorShape", "enum", "font",
                    "iconset", "pixmap", "palette", "point", "rect", "set", "locale",
                    "sizepolicy", "size", "string", "stringlist", "number", "float",
                    "double", "date", "time", "datetime", "pointf", "rectf", "sizef",
                    "longLong", "char", "url", "uInt", "uLongLong", "brush">>
PropertyDeletes == {"color", "font", "iconset", "pixmap", "palette", "point", "rect",
                    "locale", "sizepolicy", "size", "string", "stringlist", "date", "time",
                    "datetime", "pointf", "rectf", "sizef", "char", "url", "brush"}
ConnectionsTags == <<"connection">>
ConnectionsDeletes == {"connection"}
ConnectionTags == <<"sender", "signal", "receiver", "slot", "hints">>
ConnectionDeletes == {"hints"}
ConnectionHintsTags == <<"hint">>
ConnectionHintsDeletes == {"hint"}
ConnectionHintTags == <<"x", "y">>
ScriptAttributes == {"source", "language"}
WidgetDataTags == <<"property">>
WidgetDataDeletes == {"property"}
DesignerDataTags == <<"property">>
DesignerDataDeletes == {"property"}
SlotsTags == <<"slot", "signal">>

\* classes without an entry have no elements, or none that is a node
ReadTable ==
    [DomUI |-> UIReads, DomIncludes |-> Range(IncludesTags),
     DomResources |-> Range(ResourcesTags), DomActionGroup |-> Range(ActionGroupTags),
     DomAction |-> Range(ActionTags), DomImages |-> Range(ImagesTags),
     DomImage |-> Range(ImageTags), DomCustomWidgets |-> Range(CustomWidgetsTags),
     DomCustomWidget |-> Range(CustomWidgetTags), DomProperties |-> Range(PropertiesTags),
     DomSizePolicyData |-> Range(SizePolicyDataTags), DomTabStops |-> Range(TabStopsTags),
     DomLayout |-> Range(LayoutTags), DomLayoutItem |-> Range(LayoutItemTags),
     DomRow |-> Range(RowTags), DomColumn |-> Range(ColumnTags),
     DomItem |-> Range(ItemTags), DomWidget |-> WidgetReads,
     DomSpacer |-> Range(SpacerTags), DomColor |-> Range(ColorTags),
     DomGradientStop |-> Range(GradientStopTags), DomGradient |-> Range(GradientTags),
     DomBrush |-> Range(BrushTags), DomColorRole |-> Range(ColorRoleTags),
     DomColorGroup |-> Range(ColorGroupTags), DomPalette |-> Range(PaletteTags),
     DomFont |-> Range(FontTags), DomPoint |-> Range(PointTags),
     DomRect |-> Range(RectTags), DomSizePolicy |-> Range(SizePolicyTags),
     DomSize |-> Range(SizeTags), DomDate |-> Range(DateTags), DomTime |-> Range(TimeTags),
     DomDateTime |-> Range(DateTimeTags), DomStringList |-> Range(StringListTags),
     DomResourceIcon |-> Range(ResourceIconTags), DomPointF |-> Range(PointFTags),
     DomRectF |-> Range(RectFTags), DomSizeF |-> Range(SizeFTags),
     DomChar |-> Range(CharTags), DomUrl |-> Range(UrlTags), DomProperty |-> PropertyReads,
     DomConnections |-> Range(ConnectionsTags), DomConnection |-> Range(ConnectionTags),
     DomConnectionHints |-> Range(ConnectionHintsTags),
     DomConnectionHint |-> Range(ConnectionHintTags),
     DomWidgetData |-> Range(WidgetDataTags), DomDesignerData |-> Range(DesignerDataTags),
     DomSlots |-> Range(SlotsTags)]
WriteTable ==
    [DomUI |-> UIWrites, DomIncludes |-> IncludesTags, DomResources |-> ResourcesTags,
     DomActionGroup |-> ActionGroupTags, DomAction |-> ActionTags, DomImages |-> ImagesTags,
     DomImage |-> ImageTags, DomCustomWidgets |-> CustomWidgetsTags,
     DomCustomWidget |-> CustomWidgetTags, DomProperties |-> PropertiesTags,
     DomSizePolicyData |-> SizePolicyDataTags, DomTabStops |-> TabStopsTags,
     DomLayout |-> LayoutTags, DomLayoutItem |-> LayoutItemTags, DomRow |-> RowTags,
     DomColumn |-> ColumnTags, DomItem |-> ItemTags, DomWidget |-> WidgetWrites,
     DomSpacer |-> SpacerTags, DomColor |-> ColorTags, DomGradientStop |-> GradientStopTags,
     DomGradient |-> GradientTags, DomBrush |-> BrushTags, DomColorRole |-> ColorRoleTags,
     DomColorGroup |-> ColorGroupTags, DomPalette |-> PaletteTags, DomFont |-> FontTags,
     DomPoint |-> PointTags, DomRect |-> RectTags, DomSizePolicy |-> SizePolicyTags,
     DomSize |-> SizeTags, DomDate |-> DateTags, DomTime |-> TimeTags,
     DomDateTime |-> DateTimeTags, DomStringList |-> StringListTags,
     DomResourceIcon |-> ResourceIconTags, DomPointF |-> PointFTags, DomRectF |-> RectFTags,
     DomSizeF |-> SizeFTags, DomChar |-> CharTags, DomUrl |-> UrlTags,
     DomProperty |-> PropertyWrites, DomConnections |-> ConnectionsTags,
     DomConnection |-> ConnectionTags, DomConnectionHints |-> ConnectionHintsTags,
     DomConnectionHint |-> ConnectionHintTags, DomWidgetData |-> WidgetDataTags,
     DomDesignerData |-> DesignerDataTags, DomSlots |-> SlotsTags]
AttributeTable ==
    [DomInclude |-> IncludeAttributes, DomResource |-> ResourceAttributes,
     DomActionRef |-> ActionRefAttributes, DomImageData |-> ImageDataAttributes,
     DomHeader |-> HeaderAttributes, DomPropertyData |-> PropertyDataAttributes,
     DomLayoutDefault |-> LayoutDefaultAttributes,
     DomLayoutFunction |-> LayoutFunctionAttributes, DomLocale |-> LocaleAttributes,
     DomResourcePixmap |-> ResourcePixmapAttributes, DomString |-> StringAttributes,
     DomScript |-> ScriptAttributes]
DeleteTable ==
    [DomUI |-> UIDeletes, DomIncludes |-> IncludesDeletes,
     DomResources |-> ResourcesDeletes, DomActionGroup |-> ActionGroupDeletes,
     DomAction |-> ActionDeletes, DomImages |-> ImagesDeletes, DomImage |-> ImageDeletes,
     DomCustomWidgets |-> CustomWidgetsDeletes, DomCustomWidget |-> CustomWidgetDeletes,
     DomProperties |-> PropertiesDeletes, DomLayout |-> LayoutDeletes,
     DomLayoutItem |-> LayoutItemDeletes, DomRow |-> RowDeletes,
     DomColumn |-> ColumnDeletes, DomItem |-> ItemDeletes, DomWidget |-> WidgetDeletes,
     DomSpacer |-> SpacerDeletes, DomGradientStop |-> GradientStopDeletes,
     DomGradient |-> GradientDeletes, DomBrush |-> BrushDeletes,
     DomColorRole |-> ColorRoleDeletes, DomColorGroup |-> ColorGroupDeletes,
     DomPalette |-> PaletteDeletes, DomResourceIcon |-> ResourceIconDeletes,
     DomUrl |-> UrlDeletes, DomProperty |-> PropertyDeletes,
     DomConnections |-> ConnectionsDeletes, DomConnection |-> ConnectionDeletes,
     DomConnectionHints |-> ConnectionHintsDeletes, DomWidgetData |-> WidgetDataDeletes,
     DomDesignerData |-> DesignerDataDeletes]

Reads(c) == IF c \in DOMAIN ReadTable THEN ReadTable[c] ELSE {}
Writes(c) == IF c \in DOMAIN WriteTable THEN WriteTable[c] ELSE <<>>
Deletes(c) == IF c \in DOMAIN DeleteTable THEN DeleteTable[c] ELSE {}
================================================================================
