------------------------------- MODULE UiClasses -------------------------------
(***************************************************************************)
(* The classes of the form reader (ui4.h): for every class its attributes  *)
(* and the elements it has members for.  One(t) is a single value or an    *)
(* owned node, Many(t) a list of values or of owned nodes; t is text, int, *)
(* real, bool or the class of the node.  A choice has at most one of its   *)
(* elements at a time.                                                     *)
(***************************************************************************)
One(t) == [many |-> FALSE, type |-> t]
Many(t) == [many |-> TRUE, type |-> t]
Class(attributes, elements) == [attributes |-> attributes, elements |-> elements, choice |-> FALSE]
Choice(attributes, elements) == [Class(attributes, elements) EXCEPT !.choice = TRUE]
None == <<>>

DomUI == Class([version |-> "text", language |-> "text", stdsetdef |-> "int"],
    [author |-> One("text"), comment |-> One("text"), exportmacro |-> One("text"),
     class |-> One("text"), widget |-> One("DomWidget"),
     layoutdefault |-> One("DomLayoutDefault"), layoutfunction |-> One("DomLayoutFunction"),
     pixmapfunction |-> One("text"), customwidgets |-> One("DomCustomWidgets"),
     tabstops |-> One("DomTabStops"), images |-> One("DomImages"),
     includes |-> One("DomIncludes"), resources |-> One("DomResources"),
     connections |-> One("DomConnections"), designerdata |-> One("DomDesignerData"),
     slots |-> One("DomSlots")])
DomIncludes == Class(None, [include |-> Many("DomInclude")])
DomInclude == Class([location |-> "text", impldecl |-> "text"], None)
DomResources == Class([name |-> "text"], [include |-> Many("DomResource")])
DomResource == Class([location |-> "text"], None)
DomActionGroup == Class([name |-> "text"],
    [action |-> Many("DomAction"), actiongroup |-> Many("DomActionGroup"),
     property |-> Many("DomProperty"), attribute |-> Many("DomProperty")])
DomAction == Class([name |-> "text", menu |-> "text"],
    [property |-> Many("DomProperty"), attribute |-> Many("DomProperty")])
DomActionRef == Class([name |-> "text"], None)
DomImages == Class(None, [image |-> Many("DomImage")])
DomImage == Class([name |-> "text"], [data |-> One("DomImageData")])
DomImageData == Class([format |-> "text", length |-> "int"], None)
DomCustomWidgets == Class(None, [customwidget |-> Many("DomCustomWidget")])
DomHeader == Class([location |-> "text"], None)
DomCustomWidget == Class(None,
    [class |-> One("text"), extends |-> One("text"), header |-> One("DomHeader"),
     sizehint |-> One("DomSize"), addpagemethod |-> One("text"), container |-> One("int"),
     sizepolicy |-> One("DomSizePolicyData"), pixmap |-> One("text"),
     script |-> One("DomScript"), properties |-> One("DomProperties"),
     slots |-> One("DomSlots")])
DomProperties == Class(None, [property |-> Many("DomPropertyData")])
DomPropertyData == Class([type |-> "text"], None)
DomSizePolicyData == Class(None, [hordata |-> One("int"), verdata |-> One("int")])
DomLayoutDefault == Class([spacing |-> "int", margin |-> "int"], None)
DomLayoutFunction == Class([spacing |-> "text", margin |-> "text"], None)
DomTabStops == Class(None, [tabstop |-> Many("text")])
DomLayout == Class([class |-> "text", name |-> "text"],
    [property |-> Many("DomProperty"), attribute |-> Many("DomProperty"),
     item |-> Many("DomLayoutItem")])
DomLayoutItem == Choice(
    [row |-> "int", column |-> "int", rowspan |-> "int", colspan |-> "int"],
    [widget |-> One("DomWidget"), layout |-> One("DomLayout"), spacer |-> One("DomSpacer")])
DomRow == Class(None, [property |-> Many("DomProperty")])
DomColumn == Class(None, [property |-> Many("DomProperty")])
DomItem == Class([row |-> "int", column |-> "int"],
    [property |-> Many("DomProperty"), item |-> Many("DomItem")])
DomWidget == Class([class |-> "text", name |-> "text", native |-> "bool"],
    [class |-> Many("text"), property |-> Many("DomProperty"), script |-> Many("DomScript"),
     widgetdata |-> Many("DomWidgetData"), attribute |-> Many("DomProperty"),
     row |-> Many("DomRow"), column |-> Many("DomColumn"), item |-> Many("DomItem"),
     layout |-> Many("DomLayout"), widget |-> Many("DomWidget"),
     action |-> Many("DomAction"), actiongroup |-> Many("DomActionGroup"),
     addaction |-> Many("DomActionRef"), zorder |-> Many("text")])
DomSpacer == Class([name |-> "text"], [property |-> Many("DomProperty")])
DomColor == Class([alpha |-> "int"],
    [red |-> One("int"), green |-> One("int"), blue |-> One("int")])
DomGradientStop == Class([position |-> "real"], [color |-> One("DomColor")])
DomGradient == Class(
    [startx |-> "real", starty |-> "real", endx |-> "real", endy |-> "real",
     centralx |-> "real", centraly |-> "real", focalx |-> "real", focaly |-> "real",
     radius |-> "real", angle |-> "real", type |-> "text", spread |-> "text",
     coordinatemode |-> "text"],
    [gradientstop |-> Many("DomGradientStop")])
DomBrush == Choice([brushstyle |-> "text"],
    [color |-> One("DomColor"), texture |-> One("DomProperty"),
     gradient |-> One("DomGradient")])
DomColorRole == Class([role |-> "text"], [brush |-> One("DomBrush")])
DomColorGroup == Class(None, [colorrole |-> Many("DomColorRole"), color |-> Many("DomColor")])
DomPalette == Class(None,
    [active |-> One("DomColorGroup"), inactive |-> One("DomColorGroup"),
     disabled |-> One("DomColorGroup")])
DomFont == Class(None,
    [family |-> One("text"), pointsize |-> One("int"), weight |-> One("int"),
     italic |-> One("bool"), bold |-> One("bool"), underline |-> One("bool"),
     strikeout |-> One("bool"), antialiasing |-> One("bool"), stylestrategy |-> One("text"),
     kerning |-> One("bool")])
DomPoint == Class(None, [x |-> One("int"), y |-> One("int")])
DomRect == Class(None,
    [x |-> One("int"), y |-> One("int"), width |-> One("int"), height |-> One("int")])
DomLocale == Class([language |-> "text", country |-> "text"], None)
DomSizePolicy == Class([hsizetype |-> "text", vsizetype |-> "text"],
    [hsizetype |-> One("int"), vsizetype |-> One("int"), horstretch |-> One("int"),
     verstretch |-> One("int")])
DomSize == Class(None, [width |-> One("int"), height |-> One("int")])
DomDate == Class(None, [year |-> One("int"), month |-> One("int"), day |-> One("int")])
DomTime == Class(None, [hour |-> One("int"), minute |-> One("int"), second |-> One("int")])
DomDateTime == Class(None,
    [hour |-> One("int"), minute |-> One("int"), second |-> One("int"), year |-> One("int"),
     month |-> One("int"), day |-> One("int")])
DomStringList == Class(None, [string |-> Many("text")])
DomResourcePixmap == Class([resource |-> "text", alias |-> "text"], None)
DomResourceIcon == Class([resource |-> "text"],
    [normaloff |-> One("DomResourcePixmap"), normalon |-> One("DomResourcePixmap"),
     disabledoff |-> One("DomResourcePixmap"), disabledon |-> One("DomResourcePixmap"),
     activeoff |-> One("DomResourcePixmap"), activeon |-> One("DomResourcePixmap"),
     selectedoff |-> One("DomResourcePixmap"), selectedon |-> One("DomResourcePixmap")])
DomString == Class([notr |-> "text", comment |-> "text"], None)
DomPointF == Class(None, [x |-> One("real"), y |-> One("real")])
DomRectF == Class(None,
    [x |-> One("real"), y |-> One("real"), width |-> One("real"), height |-> One("real")])
DomSizeF == Class(None, [width |-> One("real"), height |-> One("real")])
DomChar == Class(None, [unicode |-> One("int")])
DomUrl == Class(None, [string |-> One("DomString")])
DomProperty == Choice([name |-> "text", stdset |-> "int"],
    [bool |-> One("text"), color |-> One("DomColor"), cstring |-> One("text"),
     cursor |-> One("int"), cursorshape |-> One("text"), enum |-> One("text"),
     font |-> One("DomFont"), iconset |-> One("DomResourceIcon"),
     pixmap |-> One("DomResourcePixmap"), palette |-> One("DomPalette"),
     point |-> One("DomPoint"), rect |-> One("DomRect"), set |-> One("text"),
     locale |-> One("DomLocale"), sizepolicy |-> One("DomSizePolicy"),
     size |-> One("DomSize"), string |-> One("DomString"),
     stringlist |-> One("DomStringList"), number |-> One("int"), float |-> One("real"),
     double |-> One("real"), date |-> One("DomDate"), time |-> One("DomTime"),
     datetime |-> One("DomDateTime"), pointf |-> One("DomPointF"),
     rectf |-> One("DomRectF"), sizef |-> One("DomSizeF"), longlong |-> One("int"),
     char |-> One("DomChar"), url |-> One("DomUrl"), uint |-> One("int"),
     ulonglong |-> One("int"), brush |-> One("DomBrush")])
DomConnections == Class(None, [connection |-> Many("DomConnection")])
DomConnection == Class(None,
    [sender |-> One("text"), signal |-> One("text"), receiver |-> One("text"),
     slot |-> One("text"), hints |-> One("DomConnectionHints")])
DomConnectionHints == Class(None, [hint |-> Many("DomConnectionHint")])
DomConnectionHint == Class([type |-> "text"], [x |-> One("int"), y |-> One("int")])
DomScript == Class([source |-> "text", language |-> "text"], None)
DomWidgetData == Class(None, [property |-> Many("DomProperty")])
DomDesignerData == Class(None, [property |-> Many("DomProperty")])
DomSlots == Class(None, [slot |-> Many("text"), signal |-> Many("text")])

ClassTable ==
    [DomUI |-> DomUI, DomIncludes |-> DomIncludes, DomInclude |-> DomInclude,
     DomResources |-> DomResources, DomResource |-> DomResource,
     DomActionGroup |-> DomActionGroup, DomAction |-> DomAction,
     DomActionRef |-> DomActionRef, DomImages |-> DomImages, DomImage |-> DomImage,
     DomImageData |-> DomImageData, DomCustomWidgets |-> DomCustomWidgets,
     DomHeader |-> DomHeader, DomCustomWidget |-> DomCustomWidget,
     DomProperties |-> DomProperties, DomPropertyData |-> DomPropertyData,
     DomSizePolicyData |-> DomSizePolicyData, DomLayoutDefault |-> DomLayoutDefault,
     DomLayoutFunction |-> DomLayoutFunction, DomTabStops |-> DomTabStops,
     DomLayout |-> DomLayout, DomLayoutItem |-> DomLayoutItem, DomRow |-> DomRow,
     DomColumn |-> DomColumn, DomItem |-> DomItem, DomWidget |-> DomWidget,
     DomSpacer |-> DomSpacer, DomColor |-> DomColor, DomGradientStop |-> DomGradientStop,
     DomGradient |-> DomGradient, DomBrush |-> DomBrush, DomColorRole |-> DomColorRole,
     DomColorGroup |-> DomColorGroup, DomPalette |-> DomPalette, DomFont |-> DomFont,
     DomPoint |-> DomPoint, DomRect |-> DomRect, DomLocale |-> DomLocale,
     DomSizePolicy |-> DomSizePolicy, DomSize |-> DomSize, DomDate |-> DomDate,
     DomTime |-> DomTime, DomDateTime |-> DomDateTime, DomStringList |-> DomStringList,
     DomResourcePixmap |-> DomResourcePixmap, DomResourceIcon |-> DomResourceIcon,
     DomString |-> DomString, DomPointF |-> DomPointF, DomRectF |-> DomRectF,
     DomSizeF |-> DomSizeF, DomChar |-> DomChar, DomUrl |-> DomUrl,
     DomProperty |-> DomProperty, DomConnections |-> DomConnections,
     DomConnection |-> DomConnection, DomConnectionHints |-> DomConnectionHints,
     DomConnectionHint |-> DomConnectionHint, DomScript |-> DomScript,
     DomWidgetData |-> DomWidgetData, DomDesignerData |-> DomDesignerData,
     DomSlots |-> DomSlots]
ClassNames == DOMAIN ClassTable
================================================================================
